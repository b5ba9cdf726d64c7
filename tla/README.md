# Verification of the Dirextalk vNext deployer

TLA+ specifications of the deployer in `src/`: a Rust command line program that
creates, updates, verifies and removes a self-hosted chat node on AWS EC2,
manages deployment operations and Connector hosts on the node itself, and builds
the release files it installs. The modules here are translated from the source;
`PROJECT.json` names, for every definition, the lines it stands for.

## 1. The system

| Component | Durable state | Operations | Talks to |
|---|---|---|---|
| EC2 lifecycle (`aws_ec2/workflow.rs`, `store.rs`) | one sealed `Ec2State` JSON per target, replaced by rename; a key pair and other artifacts beside it; a lock file | apply, resume, status, verify, destroy, purge | AWS CLI/SDK, ssh to the instance |
| EC2 update / rollback (`workflow.rs` 3652-4271) | the same state file: `current`, `previous`, `rollback` receipts, update phases | update, rollback_update | host installer over ssh |
| Operator CIDR rebind (`workflow.rs` 4272-4609) | the same state file, the group's ingress rules | rebind_operator_cidr | EC2 |
| Host staging (`workflow.rs` 1654-3201) | files on the host | ensure_host_helper, reconcile_install_input, recover_runtime | ssh, scp |
| Deployment store (`deployment.rs`) | per operation a record, per target an owner file, per connector an owner and a claim file | claim, advance, fail, resume, rollback, expire; claim/observe/release/expire a connector | shared by root processes through lock files |
| Connector execution (`connector_apply.rs`, `connector_claim.rs`) | an execution record per operation, under a lease | apply | deployment store, Host Supervisor |
| Client binding (`client_binding.rs`) | a binding record, a protected output file | issue (repeated until the binding is recorded) | EC2 state, node over ssh |
| Binding tickets (`deployment_binding.rs`) | an output file and a record of its ticket, per target | issue, status, wait | node over ssh, ticket server |
| Alpha deployment (`alpha_deployment.rs`) | one record, no lock | create, advance, inspect | - |
| User deployment (`user_deployment.rs`, `rootkey.rs`) | rotation reminder | onboard, resume, verify-rotation | EC2 lifecycle, IAM |
| Release materials (`release_materials.rs`, `source.rs`, `release_evidence.rs`) | a stage, an output directory, a lock file | assemble, compose, verify | git, file system |
| Release packages (`plan.rs`, `receipt.rs`, `archive.rs`, `publish.rs`) | binaries, a receipt, archive, npm package, manifest | build, assemble, publish | compilers, registry, npm, GitHub |
| Contracts and formats (`manifest.rs`, `digest.rs`, `archive.rs`, `strict_json.rs`, `aws_ec2/bundle.rs`, `aws_ec2/provision.rs`, `agent_bundle.rs`) | none | parse, validate, hash, pack | - |
| Adapters (`aws_sdk.rs`, `cli.rs`, `error.rs`) | none | call AWS, parse arguments | - |

What is hard here is not any one function but the gaps between them. Every
operation is a chain of persists and remote effects that can stop anywhere: the
process is killed, a command times out after it took effect, another operator
holds the lock or changed the resource, or a check refuses after something has
already been done. The user then repeats a command, and the code must work out
from the state file and from what AWS reports what was done. The full list of
such places, with the line where each bites, is `hazards` in `PROJECT.json`.

What makes the components correct:

* lifecycle: user data is never deleted but by the explicit purge; a destroyed
  target never comes back; every resource the program made is either recorded or
  found again; a target stays in one AWS account; repeating an interrupted
  command completes it;
* update: the host is never more than one receipt ahead of the state file, what
  runs is what the state file is about to install, and an attestation that is
  accepted is true;
* rebind: SSH is never open to nobody, nor to an address beside the old and the
  new one;
* deployment store: one operation owns a target at a time, an operation that was
  superseded never changes again, completion implies that every connector was
  handed over;
* connector execution: the projection on the store never runs ahead of the
  durable execution record, and expiry means that the host did nothing;
* client binding: a successful call has delivered the recorded binding, and the
  secret's copy on the host is gone once the record says so;
* tickets: the record never runs ahead of the server, and only a used-up ticket is
  destroyed; the reminder to rotate a key is cleared only on proof (which the
  code does not keep, see `rotation_proof`); a record of an Alpha is earned;
* releases: what is published is one release, of the commits its manifest names,
  and what is reported as staged is what was validated.

## 2. Modules

| Module | Models |
|---|---|
| `Ec2Lifecycle` | the EC2 lifecycle: apply, resume, verify, destroy, purge |
| `DeploymentStore` | the deployment operation store: operations, target owners, connector claims |
| `ConnectorApply` | the bootstrap of Connectors, composed with `DeploymentStore` and the Host Supervisor |
| `ConnectorBootstrap` | what that bootstrap promises, the abstract specification |
| `HostInstaller` | the programs that run as root on the host: bootstrap, recovery, attester |
| `HostStaging` | extends it by the deployer's work on the host: helpers, inputs, receipts |
| `Ec2Update` | extends that by the operations: install, verify, update, rollback, recovery, rebind |
| `ReleaseChain` | what updating promises of receipts, the abstract specification |
| `ClientBinding` | client-binding issue for an EC2 target |
| `BindingTicket` | binding tickets: issue, status, wait |
| `CredentialRotation` | the reminder to rotate the onboarding key |
| `AlphaRecord` | the lifecycle record of an Internal Test Alpha |
| `ReleaseStage` | release materials: assemble, compose, verify |
| `ReleasePublication` | release packages: build, assemble, publish |
| `MCEc2`, `MCStore`, `MCConnector`, `MCUpdate`, `MCCommands` | the instances for TLC |
| `MCRepetition` | the lifecycle and the store once more, for what repeating a command completes |
| `Ec2LifecycleProofs`, `Ec2UpdateProofs`, `DeploymentStoreProofs`, `ConnectorApplyProofs`, `ClientBindingProofs`, `ReleaseStageProofs`, `ReleasePublicationProofs` | the theorems about the module they are named after |
| `CommandProofs` | the theorems about `BindingTicket` and `AlphaRecord` |

`MCCommands` explores the six command modules at the end of the list one at a time
(`live` names the one that moves): they share no state, so a product of them would
only repeat what each does by itself. `MCRepetition` does the same for lifecycle and
store.

### Ec2Lifecycle

State. `disk` is the `Ec2State` file reduced to the fields that steer control:
the phase, the pending-effect marker, the account, how far the key pair and the
DNS record got, the recorded allocation id, and the set `has` of those optional
fields of which only presence matters. `files` are the two files of the local key
pair, `cloud` is what AWS holds for the target, `host` what the instance's file
system holds. `holder` is the process with the target's lock, `at` the point at
which its operation continues, and `effect`/`ran` the external command between
`before_effect` and `after_effect`.

Steps. Each function of `apply` and `destroy` is cut where it persists and where
it runs an effect, because these are the points between which a crash leaves
different traces. `BeforeEffect`, `RunEffect` and `AfterEffect` are the three
steps of `run_effect`. The in-memory copy of the state is not a variable: the
code mutates it and then persists it, and what is lost by a crash in between is
exactly what `Abort` loses. Read-only AWS calls are evaluated in the step that
uses their answer. A refusal (`return Err`) is `Refuse`; nothing is persisted.

Environment. `Abort` is a crash, a kill, a timeout or an error reply at any
step: before an effect, after the effect but before its reply, before any
persist. `ZoneEdit` lets other users of the Route 53 zone remove or replace the
record of the target's name at any time, and initially a foreign record or a
foreign key pair may be in the way. `AwsCreates`, `AwsDestroys`, `HostRuns` and
`RunKeygen` are external: they say what each command does, and `run-instances`
honours its client token.

Left out of this module: update and rollback (`Ec2Update`), the
instance failing on its own, and the many shape checks on AWS answers (ownership
tags, sizes, types), which for resources the deployer made itself always pass.
Staging of the host helpers is one effect here and spelled out in `HostStaging`. The
first install has its own steps also here, because no receipt is on the host then:
`InstallInitial` uses inputs it finds whole, stages them where there are none, and
refuses an input of another size, as `classify_install_input` does (`StageInputs` passes
through that state, where a fault may leave it); clearing the inputs needs a receipt.

### DeploymentStore

State. `records`, `owner`, `connectorOwner` and `claims` are the four kinds of
JSON files in the store's directory: `operation-<id>`, `target-owner-<fence>`,
`connector-owner-<instance>` and `connector-<instance>-operation-<id>`. An
`Identity` is what `operation_identity_digest` covers, reduced to the id, the
target (which stands for target and host, the ownership fence), the predecessor
and the connector instances; manifest and artifact never change under an id and
are part of the comparison only. `calls` holds the calls of `claim` and
`claim_connector` that are between their two writes, and thereby the lock files
that are held: `IdFree`, `TargetFree` and `InstanceFree` are the try-locks. A
lock that is taken makes a call return `OperationLocked`, which is a stutter.

Steps. A call that writes one file does so while it holds the locks of all it
reads, so it is one action: `Advance`, `Fail`, `Resume`, `ExpireOperation`,
`RollbackFence`, `FinishRollback` and the three claim transitions
(`MoveClaim`). What such a call reads before it has the lock (`lock_current`)
only tells which lock to take: the identity of a record never changes.
`write_path` replaces a file by rename, hence a write is atomic. `claim` has
three steps because it takes its locks one after the other and writes two files:
`Claim` (id lock, comparison with an existing record, search of the owner files),
`ClaimRecord` (target lock, transition check, first write) and `ClaimOwner`.
`claim_connector` has two, `ClaimConnector` and `ConvergeClaim`. `Crash` may end
any call between its steps. A claim's predecessor is not stored: it is computed
from the parent operation and the instance, both of which never change.

Initial states. The store is empty, or holds one owner file without a record:
what a crash of an earlier version, which wrote the owner first, left behind, and
what `reconcile_legacy_owner_for_absent_operation` is there for.

Left out: integrity digests, file modes and size limits (a file that fails them
is an error everywhere), failure evidence, and the execution file of a connector
lease, which is in `ConnectorApply`.

### ConnectorApply and ConnectorBootstrap

State. The five variables of `DeploymentStore`, whose actions are taken from
`Store == INSTANCE DeploymentStore`; `execution`, the record of an operation with
the Connector it serves, the Host operation id it drew (one key stands for the
three ids of prepare, start and finalize, which are drawn together) and its phase;
`jobs`, the run of `apply` in each process: the point it has reached, what it read
before it had the lease (`seen`, `claim`, `expired`), the answer it is about to
persist and the calls of the store it has still to make (`todo`).

Steps. The function is cut at every call of the store (which has locks of its
own), every exchange with the Host and every write of the record; between two cuts
it only computes. `Projection` lists the calls that follow a write of the record,
`Converge` the calls with which a later run catches up
(`converge_deployment_projection`). A run holds the lease of its operation from
`snapshot` on, that is, after it has read the claim, the operation and the clock.
`Stop` ends a run, or a call of the store, at any point: an error, a rejection, a
timeout or a kill; an exchange that was under way may still reach the Host
(`late`). `Claim` and `FinishClaim` are the command `deployment-connector-claim`.

Environment. The Host Supervisor is external, modelled from what `apply` and its
tests rely on: it keeps the state of every Host operation id; a request with the
header only is answered with the recorded result, or with a demand for the
material if there is none; a request that was executed before is answered without
a second effect; a prepare after the expiry of the plan has no effect and says so.
`Expire` lets the plan of an operation in `ShortLived` expire at any moment.

`ConnectorBootstrap` has three variables: the instance an operation works on, what
the Host did for it, and its verdict. Effects happen one by one and never after
the verdict, the verdict is what the Host did, and the next operation of an
instance begins after the verdict on the last. `ImplementsBootstrap` is the
refinement: `connector` is read off the execution records, `effect` off the Host,
`verdict` off the operation records.

Left out: the numbers of the revision handshake (a revision that is not the
expected one is an error, hence a `Stop`), material files and their digests, and
the write of the finalize header, which changes no phase.

### HostInstaller, HostStaging and Ec2Update

Three layers of one component, each extending the one before.

`HostInstaller` translates the programs the deployer pins by digest and the tests
keep a copy of: the bootstrap of the update from 0.1.1 to 0.1.4, the recovery of a
false runtime, and the attester; the installer of 0.1.1 itself is not in the
repository and is modelled by what the deployer requires of its receipt. State:
the two uploads (`input`), the receipt in force and those kept by digest
(`current`, `history`), what runs, the attestation, the transition marker, and the
program that holds the host's lock (`work`). A receipt is the history it came from,
a sequence of releases with `installed` or `rolled_back`; its predecessor is that
sequence without its last element. Programs that wait for the lock after their ssh
connection was lost are `orphans`: they run later, when nobody waits for them.
`InstallerDies` kills a program between any two of its writes.

`HostStaging` is the deployer's side of that: `ensure_host_helper` (upload, copy,
move, each with its pending marker and its reconciliation) and
`stage_install_read_receipt` (clear, stage, protect and own the two inputs, run the
program, classify the receipt that is found). A job is one such call;
`Unreachable`, `Refused` and a fault end it. An upload that was cut off leaves a
partial file (`CutOff`).

`Ec2Update` is the operations on a target whose instance exists. `rec` is the state
file, `files` the artifacts beside it (candidate bundle, requests, sealed recovery
helpers), `ingress` the addresses the security group admits to port 22, `addr` the
address the operator has at present and `op` the operation that holds the lock. A
point of `op` is a persist, an artifact write or a job; `Ec2Lifecycle` covers what
apply does before and destroy after. `ReleaseChain` is the promise, of the releases
that a receipt has been through (`Path`): `Activate` appends one release to the
recorded ones, `Record` brings the record level with the host.

A rollback that was made twice. The installers wait for the host's lock without
limit (`flock` without a timeout, line 1185 of the bootstrap kept in
`tests/fixtures/legacy/cross-version-install-vnext`), and they read their uploads
once they have it. A bootstrap that a cut-off update left waiting can therefore come
up during a rollback that is repeated and take its uploads, the request that leads
back to the old release. The host has been rolled back by then, `recovered_rollback`
(1087-1148) admits the request once more, and the receipt that ends with
`rolled_back` is replaced by one that ends with `installed`. What runs is the old
release either way, hence `ReleaseChain` holds; but the receipt is not the one
`stage_install_read_receipt` waits for, and the rollback is refused from then on. That
takes three faults; with a fourth, the state file may say `RolledBack` with the receipt
of the first rollback, which is the exception in `RecordFollowsHost`. The proof found
it, since the invariant without it is not inductive; TLC shows both histories when
the bound on faults, which is one in the run, is raised.

Left out: maintenance of the host's storage, the migration of a state file of an
earlier schema, and the digests of artifacts (an artifact that is not the recorded
one is refused).

### ClientBinding

One call holds the EC2 lock and the binding lock from its first to its last step,
so calls of a target do not interleave; the variables are the call's point, the
record, the protected output, request and export on the host, the binding the
identity service last issued, what has expired, and `bindLate`, a helper that
outlives the ssh connection it was started through. `UserEdits` is the operator who
moves or replaces the output. The helpers on the host are external and run one at a
time: a helper draws a fresh binding or exports the live one again, and consumes
the request or leaves it.

`Blocked` names what no repetition gets past, and `BindingSettles` excludes: a
request on the host that was cut off or not yet protected (it is refused, not
replaced), an output file without a record (a kill between publication and the
write of `PendingCleanup`, after which the helper may draw a binding that does not
fit it), and a target that is not terminal. Left out: the local variant (316-401), whose
production executor refuses every call.

### BindingTicket

`ticketOutput` and `ticketRecord` are the two files of a target, `ticketServer` the
state of every ticket at the server, which moves on by itself. `issue` stages the
request, draws, pulls over the output, records and cleans up; `status` reads the
output, asks, records the answer, and zeroes and unlinks an output that is used up.
`wait` is `status` repeated. `Cut` ends a call anywhere. Two things the model shows
and no property forbids: a request that was left protected on the host is never
reconciled, so every later `issue` fails to upload its own; and an output that was zeroed but not unlinked parses
as no ticket, so `status` refuses it until the operator removes it.

### CredentialRotation

The commands of one target interleave: `ReadReminder` and `ClearReminder` take the
lock separately, and the calls to IAM run without it. `PrincipalOf` and `AccountOf`
say whose key is whose; `list-access-keys` answers for the principal that signs.
`UserEditsKey` deactivates, deletes or creates keys at any time. `resume` never
writes the reminder, so a kill of `onboard` before it leaves none; the write of
`verify-rotation` replaces the record it read, also when a newer `onboard` wrote
another in between.

### AlphaRecord

No lock is held, and a replacement passes through a temporary file of one fixed
name, so the model keeps the two files, who has them open, and each command's point
between create, write and rename. Overlapping commands can tear the record or take
`Completed` back: `RecordIsEarned` claims succession only while no two overlap
(`alphaAlone`), and evidence always.

### ReleaseStage

A run works through file descriptors: of the parent directory, of its stage and of
a lock file. Around it others may edit the sources, the fragments and the
repositories, move the parent directory or put a directory in the place of the
stage (`Environment`, at most `MaxEdits` times); the guards of the code must notice
what matters. A failure after the rename leaves the output visible, which
`RefusalLeavesNothing` allows; `compose` does not compare the content of its stage
with its fragments before it takes the inventory. `assemble` writes the evidence of
what it copied (`WriteEvidence`), compares the files with it (`CompareEvidence`, line
995) and then reads the stage a second time (`TakeInventory`, 996), without another
comparison. What is edited between the two reads is inventoried, gets checksums and is
reported as released, and so is, at any time before, an edit of a file that the
comparison does not cover: recipes, inputs and manifest (`Attested` are the others).
So `ReleaseIsTrue` ties the output to the inventory for every run, and for
`assemble` the inventory to evidence and copies only if nobody made an edit from the
writing of the evidence to the second read; `gap` counts the edits made in that time.
An output edited so is one that `verify` refuses, unless evidence and checksums
were edited with it: `Consistent` accepts whatever directory agrees with its own
documents, somebody else's too. Left out: that the removal of a refused stage may itself
fail (`478-481` ignores errors), and the fields of the documents.

### ReleasePublication

`build`, `assemble` and `publish` share directories and take no lock. A binary is
identified with the commit it was compiled from; one target stands for all.
`assemble` opens, writes and measures archive, npm package and manifest one by one,
so two assemblies that overlap can record the digest of an archive the other is
still writing: `PublishedIsBuilt` excludes that (`pubAlone`), except that no
manifest ever replaces another. `npm` and GitHub refuse a version they have; a
publish that failed half-way is repeated with the places that are left. Bounds of
the environment, beside `MaxChanges`: build and publish run alone, repositories do
not change while a compiler or publish reads them, and the release directory is cleared only
between commands. The server image that `build` may write beside the binaries is
read by no other command and left out.

## 3. Runs

| Run | Question | Result |
|---|---|---|
| `ec2_safety` | two operators, two accounts, two allocatable addresses, three faults, two zone edits: is data kept, removal complete, every resource recorded, a destroyed target gone, the account the same? | holds, 1,261,012 states |
| `repetition` | one process, two faults, one zone edit: does repeating apply or purge, or a claim that was cut short, complete it? | holds outside the states of the next run, 38,032 states |
| `ec2_crash_safe` | a command that is repeated after a fault is never stuck | violated |
| `store_safety` | two processes, three operations, two targets, one connector: what succession and sharing may and may not do | holds |
| `connector_single` | one run of apply at a time, two operations, kills, late requests, expiry, one bundled plan: does the record follow the Host, and does repeating apply decide an operation? | holds outside the two states of `connector_resume`, 133,144 states |
| `connector_concurrent` | two runs at a time: do the reads before the lease do harm, do claims move on evidence, and is it still the abstract bootstrap? | holds, 683,835 states |
| `connector_resume` | every operation that was begun is decided | violated |
| `connector_stale` | an operation that was superseded moves no record and no claim | violated |
| `update` | one target with the programs on its host, a fault at any point, an operator who moves: do record, host and what runs agree, is SSH neither closed nor opened wide, do repeated updates and rebinds settle? | holds, 73,664 states |
| `update_resumes` | an update that was begun and is repeated always ends | violated |
| `commands` | the six command modules, each by itself | holds, 695,912 states |
| `rotation_proof` | with a replacement key of an IAM user, a cleared reminder is still proof | violated |

Bounds of the lifecycle. Two operators suffice for every race the lock leaves open, as the
holder's work excludes everybody else and only `resume` carries something
(`admitted`) across a release of the lock; two accounts and two addresses let a
second one appear. `repetition` has one operator and two faults, one to leave something
half done and one to disturb its repetition. `MaxFaults = 3` allows one failure in apply, one in destroy
and one in purge of the same history. `MaxZoneEdits = 2` lets a record be
replaced and then removed.

Fairness of the lifecycle (`FairSpec`; the same conditions in `MCRepetition`). The process that holds the lock runs on
(`WF(Step)`: it is an ordinary process, every AWS call has a timeout). The
operator repeats what did not finish: apply under strong fairness, because other
commands may take the lock in between, purge under weak fairness.
The number of faults is bounded, so a property that holds is one that a user
obtains by repeating the command after the last fault.

Bounds of the store. A call holds its locks from its first to its last step, so a
race needs two calls: two processes. Three operations on one target are the
shortest history in which a superseded operation can be replayed after its
successor was superseded too; two targets and one instance are what an id or an
instance could be torn between. There is no bound on crashes, failures, resumes
or replays. `repetition` needs two operations of one target, as a claim that was cut short
may be of a successor. `SYMMETRY` is used in
`store_safety` and `connector_concurrent`, which check no liveness.

Fairness of the store. A process that is not killed goes on (weak fairness of the
second steps). An operator repeats an interrupted claim until it succeeds, and
not every repetition is killed: strong fairness of the repetition and of its
steps. The run has one process, because the locks are only tried: with several
operators who contend for ever the code guarantees nothing, any of them may find
the lock taken each time.

Bounds of the connector. Two operations of one instance are a predecessor and its
successor in either order. Two Host operation ids per operation let a second one be
drawn (`connector_single`). In `connector_concurrent` no plan expires and one id
suffices, because a second process is what is new there; expiry is in the other
runs. `Bundled` holds one operation in `connector_single`: such an operation stops
at Running, as the code does not support its last gate. There is no bound on runs,
kills or late requests.

Fairness of the connector (`FairSpec`). An ordinary process goes on, and one that
cannot go on ends with an error (weak fairness of `Step` and of `Stop` when
stuck). The operator repeats apply (strong fairness of `Begin`). After some time
runs are no longer killed: the formula with `<>[]`; before, they may be killed any
number of times. The Host starts what it was told to start.

Bounds of the update. The contract admits one update, from 0.1.1 to 0.1.4, hence
one candidate; a helper of each kind (of apply, of the update, of the recovery),
because each is staged by the same steps. Two addresses and one move let a rebind
be interrupted and repeated from another place. `MaxFaults = 1`: a fault may leave
a program on the host that runs any time later, and what the deployer then
repeats is without limit, so one fault already meets every later command. What takes
more of them is left to the proofs, whose bound is any number.

Fairness of the update. An ordinary process goes on (`WF(Step)`) and a program on
the host ends (`WF(InstallerWorks)`; its commands have timeouts). The operator
repeats update, recover and rebind, the latter to the address it was begun for and
to the present one (strong fairness: other commands may hold the lock in between,
and an address may be lost and regained). `RebindConverges` and `UpdateSettles` except
a target the operator's address cannot reach.

Bounds of the commands. Four bindings and three faults let one be lost, one expire
and one be reissued; two tickets let an older one meet a newer, with three kills;
three keys are an original, its replacement and one of another account, handled by
two commands; two writers of the Alpha record are what its missing lock is about;
two runs of a release meet in one directory, with two files so that a copy can be
torn between them, and one edit at any point; one change of a repository separates
what was built from what is released.

Fairness of the commands (`MCCommands!Fairness`). The user repeats `client-binding
issue`, and a helper that was started ends. Nothing else has a liveness property.

`CHECK_DEADLOCK FALSE`: the ids of store and connector are finite and a behaviour
ends when all operations are over (or in `RollbackBlocked`); an update that has
been rolled back, with the operator out of reach, admits no command; in the
commands the user may delete every key, and runs of a release end.

What the violated runs show (quoted in `findings`):

* destroy sets the retention tag only where it is absent (`workflow.rs:4879`). A
  destroy that stops after the tag refuses for ever, and `Destroying` cannot be
  resumed;
* destroy persists `Destroying` before it finds that no volume is recorded
  (`workflow.rs:4878`), so a deployment interrupted early can be neither resumed nor
  destroyed;
* half a key pair (`workflow.rs:444`), an installer input whose first copy was cut off
  (`1635-1641`; without a receipt it is not cleared, `2890-2895`), or a provision request
  that was uploaded but not yet chowned and chmodded (`2821-2830`), is refused by every
  later apply;
* a Connector operation that was killed between the release of its claim and its
  completion can never be completed, because catching up begins with
  `observe_connector_handoff`, which refuses a released claim;
* a Connector that the Host prepared, but whose reply was lost, can be neither
  resumed nor expired once its plan has expired;
* a run of an expired operation may begin to project its record while another run of
  it finishes; if the successor has claimed target and connector by the time it calls
  `expire_unclaimed_connector_claim` (`deployment.rs:1820`), which names the instance and
  not the operation, it expires the successor's claim;
* a candidate that the host rolled back by itself leaves a receipt that
  `classify_existing_install_receipt` (`workflow.rs:3051`) does not know, and every
  later update, rollback, verify and resume refuses;
* an update repeated in `UpdateVerifying` announces `UpdateInstalling` while the
  candidate is already current (`workflow.rs:3802`); a fault before the next persist
  makes every later update take the candidate for the prior release;
* `verify-rotation` lists the keys of whoever signs (`user_deployment.rs:290`): a
  replacement key of an IAM user never shows the root user's key, and the reminder
  goes while that key is active.

`connector_resume` reports the second of the two stuck Connector operations, which
is the shorter one; with `ShortLived = {}` it reports the first. `ec2_crash_safe`
and `update_resumes` likewise report the shortest of the ways they stand for.
`RepeatedApplyConverges`, `ApplyFinishes` and `UpdateSettles` say what holds besides: the
states they name as exceptions are the only ones in which a repetition sticks.

## 4. Proofs

`Ec2LifecycleProofs` proves, for every set of operators, accounts and addresses
and for every bound on faults and edits:

| Theorem | Property |
|---|---|
| `TypeCorrect` | `TypeOK` |
| `VolumeSafety` | `VolumeIsKept` |
| `RecordSafety` | `NamedResourcesAreRecorded` |
| `AddressSafety` | `OneAddress` |
| `DestroyIsFinal` | `NoResurrection` |
| `AccountIsPinned` | `AccountPinned` |
| `RemovalSafety` | `RemovalIsComplete` |
| `VerifiedIsLive` | `VerifiedMeansLive` |

The assumptions are the two of `ConstantsAssumption`: `None` is not a member of
the other sets, and the bounds are natural numbers.

The argument. None of the properties is inductive: that the volume is not deleted
by destroy depends on which effect is in progress, which depends on the point at
which the operation continues, which depends on the phase in the state file. The
invariant `SafetyInv` (theorem `Safety`) ties these together: which effect may be
in progress at which point, which phases the state file may have while an
operation is at a point of apply, destroy or purge, what AWS must hold there, and
that no lock holder means no effect. Its preservation is proved action by action;
the lemmas group the actions by what they can disturb (persists, starts of
effects, returns, effects of AWS, effects on the host, faults). `DestroyIsFinal`
and `AccountIsPinned` are action properties that follow from the same invariant.

`RemovalSafety` and `VerifiedIsLive` need a second invariant on top of it, `WholeInv`
(theorem `WholeSafety`): neither what a finished removal left nor what a verified target
has is decided at the step that records it. `BuiltInv` says that a recorded volume means
a whole target, its key, open group, running instance and live volume; `ReachedInv`, what
each point of apply has behind it, including the points right after an effect, where it
holds or is still to take place (`Awaits`); `LeftInv`, what each point of destroy has
left gone. The three need each other: destroy refuses to go on without a recorded
volume, so a removal that finishes started from a target that was whole, and what it
has to remove is what the state file names.

`Ec2UpdateProofs` proves, for every set of candidates, helpers and addresses, every
sequence of helpers that an operation stages and every bound on faults and moves:

| Theorem | Property |
|---|---|
| `TypeCorrect` | `TypeOK` |
| `HelpersAreWhole` | `InstalledHelpersWhole` |
| `RecordIsTrue` | `RecordFollowsHost` |
| `IngressBounded` | `IngressIsBounded` |
| `OnlyRecordedReleasesRun` | `RunsWhatIsRecorded` |
| `AttestationsAreTrue` | `AcceptedProofIsTrue` |
| `ChainIsKept` | `ChainSpec`, the refinement of `ReleaseChain` |

The assumptions are those of the three layers. `InstallerAssumption`: release 0.1.1 is
not a candidate, and the marks for nothing, for no runtime and for a mixed one are no
releases. `StagingAssumption` and `UpdateAssumption`: the bounds are natural numbers,
what is staged are sequences of helpers, and `None` is no helper, job or operation.

The argument. With any number of faults, any number of programs may wait on the host
and run whenever they get its lock, with uploads that were meant for another. What
makes that harmless is that a receipt can only have come about in few ways. The
invariant `IInv` (theorem `Safety`) begins with what the state file can say
(`RecInv`: one of five stages of a target's history) and ties the rest to it: the receipts the host
may have now and in its history (`HostInv`); the requests that may be in its uploads, be they of
this or of an earlier attempt (`InputInv`, with `Sent`); what a program that has
begun can still publish (`WorkInv`); that recovery and attestation are left
behind on an updated target only (`OrphansInv`); that the exit the deployer sees is its
own program's (`WatchInv`); which job belongs to which point of which operation and
what its end means (`JobInv`, `OpInv`); the rules of the security group at each point
of a rebind (`IngressInv`); and that an attestation which is about to be read is true and stays so
(`ProofInv`). The lemma `Advance` says how the host's receipt moves, and which parts that disturbs;
every action then has one lemma that it preserves `IInv` and is allowed by
`RunsWhatIsRecorded` and `ChainSpec` (`Owed`). TLC checked `IInv` beforehand, also with
two faults and a move, and with four faults and none.

`DeploymentStoreProofs` proves, for every set of processes, ids, targets and
connector instances:

| Theorem | Property |
|---|---|
| `TypeCorrect` | `TypeOK` |
| `OneTarget` | `OneTargetPerOperation` |
| `SupersededIsFrozen` | `SupersededNeverChanges` |
| `Fencing` | `SuccessionIsFenced` |
| `HandoffIsExclusive` | `ExclusiveHandoff` |
| `ClaimsMoveForward` | `ClaimsNeverRegress` |
| `EndAgrees` | `EndAgreesWithClaims` |
| `RecordsReadBack` | `RecordsStayValid` |

The assumption is `StoreAssumption`: `None` is not an id, a process, a target, an
instance, a claim phase, an identity or a record.

The argument. The transition check reads the owner file and the record of the
current owner, nothing else, so that a superseded operation does not come back
by replay has to follow from what the store contains. The invariant `Inv`
(theorem `Safety`) says: calls in progress exclude each other and what they
checked still holds (`LocksExclude`, `CallsAgree`); files agree with their names
and with one another (`FilesKeyed`, `OwnersAgree`); and `Succession`: an
operation that does not own its target is either untouched (still `Planned`, its
claim was cut short) or retired (over, and superseded), and the predecessor of a
retired operation or of an owner is itself retired. If a retired operation could
pass the check, the owner it names as predecessor would be retired, and a retired
operation is no owner. That is lemma `FreshOwner`; `Fencing` is its consequence.
`EndAgrees` rests on `ClaimsStep`: a claim that is released or expired never
moves again, so it is enough that it was so when the operation ended.

One observation: `claim_connector` checks that the prior claim of an instance is
over. On one target this is a second line of defence, as the target itself
changes hands only when its operation is over; it is what keeps an instance from
serving two targets (`ExclusiveHandoff`).

`ConnectorApplyProofs` proves, for every set of processes, operations, instances and
Host operation ids, and for any plans that expire or are bundled:

| Theorem | Property |
|---|---|
| `HostIsFollowed` | `RecordFollowsHost` |
| `OperationIsBacked` | `OperationFollowsRecord` |
| `BootstrapIsImplemented` | `ImplementsBootstrap` |
| `ClaimsAreBacked` | `ClaimsMoveOnEvidence` |

The assumption is `ConnectorAssumption`: `None` is not an id, an instance, a phase,
an execution record, an operation record or a phase of a claim.

The argument. `RecordFollowsHost` and `OperationFollowsRecord` are not inductive,
because a run reads the record, exchanges with the Host and calls the store in
separate steps. The invariant `Inv` (theorem `Safety`) adds: one run at a time
holds the lease of an operation (`OneLease`); what such a run relies on still
holds, that is, every call it has left is backed by the record and the answer it is
about to write lies between the record and the Host (`Knows`); requests on their
way name the key of the record (`Addressed`); and the instance of a record stays its
operation's until that operation is over (`Succession`). Nothing is said of what a
run read before the lease, which is the point: no safety rests on it. Every step is
at most one of three changes, `StoreStep`, `HostStep` or `RecordStep`, and the
invariant is preserved by each. The refinement follows the same lines: a record that
is drawn is `Begin`, an effect of the Host is `Effect`, the end of an operation is
`Decide`, everything else stutters.

`ClaimsAreBacked` holds for runs that overlap. The lease is one of an operation, while
the calls on a claim name the instance: a run that has decided its operation and goes on,
or repeats it, may see its instance pass to the successor and then move the successor's
claim. `connector_stale` shows that it does; this theorem says how far it can go: a claim
leaves `Prepared` only on an execution record of the same connector that says so, of the
claim's own operation or of one that is decided. The argument: a run under the lease
works for the connector its record names (`RunsForRecord`), what it has still to call is
backed by that record (`Knows`), and by `Succession` the instance it finds is its own
operation's unless that operation is over. Records only go forward and verdicts stay
(`BackingStays`), so what justified a claim once justifies it for ever.

The safety properties of the command modules are theorems too:

| Module | Theorem | Property | Assumption |
|---|---|---|---|
| `ClientBindingProofs` | `BindingSafety` | `BindingIsDelivered` | none |
| `CommandProofs` | `TicketSafety` | `TicketIsHonest` | `Numbered`: the marks for no ticket and a zeroed file are no tickets |
| `CommandProofs` | `RecordSafety` | `RecordIsEarned` | the mark for nobody is no writer |
| `ReleaseStageProofs` | `ReleaseSafety` | `ReleaseIsTrue` | `RunNumbers`: the marks for nothing, a foreign directory and the output's name are no runs |
| `ReleaseStageProofs` | `RefusalSafety` | `RefusalLeavesNothing` | `RunNumbers` |
| `ReleasePublicationProofs` | `PublicationSafety` | `PublishedIsBuilt` | none |

`BindingSafety` is about helpers that go on after the call that started them is gone. Its
invariant (theorem `BindingInvariant`) says that such a helper can still export a
binding only before anything is recorded (`LateIsEarly`), that no call gets past it, and
that nothing is left of the export once the record is final (`NoneLeft`); what a call
relies on at each of its points (`Relies`) is weakened where the user may edit the output
meanwhile.

`ReleaseSafety` and `RefusalSafety` have one invariant (theorem `StageInvariant`), in two
parts. The first says what a name can refer to: a run's stage name to its stage, to
somebody else's directory or to nothing, and to its stage only while the run works at it
or was killed there (`StageIs`); the output to a run's directory only after that run's
rename (`OutputIs`). The second says what is read is worth: after the comparison the
attested files are what was copied and the evidence says so, as long as the count of
edits stands where it stood when the evidence was written (`ComparedIs`); compose's
inventory is whole, and assemble's has its own checksums and, where `gap` is 0, that
evidence and those files (`InventoryIs`); verify scans again only what agreed with itself
(`VerifiedIs`). Of the content at a later time nothing is said, as anybody may edit a
file; that is what the comparisons at `Confirm` and `Rescan` are for. That no two runs work at
stages of one parent is the lock (`LockIs`).

`TicketSafety` rests on the server's order of states: an answer that
is written later is still of the ticket's past. `RecordSafety` has one invariant for
all interleavings (whatever is in a file or about to be written is earned) and one
for commands that do not overlap (what the only command under way knows of the two
files). `PublicationSafety` follows what each point of a command knows: of the
binaries while the receipt is checked, of archive and package while the manifest is
absent, of the manifest while it is sent.

With these every invariant and every action property that a passing run checks is also a
theorem. Only model-checked are the liveness properties (`RepeatedApplyConverges`,
`PurgeCompletes`, `InterruptedClaimsComplete`, `ApplyFinishes`, `UpdateSettles`,
`RebindConverges`, `BindingSettles`), since fairness and ENABLED are outside what the
prover handles. `CredentialRotation` has no theorem: its one property is the claim that
`rotation_proof` refutes, and under the assumption that would save it (all keys of an account
belong to one principal, which nothing enforces) it says no more than the check it is
about; in `commands` its actions run along without a property. The types of
`ConnectorApply` and of the command modules are no property of a run; they are part of
the proved invariants (`Typed`, `TicketTyped`, `Shared`, `Call`).

## 5. What is left

Not modelled:

* the documents of bundles and provision requests (`aws_ec2/bundle.rs`,
  `aws_ec2/provision.rs`, `agent_bundle.rs`), manifests, digests, archives and strict
  JSON: pure functions; an input that fails them is an error everywhere, and the
  places where they are called are guards of the models;
* the AWS SDK adapter, the command line and the error type: pure I/O; what the
  commands do is modelled, as external, where the workflow runs them;
* the maintenance of the host's storage (`maintain_host_storage`): what it protects is a
  computation on digests; when it lacks space the program fails, as
  any program may in the model;
* the installer of release 0.1.1, which is not in the repository;
* the local variant of client bindings, which no production build can run;
* signatures and digests of the plans and observations of an Alpha
  (`alpha_deployment.rs`), the fields of release evidence (`release_evidence.rs`) and the
  parsing of a root key file (`rootkey.rs`): taken to be checked;
* operations that bind two Connectors (`connector_apply.rs:1508`): the one execution
  record names one of them, so apply for the other is refused; the runs have one
  connector instance.

A possible next step: operations with two Connectors.
