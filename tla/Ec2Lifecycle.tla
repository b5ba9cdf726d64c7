---------------------------- MODULE Ec2Lifecycle ----------------------------
(***************************************************************************)
(* The EC2 deployment lifecycle of one target: apply/resume, verify,       *)
(* destroy and the separately fenced volume purge (aws_ec2/workflow.rs).   *)
(*                                                                         *)
(* Every operation runs under the target's exclusive file lock, works on   *)
(* the sealed Ec2State file and brackets each external effect by           *)
(* before_effect (pending marker persisted) and after_effect (marker       *)
(* cleared).  A crash, a kill, a timeout and an error return all leave the *)
(* same durable trace, whatever was persisted last, so one action, Abort,  *)
(* stands for all of them.  It may fall between any two steps, also        *)
(* between an effect and the persist that follows it: a lost response.     *)
(*                                                                         *)
(* The manifest is the same for all invocations (another one is refused by *)
(* ensure_apply_identity / load_state before any step).                    *)
(***************************************************************************)
EXTENDS Naturals, FiniteSets

CONSTANTS
    Procs,         \* deployer processes started by operators
    Accounts,      \* AWS accounts whose credentials an operator may hold
    EipIds,        \* allocation ids AWS may hand out
    None,          \* an absent optional field
    MaxFaults,     \* bound on Abort
    MaxZoneEdits   \* bound on edits of the DNS zone by third parties

VARIABLES
    disk,      \* the Ec2State file; phase "Absent" when there is none
    files,     \* which files of the local ed25519 key pair exist
    cloud,     \* the target's resources in AWS
    host,      \* the instance's file system
    holder,    \* the process holding the target's lock
    at,        \* where the holder's operation continues
    effect,    \* the external effect in progress, or None
    ran,       \* has that effect taken place?
    admitted,  \* processes that passed resume's check and dropped the lock
    faults, edits

vars == <<disk, files, cloud, host, holder, at, effect, ran, admitted,
          faults, edits>>

-----------------------------------------------------------------------------
(* LifecyclePhase, without the phases of update and rollback.              *)

ResumablePhases ==
    {"Planned", "AccountBound", "AmiResolved", "KeyReady",
     "SecurityGroupReady", "InstanceReady", "EipReady", "DnsReady",
     "HostKeyPinned", "ProvisionPending", "Provisioning", "HostReady",
     "Installed", "Verified"}

RemovedPhases == {"InfrastructureRemovedVolumeRetained", "VolumePurged"}

DestroyPhases == {"Destroying"} \cup RemovedPhases

Phases == {"Absent"} \cup ResumablePhases \cup DestroyPhases

(* The command ids that run_effect writes into pending_effect.             *)

LocalEffects == {"generate-local-ed25519-key"}

Waits ==
    {"wait-instance-running", "wait-instance-status-ok",
     "wait-owned-dns-change", "wait-exact-dns-delete",
     "wait-exact-instance-terminated"}

CreateEffects ==
    {"import-owned-key-pair", "create-owned-security-group",
     "authorize-minimal-ingress", "run-owned-instance",
     "allocate-owned-eip", "associate-owned-eip",
     "create-owned-dns-record"}

DestroyEffects ==
    {"delete-exact-owned-dns-record", "disassociate-exact-owned-eip",
     "tag-explicit-retained-volume", "terminate-exact-owned-instance",
     "release-exact-owned-eip", "delete-exact-owned-security-group",
     "delete-exact-owned-cloud-key"}

PurgeEffect == "purge-explicit-retained-volume"

CloudEffects == CreateEffects \cup DestroyEffects \cup {PurgeEffect}

HostEffects ==
    {"install-host-helpers", "stage-exact-install-inputs",
     "run-fixed-stack-installer",
     "stage-exact-provision-request", "own-fixed-provision-request",
     "mode-fixed-provision-request", "run-fixed-host-provisioner"}

Effects == LocalEffects \cup Waits \cup CloudEffects \cup HostEffects

ASSUME ConstantsAssumption ==
    /\ None \notin Procs \cup Accounts \cup EipIds \cup Effects
    /\ MaxFaults \in Nat
    /\ MaxZoneEdits \in Nat

(* Program points: the function (or the part of it) that runs next.        *)

ApplyPoints ==
    {"bind_account", "resolve_ami", "ensure_key", "record_key",
     "import_key", "key_ready", "ensure_security_group",
     "record_security_group", "ensure_ingress", "security_group_ready",
     "ensure_instance", "record_instance", "wait_running",
     "wait_status_ok", "instance_ready", "ensure_eip", "check_eip",
     "record_eip", "ensure_dns", "create_dns", "record_change",
     "wait_dns", "dns_ready", "ensure_host_key", "ensure_host_helpers",
     "install_initial", "run_installer", "record_install",
     "provision_initial", "inspect_request", "own_request", "mode_request",
     "run_provisioner", "host_ready", "installed", "verify_live"}

DestroyPoints ==
    {"destroy_dns", "wait_dns_delete", "clear_dns",
     "destroy_eip_association", "retain_volume", "terminate_instance",
     "wait_terminated", "record_terminated", "destroy_eip", "clear_eip",
     "destroy_security_group", "clear_security_group",
     "destroy_cloud_key", "clear_key", "remove_private", "remove_public",
     "finish_destroy"}

Points ==
    ApplyPoints \cup DestroyPoints
        \cup {"idle", "verify_command", "purge_volume", "record_purge"}

-----------------------------------------------------------------------------
(* Ec2State: the fields that steer the control flow.  Of ami, vpc_id and    *)
(* the other optional fields, and of the flag retained_volume, it matters   *)
(* whether they are set: has is the set of those that are.                  *)

Fields == {"ami", "sg", "inst", "vol", "hostKey", "current", "ready",
           "retained"}

Ec2State ==
    [phase   : Phases,
     pending : Effects \cup {None},
     account : Accounts \cup {None},
     key     : {"none", "local", "imported"},
     eip     : EipIds \cup {None},
     dns     : {"none", "create-pending", "changed", "reconciled"},
     has     : SUBSET Fields]

\* new_state, with the phase as a parameter: "Absent" when there is no file.
NewState(phase) ==
    [phase |-> phase, pending |-> None, account |-> None, key |-> "none",
     eip |-> None, dns |-> "none", has |-> {}]

(* External: what AWS holds for this target.  "foreign" is a key pair or a *)
(* record of the same name that another party made.                        *)
Cloud ==
    [key   : {"none", "owned", "foreign"},
     sg    : {"none", "closed", "open"},
     inst  : {"none", "running", "terminated"},
     vol   : {"none", "live", "retained", "deleted"},
     eips  : SUBSET EipIds,
     assoc : EipIds \cup {None},
     dns   : {"none", "owned", "foreign"}]

(* External: the files the deployer keeps on the instance.  The installer  *)
(* has two inputs, bundle and request: "torn" when the copy of either was  *)
(* cut off, "staged" when both are whole, else "absent".                   *)
Host ==
    [done    : SUBSET {"helpers", "installed", "provisioned"},
     inputs  : {"absent", "torn", "staged"},
     request : {"absent", "ubuntu", "root", "root400"}]

TypeOK ==
    /\ disk \in Ec2State
    /\ files \in {"none", "private", "both", "public"}
    /\ cloud \in Cloud
    /\ host \in Host
    /\ holder \in Procs \cup {None}
    /\ at \in Points
    /\ effect \in Effects \cup {None}
    /\ ran \in BOOLEAN
    /\ admitted \in SUBSET Procs
    /\ faults \in 0..MaxFaults
    /\ edits \in 0..MaxZoneEdits

Init ==
    /\ disk = NewState("Absent")
    /\ files = "none"
    /\ cloud \in [key : {"none", "foreign"}, sg : {"none"}, inst : {"none"},
                  vol : {"none"}, eips : {{}}, assoc : {None},
                  dns : {"none", "foreign"}]
    /\ host = [done |-> {}, inputs |-> "absent", request |-> "absent"]
    /\ holder = None
    /\ at = "idle"
    /\ effect = None
    /\ ran = FALSE
    /\ admitted = {}
    /\ faults = 0
    /\ edits = 0

-----------------------------------------------------------------------------
(* Store::lock, persist, run_effect.                                       *)

world == <<files, cloud, host>>
environment == <<admitted, faults, edits>>

At(point) == at = point /\ effect = None

\* persist: the sealed state is written to a temporary file, synced and
\* renamed over the old one; the operation continues at point.
Persist(state, point) ==
    /\ disk' = state
    /\ at' = point
    /\ UNCHANGED <<world, holder, effect, ran, environment>>

Goto(point) == Persist(disk, point)

\* before_effect: the marker is durable before the effect is attempted.
BeforeEffect(state, e, point) ==
    /\ disk' = [state EXCEPT !.pending = e]
    /\ at' = point
    /\ effect' = e
    /\ UNCHANGED <<world, holder, ran, environment>>

\* The operation returns, after a last persist, and drops the lock.
Return(state) ==
    /\ disk' = state
    /\ at' = "idle"
    /\ holder' = None
    /\ UNCHANGED <<world, effect, ran, environment>>

\* An early return with an error: nothing is persisted.
Refuse == Return(disk)

\* Store::lock succeeds (try_lock: nobody waits) and an operation starts.
Start(p, state, point) ==
    /\ holder = None
    /\ holder' = p
    /\ disk' = state
    /\ at' = point
    /\ admitted' = admitted \ {p}
    /\ UNCHANGED <<world, effect, ran, faults, edits>>

\* after_effect: the marker is cleared, durably.
AfterEffect ==
    /\ effect # None /\ ran
    /\ effect # PurgeEffect
    /\ disk' = [disk EXCEPT !.pending = None]
    /\ effect' = None
    /\ ran' = FALSE
    /\ UNCHANGED <<world, holder, at, environment>>

-----------------------------------------------------------------------------
(* External: what each command does.  A command that cannot succeed in the *)
(* present state returns an error, which Fails turns into an early return. *)

AwsCreates ==
    \/ /\ effect = "import-owned-key-pair"
       /\ cloud.key = "none"
       /\ cloud' = [cloud EXCEPT !.key = "owned"]
    \/ /\ effect = "create-owned-security-group"
       /\ cloud.sg = "none"
       /\ cloud' = [cloud EXCEPT !.sg = "closed"]
    \/ /\ effect = "authorize-minimal-ingress"
       /\ cloud.sg = "closed"
       /\ cloud' = [cloud EXCEPT !.sg = "open"]
    \/ /\ effect = "run-owned-instance"   \* at most once per client token
       /\ cloud.inst = "none"
       /\ cloud' = [cloud EXCEPT !.inst = "running", !.vol = "live"]
    \/ /\ effect = "allocate-owned-eip"
       /\ \E id \in EipIds \ cloud.eips :
              cloud' = [cloud EXCEPT !.eips = @ \cup {id}]
    \/ /\ effect = "associate-owned-eip"
       /\ cloud.assoc = None
       /\ \E id \in cloud.eips : cloud' = [cloud EXCEPT !.assoc = id]
    \/ /\ effect = "create-owned-dns-record"   \* CREATE: the name is free
       /\ cloud.dns = "none"
       /\ cloud' = [cloud EXCEPT !.dns = "owned"]

AwsDestroys ==
    \/ /\ effect = "delete-exact-owned-dns-record"  \* DELETE: same value
       /\ cloud.dns = "owned"
       /\ cloud' = [cloud EXCEPT !.dns = "none"]
    \/ /\ effect = "disassociate-exact-owned-eip"
       /\ cloud' = [cloud EXCEPT !.assoc = None]
    \/ /\ effect = "tag-explicit-retained-volume"
       /\ cloud' = [cloud EXCEPT !.vol = "retained"]
    \/ /\ effect = "terminate-exact-owned-instance"
       /\ cloud' = [cloud EXCEPT !.inst = "terminated", !.assoc = None]
    \/ /\ effect = "release-exact-owned-eip"
       /\ cloud.assoc # disk.eip
       /\ cloud' = [cloud EXCEPT !.eips = @ \ {disk.eip}]
    \/ /\ effect = "delete-exact-owned-security-group"
       /\ cloud.inst # "running"
       /\ cloud' = [cloud EXCEPT !.sg = "none"]
    \/ /\ effect = "delete-exact-owned-cloud-key"
       /\ cloud' = [cloud EXCEPT !.key = "none"]
    \/ /\ effect = PurgeEffect
       /\ cloud' = [cloud EXCEPT !.vol = "deleted"]

HostRuns ==
    \/ /\ effect = "install-host-helpers"
       /\ host' = [host EXCEPT !.done = @ \cup {"helpers"}]
    \/ /\ effect = "run-fixed-stack-installer"
       /\ host' = [host EXCEPT !.done = @ \cup {"installed"},
                               !.inputs = "absent"]
    \/ /\ effect = "stage-exact-provision-request"
       /\ host' = [host EXCEPT !.request = "ubuntu"]
    \/ /\ effect = "own-fixed-provision-request"
       /\ host' = [host EXCEPT !.request = "root"]
    \/ /\ effect = "mode-fixed-provision-request"
       /\ host' = [host EXCEPT !.request = "root400"]
    \/ /\ effect = "run-fixed-host-provisioner"
       /\ host' = [host EXCEPT !.done = @ \cup {"provisioned"}]

\* executor.run in run_effect: the command succeeds.
RunEffect ==
    /\ ~ran
    /\ \/ /\ AwsCreates \/ AwsDestroys
          /\ UNCHANGED host
       \/ /\ HostRuns
          /\ UNCHANGED cloud
       \/ /\ effect \in Waits
          /\ UNCHANGED <<cloud, host>>
    /\ ran' = TRUE
    /\ UNCHANGED <<disk, files, holder, at, effect, environment>>

\* ssh-keygen writes the private key file, then the public one.
RunKeygen ==
    /\ effect = "generate-local-ed25519-key"
    /\ ~ran
    /\ \/ /\ files # "private"
          /\ files' = "private"
          /\ ran' = FALSE
       \/ /\ files = "private"
          /\ files' = "both"
          /\ ran' = TRUE
    /\ UNCHANGED <<disk, cloud, host, holder, at, effect, environment>>

\* reconcile_install_input for both inputs: a copy under way has another size.
StageInputs ==
    /\ effect = "stage-exact-install-inputs"
    /\ ~ran
    /\ \/ /\ host.inputs = "absent"
          /\ host' = [host EXCEPT !.inputs = "torn"]
          /\ ran' = FALSE
       \/ /\ host.inputs = "torn"
          /\ host' = [host EXCEPT !.inputs = "staged"]
          /\ ran' = TRUE
    /\ UNCHANGED <<disk, files, cloud, holder, at, effect, environment>>

\* The process dies, or the operation returns an error: the lock is gone
\* and what was persisted last is all that is left of it.
Stop ==
    /\ holder' = None
    /\ at' = "idle"
    /\ effect' = None
    /\ ran' = FALSE
    /\ UNCHANGED <<disk, world, admitted, edits>>

Abort ==
    /\ holder # None
    /\ faults < MaxFaults
    /\ faults' = faults + 1
    /\ Stop

\* AWS rejects the command.
Fails ==
    /\ ~ran
    /\ \/ effect = "create-owned-dns-record" /\ cloud.dns # "none"
       \/ effect = "delete-exact-owned-dns-record" /\ cloud.dns # "owned"
    /\ UNCHANGED faults
    /\ Stop

\* Another party edits the record of the target's name in the DNS zone.
ZoneEdit ==
    /\ edits < MaxZoneEdits
    /\ edits' = edits + 1
    /\ \E d \in {"none", "foreign"} \ {cloud.dns} :
           cloud' = [cloud EXCEPT !.dns = d]
    /\ UNCHANGED <<disk, files, host, holder, at, effect, ran, admitted,
                   faults>>

-----------------------------------------------------------------------------
(* apply and resume.                                                       *)

\* resume: the phase is checked under the lock, which is then dropped; the
\* call of apply takes it again.
Resume(p) ==
    /\ holder = None
    /\ disk.phase \in ResumablePhases
    /\ admitted' = admitted \cup {p}
    /\ UNCHANGED <<disk, world, holder, at, effect, ran, faults, edits>>

\* Mutant: apply trusts the check resume made before it dropped the lock.
ApplyTrustsResume(p) ==
    \/ /\ disk.phase = "Absent"
       /\ Start(p, NewState("Planned"), "bind_account")
    \/ /\ disk.phase \in ResumablePhases \/ p \in admitted
       /\ Start(p, disk, "bind_account")

\* apply re-reads the state and checks the phase again, also after resume.
Apply(p) ==
    \/ /\ disk.phase = "Absent"
       /\ Start(p, NewState("Planned"), "bind_account")
    \/ /\ disk.phase \in ResumablePhases
       /\ Start(p, disk, "bind_account")

\* Mutant: the account of whoever calls is recorded.
BindAnyAccount(caller) ==
    /\ At("bind_account")
    /\ Persist([disk EXCEPT !.account = caller,
                            !.phase = "AccountBound"], "resolve_ami")

BindAccount(caller) ==
    /\ At("bind_account")
    /\ \/ /\ disk.account \in {None, caller}
          /\ Persist([disk EXCEPT !.account = caller,
                                  !.phase = "AccountBound"], "resolve_ami")
       \/ /\ disk.account \notin {None, caller}
          /\ Refuse

ResolveAmi ==
    /\ At("resolve_ami")
    /\ \/ "ami" \in disk.has /\ Goto("ensure_key")
       \/ /\ "ami" \notin disk.has
          /\ Persist([disk EXCEPT !.has = @ \cup {"ami"},
                                  !.phase = "AmiResolved"],
                     "ensure_key")

EnsureKey ==
    /\ At("ensure_key")
    /\ \/ disk.key # "none" /\ Goto("import_key")
       \/ /\ disk.key = "none"
          /\ \/ /\ files = "none"
                /\ BeforeEffect(disk, "generate-local-ed25519-key",
                                "record_key")
             \/ files = "both" /\ Goto("record_key")
             \/ files \in {"private", "public"} /\ Refuse

RecordKey ==
    /\ At("record_key")
    /\ Persist([disk EXCEPT !.key = "local"], "import_key")

ImportKey ==
    /\ At("import_key")
    /\ \/ /\ cloud.key = "none"
          /\ BeforeEffect(disk, "import-owned-key-pair", "key_ready")
       \/ cloud.key = "owned" /\ Goto("key_ready")
       \/ cloud.key = "foreign" /\ Refuse

KeyReady ==
    /\ At("key_ready")
    /\ Persist([disk EXCEPT !.key = "imported", !.phase = "KeyReady"],
               "ensure_security_group")

EnsureSecurityGroup ==
    /\ At("ensure_security_group")
    /\ \/ /\ cloud.sg = "none"
          /\ BeforeEffect(disk, "create-owned-security-group",
                          "record_security_group")
       \/ cloud.sg # "none" /\ Goto("ensure_ingress")

RecordSecurityGroup ==
    /\ At("record_security_group")
    /\ Persist([disk EXCEPT !.has = @ \cup {"sg"}], "ensure_ingress")

EnsureIngress ==
    /\ At("ensure_ingress")
    /\ \/ /\ cloud.sg = "closed"
          /\ BeforeEffect([disk EXCEPT !.has = @ \cup {"sg"}],
                          "authorize-minimal-ingress", "security_group_ready")
       \/ cloud.sg = "open" /\ Goto("security_group_ready")

SecurityGroupReady ==
    /\ At("security_group_ready")
    /\ Persist([disk EXCEPT !.has = @ \cup {"sg"},
                            !.phase = "SecurityGroupReady"],
               "ensure_instance")

EnsureInstance ==
    /\ At("ensure_instance")
    /\ \/ /\ cloud.inst # "running"
          /\ BeforeEffect(disk, "run-owned-instance", "record_instance")
       \/ cloud.inst = "running" /\ Goto("record_instance")

RecordInstance ==
    /\ At("record_instance")
    /\ Persist([disk EXCEPT !.has = @ \cup {"inst", "vol"}], "wait_running")

WaitRunning ==
    /\ At("wait_running")
    /\ BeforeEffect(disk, "wait-instance-running", "wait_status_ok")

WaitStatusOk ==
    /\ At("wait_status_ok")
    /\ BeforeEffect(disk, "wait-instance-status-ok", "instance_ready")

InstanceReady ==
    /\ At("instance_ready")
    /\ \/ /\ cloud.vol = "live"
          /\ Persist([disk EXCEPT !.phase = "InstanceReady"], "ensure_eip")
       \/ cloud.vol # "live" /\ Refuse

\* Mutant: an address is allocated whenever none is recorded.
EnsureEipByRecord ==
    /\ At("ensure_eip")
    /\ \/ /\ disk.eip = None
          /\ BeforeEffect(disk, "allocate-owned-eip", "check_eip")
       \/ disk.eip # None /\ Goto("check_eip")

EnsureEip ==
    /\ At("ensure_eip")
    /\ \/ /\ cloud.eips = {}
          /\ BeforeEffect(disk, "allocate-owned-eip", "check_eip")
       \/ cloud.eips # {} /\ Goto("check_eip")

CheckEip ==
    /\ At("check_eip")
    /\ \/ /\ \E id \in EipIds : cloud.eips = {id}
          /\ \/ /\ cloud.assoc = None
                /\ BeforeEffect(disk, "associate-owned-eip", "record_eip")
             \/ cloud.assoc # None /\ Goto("record_eip")
       \/ /\ ~ \E id \in EipIds : cloud.eips = {id}
          /\ Refuse

RecordEip ==
    /\ At("record_eip")
    /\ \E id \in cloud.eips :
           Persist([disk EXCEPT !.eip = id, !.phase = "EipReady"],
                   "ensure_dns")

\* Mutant: the CREATE is attempted before the intent is recorded.
EnsureDnsWithoutIntent ==
    /\ At("ensure_dns")
    /\ \/ /\ cloud.dns = "owned" /\ disk.dns # "none"
          /\ Goto("wait_dns")
       \/ /\ cloud.dns = "foreign" \/ (cloud.dns = "owned" /\ disk.dns = "none")
          /\ Refuse
       \/ cloud.dns = "none" /\ Goto("create_dns")

\* Mutant: an existing record is adopted by the pending marker alone.
EnsureDnsByMarker ==
    /\ At("ensure_dns")
    /\ \/ /\ cloud.dns = "owned" /\ disk.dns = "changed"
          /\ Goto("wait_dns")
       \/ /\ cloud.dns = "owned" /\ disk.dns # "changed"
          /\ disk.pending = "create-owned-dns-record"
          /\ Persist([disk EXCEPT !.dns = "reconciled", !.phase = "DnsReady"],
                     "ensure_host_key")
       \/ /\ cloud.dns # "none"
          /\ \/ cloud.dns = "foreign"
             \/ disk.dns # "changed" /\ disk.pending # "create-owned-dns-record"
          /\ Refuse
       \/ /\ cloud.dns = "none"
          /\ Persist([disk EXCEPT !.dns = "create-pending"], "create_dns")

EnsureDns ==
    /\ At("ensure_dns")
    /\ \/ /\ cloud.dns = "owned"
          /\ disk.dns # "none" \/ disk.pending = "create-owned-dns-record"
          /\ \/ disk.dns = "changed" /\ Goto("wait_dns")
             \/ /\ disk.dns # "changed"   \* the reply of the CREATE was lost
                /\ Persist([disk EXCEPT !.dns = "reconciled",
                                        !.phase = "DnsReady"],
                           "ensure_host_key")
       \/ /\ cloud.dns # "none"
          /\ \/ cloud.dns = "foreign"
             \/ disk.dns = "none" /\ disk.pending # "create-owned-dns-record"
          /\ Refuse
       \/ /\ cloud.dns = "none"
          /\ Persist([disk EXCEPT !.dns = "create-pending"], "create_dns")

CreateDns ==
    /\ At("create_dns")
    /\ BeforeEffect(disk, "create-owned-dns-record", "record_change")

RecordChange ==
    /\ At("record_change")
    /\ Persist([disk EXCEPT !.dns = "changed"], "wait_dns")

WaitDns ==
    /\ At("wait_dns")
    /\ BeforeEffect(disk, "wait-owned-dns-change", "dns_ready")

DnsReady ==
    /\ At("dns_ready")
    /\ Persist([disk EXCEPT !.phase = "DnsReady"], "ensure_host_key")

EnsureHostKey ==
    /\ At("ensure_host_key")
    /\ \/ "hostKey" \in disk.has /\ Goto("ensure_host_helpers")
       \/ /\ "hostKey" \notin disk.has
          /\ Persist([disk EXCEPT !.has = @ \cup {"hostKey"},
                                  !.phase = "HostKeyPinned"],
                     "ensure_host_helpers")

EnsureHostHelpers ==
    /\ At("ensure_host_helpers")
    /\ \/ "helpers" \in host.done /\ Goto("install_initial")
       \/ /\ "helpers" \notin host.done
          /\ BeforeEffect(disk, "install-host-helpers", "install_initial")

\* Without a receipt on the host the inputs found there are not cleared:
\* whole ones are used as they are, one of another size is a conflict.
InstallInitial ==
    /\ At("install_initial")
    /\ \/ "current" \in disk.has /\ Goto("provision_initial")
       \/ /\ "current" \notin disk.has
          /\ \/ "installed" \in host.done /\ Goto("record_install")
             \/ /\ "installed" \notin host.done
                /\ \/ /\ host.inputs = "absent"
                      /\ BeforeEffect(disk, "stage-exact-install-inputs",
                                      "run_installer")
                   \/ host.inputs = "staged" /\ Goto("run_installer")
                   \/ host.inputs = "torn" /\ Refuse

RunInstaller ==
    /\ At("run_installer")
    /\ BeforeEffect(disk, "run-fixed-stack-installer", "record_install")

RecordInstall ==
    /\ At("record_install")
    /\ Persist([disk EXCEPT !.has = @ \cup {"current"},
                            !.phase = "ProvisionPending"],
               "provision_initial")

ProvisionInitial ==
    /\ At("provision_initial")
    /\ \/ "ready" \in disk.has /\ Goto("verify_live")
       \/ /\ "ready" \notin disk.has
          /\ Persist([disk EXCEPT !.phase = "Provisioning"], "inspect_request")

\* A request file that is not yet root-owned with mode 0400 is a conflict.
InspectRequest ==
    /\ At("inspect_request")
    /\ \/ /\ host.request = "absent"
          /\ BeforeEffect(disk, "stage-exact-provision-request", "own_request")
       \/ host.request = "root400" /\ Goto("run_provisioner")
       \/ host.request \in {"ubuntu", "root"} /\ Refuse

OwnRequest ==
    /\ At("own_request")
    /\ BeforeEffect(disk, "own-fixed-provision-request", "mode_request")

ModeRequest ==
    /\ At("mode_request")
    /\ BeforeEffect(disk, "mode-fixed-provision-request", "run_provisioner")

RunProvisioner ==
    /\ At("run_provisioner")
    /\ BeforeEffect(disk, "run-fixed-host-provisioner", "host_ready")

HostReady ==
    /\ At("host_ready")
    /\ Persist([disk EXCEPT !.has = @ \cup {"ready"}, !.phase = "HostReady"],
               "installed")

Installed ==
    /\ At("installed")
    /\ Persist([disk EXCEPT !.phase = "Installed"], "verify_live")

\* verify_live_locked: account, public DNS answer, HTTPS health, both host
\* receipts.
LiveChecksPass ==
    /\ disk.eip # None
    /\ cloud.dns = "owned"
    /\ cloud.assoc = disk.eip
    /\ "current" \in disk.has /\ "installed" \in host.done
    /\ "ready" \in disk.has /\ "provisioned" \in host.done

VerifyLive ==
    /\ At("verify_live")
    /\ \/ /\ LiveChecksPass
          /\ Return([disk EXCEPT !.phase = "Verified", !.pending = None])
       \/ ~LiveChecksPass /\ Refuse

\* The verify command; a caller of another account is refused.
Verify(p) ==
    /\ disk.phase \in {"Installed", "Verified"}
    /\ disk.account # None
    /\ Start(p, disk, "verify_command")

VerifyCommand ==
    /\ At("verify_command")
    /\ \/ LiveChecksPass /\ Return([disk EXCEPT !.phase = "Verified"])
       \/ ~LiveChecksPass /\ Refuse

-----------------------------------------------------------------------------
(* destroy.                                                                *)

\* Mutant: the phase is not advanced before resources are removed.
DestroyUnannounced(p, caller) ==
    /\ disk.phase \notin RemovedPhases \cup {"Absent"}
    /\ disk.account = caller
    /\ Start(p, disk, "destroy_dns")

\* verify_caller_account precedes the first persist.
Destroy(p, caller) ==
    /\ disk.phase \notin RemovedPhases \cup {"Absent"}
    /\ disk.account = caller
    /\ Start(p, [disk EXCEPT !.phase = "Destroying"], "destroy_dns")

\* Mutant: a record whose CREATE was never confirmed counts as absent.
DestroyConfirmedDns ==
    /\ At("destroy_dns")
    /\ \/ /\ disk.dns \in {"none", "create-pending"}
          /\ Goto("destroy_eip_association")
       \/ /\ disk.dns \in {"changed", "reconciled"}
          /\ \/ /\ cloud.dns = "none"
                /\ Persist([disk EXCEPT !.dns = "none"],
                           "destroy_eip_association")
             \/ /\ cloud.dns = "owned"
                /\ BeforeEffect(disk, "delete-exact-owned-dns-record",
                                "wait_dns_delete")
             \/ cloud.dns = "foreign" /\ Refuse

DestroyDns ==
    /\ At("destroy_dns")
    /\ \/ disk.dns = "none" /\ Goto("destroy_eip_association")
       \/ /\ disk.dns # "none"
          /\ \/ /\ cloud.dns = "none"
                /\ Persist([disk EXCEPT !.dns = "none"],
                           "destroy_eip_association")
             \/ /\ cloud.dns = "owned"
                /\ BeforeEffect(disk, "delete-exact-owned-dns-record",
                                "wait_dns_delete")
             \/ cloud.dns = "foreign" /\ Refuse

WaitDnsDelete ==
    /\ At("wait_dns_delete")
    /\ BeforeEffect(disk, "wait-exact-dns-delete", "clear_dns")

ClearDns ==
    /\ At("clear_dns")
    /\ Persist([disk EXCEPT !.dns = "none"], "destroy_eip_association")

DestroyEipAssociation ==
    /\ At("destroy_eip_association")
    /\ \/ disk.eip = None /\ Goto("retain_volume")
       \/ /\ disk.eip # None
          /\ \/ /\ disk.eip \notin cloud.eips
                /\ Persist([disk EXCEPT !.eip = None], "retain_volume")
             \/ /\ disk.eip \in cloud.eips
                /\ \/ cloud.assoc # disk.eip /\ Goto("retain_volume")
                   \/ /\ cloud.assoc = disk.eip
                      /\ BeforeEffect(disk, "disassociate-exact-owned-eip",
                                      "retain_volume")

\* Mutant: the instance is terminated first.
TerminateBeforeRetain ==
    /\ At("retain_volume")
    /\ BeforeEffect(disk, "terminate-exact-owned-instance", "wait_terminated")

\* First part of retain_and_terminate_instance: the volume must be recorded
\* and must not carry the retention tag yet.
RetainVolume ==
    /\ At("retain_volume")
    /\ \/ /\ "vol" \in disk.has /\ cloud.vol = "live"
          /\ BeforeEffect(disk, "tag-explicit-retained-volume",
                          "terminate_instance")
       \/ ~("vol" \in disk.has /\ cloud.vol = "live") /\ Refuse

TerminateInstance ==
    /\ At("terminate_instance")
    /\ cloud.vol = "retained"
    /\ \/ /\ "inst" \in disk.has /\ cloud.inst = "running"
          /\ BeforeEffect(disk, "terminate-exact-owned-instance",
                          "wait_terminated")
       \/ /\ ~("inst" \in disk.has /\ cloud.inst = "running")
          /\ Goto("record_terminated")

WaitTerminated ==
    /\ At("wait_terminated")
    /\ BeforeEffect(disk, "wait-exact-instance-terminated", "record_terminated")

RecordTerminated ==
    /\ At("record_terminated")
    /\ Persist([disk EXCEPT !.has = (@ \ {"inst"}) \cup {"retained"}],
               "destroy_eip")

DestroyEip ==
    /\ At("destroy_eip")
    /\ \/ disk.eip = None /\ Goto("destroy_security_group")
       \/ /\ disk.eip # None
          /\ \/ /\ disk.eip \notin cloud.eips
                /\ Persist([disk EXCEPT !.eip = None], "destroy_security_group")
             \/ /\ disk.eip \in cloud.eips
                /\ \/ cloud.assoc = disk.eip /\ Refuse
                   \/ /\ cloud.assoc # disk.eip
                      /\ BeforeEffect(disk, "release-exact-owned-eip",
                                      "clear_eip")

ClearEip ==
    /\ At("clear_eip")
    /\ Persist([disk EXCEPT !.eip = None], "destroy_security_group")

DestroySecurityGroup ==
    /\ At("destroy_security_group")
    /\ \/ "sg" \notin disk.has /\ Goto("destroy_cloud_key")
       \/ /\ "sg" \in disk.has
          /\ \/ /\ cloud.sg = "none"
                /\ Persist([disk EXCEPT !.has = @ \ {"sg"}],
                           "destroy_cloud_key")
             \/ /\ cloud.sg # "none"
                /\ BeforeEffect(disk, "delete-exact-owned-security-group",
                                "clear_security_group")

ClearSecurityGroup ==
    /\ At("clear_security_group")
    /\ Persist([disk EXCEPT !.has = @ \ {"sg"}], "destroy_cloud_key")

DestroyCloudKey ==
    /\ At("destroy_cloud_key")
    /\ \/ disk.key = "none" /\ Goto("remove_private")
       \/ /\ disk.key # "none"
          /\ \/ /\ cloud.key = "none"
                /\ Persist([disk EXCEPT !.key = "none"], "remove_private")
             \/ /\ cloud.key = "owned"
                /\ BeforeEffect(disk, "delete-exact-owned-cloud-key",
                                "clear_key")
             \/ cloud.key = "foreign" /\ Refuse

ClearKey ==
    /\ At("clear_key")
    /\ Persist([disk EXCEPT !.key = "none"], "remove_private")

RemovePrivate ==
    /\ At("remove_private")
    /\ files' = IF files = "both" THEN "public"
                ELSE IF files = "private" THEN "none" ELSE files
    /\ at' = "remove_public"
    /\ UNCHANGED <<disk, cloud, host, holder, effect, ran, environment>>

RemovePublic ==
    /\ At("remove_public")
    /\ files' = "none"
    /\ at' = "finish_destroy"
    /\ UNCHANGED <<disk, cloud, host, holder, effect, ran, environment>>

\* With clear_terminal_runtime_evidence.
FinishDestroy ==
    /\ At("finish_destroy")
    /\ Return([disk EXCEPT !.phase = "InfrastructureRemovedVolumeRetained",
                           !.pending = None,
                           !.has = (@ \ {"hostKey", "ready"})
                                       \cup {"retained"}])

-----------------------------------------------------------------------------
(* destroy --purge-volume.                                                 *)

Purge(p, caller) ==
    /\ disk.phase = "InfrastructureRemovedVolumeRetained"
    /\ "vol" \in disk.has
    /\ disk.account = caller
    /\ Start(p, disk, "purge_volume")

\* Mutant: the marker is left out of the terminal record.
PurgedUntyped(state) ==
    [state EXCEPT !.phase = "VolumePurged", !.pending = "",
                  !.has = @ \ {"retained", "hostKey", "ready"}]

Purged(state) ==
    [state EXCEPT !.phase = "VolumePurged", !.pending = None,
                  !.has = @ \ {"retained", "hostKey", "ready"}]

\* Mutant: a volume that is gone is always a conflict.
PurgeExistingVolume ==
    /\ At("purge_volume")
    /\ \/ /\ cloud.vol = "retained"
          /\ BeforeEffect(disk, PurgeEffect, "record_purge")
       \/ cloud.vol # "retained" /\ Refuse

PurgeVolume ==
    /\ At("purge_volume")
    /\ \/ /\ cloud.vol = "deleted" /\ disk.pending = PurgeEffect
          /\ Return(Purged(disk))
       \/ /\ cloud.vol = "retained"
          /\ BeforeEffect(disk, PurgeEffect, "record_purge")
       \/ /\ ~(cloud.vol = "deleted" /\ disk.pending = PurgeEffect)
          /\ cloud.vol # "retained"
          /\ Refuse

\* Here one persist clears the marker and records the purge.
RecordPurge ==
    /\ at = "record_purge" /\ effect = PurgeEffect /\ ran
    /\ disk' = Purged(disk)
    /\ at' = "idle"
    /\ holder' = None
    /\ effect' = None
    /\ ran' = FALSE
    /\ UNCHANGED <<world, environment>>

-----------------------------------------------------------------------------
ApplyStep ==
    \/ \E caller \in Accounts : BindAccount(caller)
    \/ ResolveAmi \/ EnsureKey \/ RecordKey \/ ImportKey \/ KeyReady
    \/ EnsureSecurityGroup \/ RecordSecurityGroup \/ EnsureIngress
    \/ SecurityGroupReady \/ EnsureInstance \/ RecordInstance
    \/ WaitRunning \/ WaitStatusOk \/ InstanceReady
    \/ EnsureEip \/ CheckEip \/ RecordEip
    \/ EnsureDns \/ CreateDns \/ RecordChange \/ WaitDns \/ DnsReady
    \/ EnsureHostKey \/ EnsureHostHelpers \/ InstallInitial \/ RunInstaller
    \/ RecordInstall \/ ProvisionInitial \/ InspectRequest \/ OwnRequest \/ ModeRequest
    \/ RunProvisioner \/ HostReady \/ Installed \/ VerifyLive

DestroyStep ==
    \/ DestroyDns \/ WaitDnsDelete \/ ClearDns \/ DestroyEipAssociation
    \/ RetainVolume \/ TerminateInstance \/ WaitTerminated \/ RecordTerminated
    \/ DestroyEip \/ ClearEip \/ DestroySecurityGroup \/ ClearSecurityGroup
    \/ DestroyCloudKey \/ ClearKey \/ RemovePrivate \/ RemovePublic
    \/ FinishDestroy

EffectStep == RunEffect \/ RunKeygen \/ StageInputs \/ Fails \/ AfterEffect

\* A step of the operation that holds the lock.
Step == ApplyStep \/ VerifyCommand \/ DestroyStep \/ PurgeVolume
            \/ RecordPurge \/ EffectStep

DestroyCall == \E p \in Procs, caller \in Accounts : Destroy(p, caller)
PurgeCall == \E p \in Procs, caller \in Accounts : Purge(p, caller)
ApplyCall == \E p \in Procs : Apply(p)

\* Nothing is left to do for the target.
Finished == disk.phase = "VolumePurged" /\ holder = None /\ UNCHANGED vars

Next ==
    \/ \E p \in Procs : Resume(p) \/ Verify(p)
    \/ ApplyCall \/ DestroyCall \/ PurgeCall
    \/ Step
    \/ Abort
    \/ ZoneEdit
    \/ Finished

Spec == Init /\ [][Next]_vars

\* The process with the lock runs on, and the operator repeats a command
\* that did not finish.
FairSpec ==
    Spec /\ WF_vars(Step) /\ SF_vars(ApplyCall) /\ WF_vars(DestroyCall)
         /\ WF_vars(PurgeCall)

-----------------------------------------------------------------------------
(* Safety.                                                                 *)

\* Once destroy has begun, no interleaving of apply, resume, verify and
\* crashes takes the target back to a live phase or creates a resource; in
\* particular resume, which drops the lock between its check and apply.
NoResurrection ==
    [][disk.phase \in DestroyPhases =>
          /\ disk'.phase \in DestroyPhases
          /\ disk.phase \in RemovedPhases => disk'.phase \in RemovedPhases
          /\ cloud'.eips \subseteq cloud.eips
          /\ cloud.inst # "running" => cloud'.inst # "running"
          /\ cloud.sg = "none" => cloud'.sg = "none"
          /\ cloud.key # "owned" => cloud'.key # "owned"
          /\ cloud.dns # "owned" => cloud'.dns # "owned"]_vars

\* destroy never loses data: the root volume is deleted only by the explicit
\* purge, which is possible only after the removal finished, and the state
\* file says so, at the latest with the marker of the purge.
VolumeDeletedOnlyByPurge ==
    /\ cloud.vol = "deleted" =>
          \/ disk.phase = "VolumePurged"
          \/ /\ disk.phase = "InfrastructureRemovedVolumeRetained"
             /\ disk.pending = PurgeEffect
    /\ disk.phase = "VolumePurged" => cloud.vol = "deleted"

\* retain_and_terminate_instance: an instance is gone only when its volume
\* carries the retention tag, wherever a crash fell.
RetainedBeforeTerminated ==
    cloud.inst = "terminated" => cloud.vol \in {"retained", "deleted"}

\* The user's data survive everything but the purge.
VolumeIsKept == VolumeDeletedOnlyByPurge /\ RetainedBeforeTerminated

\* A finished destroy left neither instance, security group, cloud key nor
\* DNS record behind, and the volume is tagged.  An address may stay: ensure_eip
\* records it only at its end, and destroy releases what is recorded.
RemovalIsComplete ==
    disk.phase \in RemovedPhases =>
        /\ cloud.inst = "terminated"
        /\ cloud.vol \in {"retained", "deleted"}
        /\ cloud.sg = "none"
        /\ cloud.key = "none"
        /\ cloud.dns # "owned"

\* ensure_dns and ensure_key write the resource's name into the state file
\* before they create it, so destroy can find it after any crash.
NamedResourcesAreRecorded ==
    /\ cloud.dns = "owned" => disk.dns # "none"
    /\ cloud.key = "owned" => disk.key # "none"

\* What Verified promises to the commands that require it.
VerifiedMeansLive ==
    disk.phase = "Verified" =>
        /\ cloud.key = "owned" /\ cloud.sg = "open"
        /\ cloud.inst = "running" /\ cloud.vol = "live"
        /\ "inst" \in disk.has /\ "vol" \in disk.has /\ "sg" \in disk.has
        /\ disk.eip \in cloud.eips /\ cloud.assoc = disk.eip
        /\ disk.dns # "none"
        /\ "installed" \in host.done /\ "provisioned" \in host.done

\* bind_account: the target never moves to another AWS account.
AccountPinned ==
    [][disk.account # None => disk'.account = disk.account]_vars

\* ensure_eip allocates without an idempotency token; describing the owned
\* addresses first is all that keeps the target at one address.
OneAddress == \A x, y \in cloud.eips : x = y

-----------------------------------------------------------------------------
(* Liveness.                                                               *)

\* States out of which apply cannot lead: see CrashSafe.
HalfKeyPair == disk.key = "none" /\ files = "private"
HalfStagedInput == "installed" \notin host.done /\ host.inputs = "torn"
HalfStagedRequest ==
    "ready" \notin disk.has /\ host.request \in {"ubuntu", "root"}

Obstructed == cloud.key = "foreign" \/ cloud.dns = "foreign"

\* Repeated apply/resume reaches Verified again and again, whatever effect
\* or response was lost, unless destroy begins, the name belongs to another
\* party, or one of three half-finished steps is in the way: a key pair, an input
\* of the installer or a provision request that was not made to its end.
ApplyConverges ==
    \/ []<>(disk.phase \in {"Verified"} \cup DestroyPhases)
    \/ <>[](Obstructed \/ HalfKeyPair \/ HalfStagedInput \/ HalfStagedRequest)

\* A purge that was begun is completed by repeating it, even when the volume
\* is gone and only the response was lost.
PurgeCompletes ==
    disk.pending = PurgeEffect ~> disk.phase = "VolumePurged"

-----------------------------------------------------------------------------
(* A claim of the documentation that the code does not keep.               *)

\* README: "Crash-safe onboard, resume, status, verify, destroy".  An apply
\* that was interrupted is completed by repeating it, and so is a destroy, also
\* of a target whose deployment was interrupted before.
CrashSafe ==
    /\ \/ []<>(disk.phase \in {"Verified"} \cup DestroyPhases)
       \/ <>[]Obstructed
    /\ (disk.phase = "Destroying" /\ ~Obstructed) ~> disk.phase \in RemovedPhases
=============================================================================
