------------------------- MODULE Ec2LifecycleProofs -------------------------
(***************************************************************************)
(* Safety of the EC2 lifecycle for every number of processes, accounts,    *)
(* addresses, crashes and zone edits.                                      *)
(*                                                                         *)
(* A step of apply or destroy persists a state, begins an effect or        *)
(* returns.  The two shape lemmas say, once per action, what it may write, *)
(* where it may continue and which effect it may begin; every invariant is *)
(* then proved from the shapes and not from the fifty actions.             *)
(***************************************************************************)
EXTENDS Ec2Lifecycle, TLAPS

(* The strengthening.                                                      *)

\* Who holds the lock is somewhere in an operation.
LockInv ==
    /\ holder = None <=> at = "idle"
    /\ at = "idle" => effect = None
    /\ effect = None => ~ran

\* The marker names the effect in progress.
MarkerInv == effect # None => disk.pending = effect

ApplyEffects == LocalEffects \cup CreateEffects \cup HostEffects \cup Waits

RemoveEffects == DestroyEffects \cup Waits

\* Each operation runs in its own phases and begins its own effects.
PlaceInv ==
    /\ at \in ApplyPoints =>
          disk.phase \in ResumablePhases /\ effect \in ApplyEffects \cup {None}
    /\ at = "verify_command" => disk.phase \in ResumablePhases /\ effect = None
    /\ at \in DestroyPoints =>
          disk.phase = "Destroying" /\ effect \in RemoveEffects \cup {None}
    /\ at = "purge_volume" =>
          disk.phase = "InfrastructureRemovedVolumeRetained" /\ effect = None
    /\ at = "record_purge" =>
          disk.phase = "InfrastructureRemovedVolumeRetained"
              /\ effect = PurgeEffect
    /\ disk.phase = "Absent" =>
          disk.account = None /\ disk.dns = "none" /\ disk.key = "none"

\* What holds while an effect is in progress.
EffectInv ==
    /\ effect = "terminate-exact-owned-instance" => cloud.vol = "retained"
    /\ effect = "allocate-owned-eip" /\ ~ran => cloud.eips = {}
    /\ effect = "create-owned-dns-record" => disk.dns # "none"
    /\ effect = "import-owned-key-pair" => disk.key # "none"
    /\ effect = PurgeEffect /\ ran => cloud.vol = "deleted"

\* What holds at the points where the next step relies on an earlier one.
PointInv ==
    /\ at = "create_dns" => disk.dns # "none"
    /\ at = "import_key" => disk.key # "none"
    /\ at = "wait_dns_delete" =>
          \/ effect = "delete-exact-owned-dns-record" /\ ~ran
          \/ cloud.dns # "owned"
    /\ at = "clear_dns" => cloud.dns # "owned"
    /\ at = "clear_key" =>
          \/ effect = "delete-exact-owned-cloud-key" /\ ~ran
          \/ cloud.key # "owned"

SafetyInv ==
    /\ TypeOK
    /\ LockInv
    /\ MarkerInv
    /\ PlaceInv
    /\ EffectInv
    /\ PointInv
    /\ VolumeDeletedOnlyByPurge
    /\ RetainedBeforeTerminated
    /\ NamedResourcesAreRecorded
    /\ OneAddress

-----------------------------------------------------------------------------
(* The shape of a step of apply.                                           *)

ApplyWrites ==
    {s \in Ec2State :
        /\ s.phase \in ResumablePhases \cup {disk.phase}
        /\ disk.account # None => s.account = disk.account
        /\ s.account # None \/ s.account = disk.account
        /\ disk.dns # "none" => s.dns # "none"
        /\ disk.key # "none" => s.key # "none"}

ApplyPersists(s, l) ==
    /\ s \in ApplyWrites /\ l \in ApplyPoints
    /\ l = "create_dns" => s.dns # "none"
    /\ l = "import_key" => s.key # "none"
    /\ Persist(s, l)

ApplyBegins(s, e, l) ==
    /\ s \in ApplyWrites /\ e \in ApplyEffects
    /\ l \in ApplyPoints /\ l # "create_dns" /\ l # "import_key"
    /\ e = "allocate-owned-eip" => cloud.eips = {}
    /\ e = "create-owned-dns-record" => s.dns # "none"
    /\ e = "import-owned-key-pair" => s.key # "none"
    /\ BeforeEffect(s, e, l)

ApplyShape ==
    /\ at \in ApplyPoints /\ effect = None
    /\ \/ \E s, l : ApplyPersists(s, l)
       \/ \E s, e, l : ApplyBegins(s, e, l)
       \/ \E s \in ApplyWrites : Return(s)

\* Every step of apply and resume writes, continues and begins as ApplyShape
\* says (the calls from bind_account to verify_live_locked, workflow.rs 109-128).
LEMMA ApplyStepShape ==
  ASSUME TypeOK, PlaceInv, PointInv, ApplyStep
  PROVE  ApplyShape
<1> USE DEF Goto, Refuse, At, ApplyPersists, ApplyBegins
<1>t. disk \in Ec2State
  BY DEF TypeOK
<1>w. disk \in ApplyWrites
  BY <1>t DEF ApplyWrites, Ec2State
<1>1. ASSUME NEW caller \in Accounts, BindAccount(caller)
      PROVE  ApplyShape
  <2>1. disk.account \in {None, caller} =>
            [disk EXCEPT !.account = caller, !.phase = "AccountBound"]
                \in ApplyWrites
    BY <1>t, <1>1, ConstantsAssumption DEF ApplyWrites, Ec2State, Phases,
         ResumablePhases
  <2>2. {"bind_account", "resolve_ami"} \subseteq ApplyPoints
    BY DEF ApplyPoints
  <2>. QED  BY <1>1, <1>w, <2>1, <2>2 DEF BindAccount, ApplyShape
<1>2. CASE ResolveAmi
  <2>1. [disk EXCEPT !.has = @ \cup {"ami"}, !.phase = "AmiResolved"]
            \in ApplyWrites
    BY <1>t DEF ApplyWrites, Ec2State, Fields, Phases, ResumablePhases
  <2>2. {"resolve_ami", "ensure_key"} \subseteq ApplyPoints
    BY DEF ApplyPoints
  <2>. QED  BY <1>2, <1>w, <2>1, <2>2 DEF ResolveAmi, ApplyShape
<1>3. CASE EnsureKey
  <2>1. {"ensure_key", "import_key", "record_key"} \subseteq ApplyPoints
    BY DEF ApplyPoints
  <2>2. {"generate-local-ed25519-key"} \subseteq ApplyEffects
    BY DEF ApplyEffects, LocalEffects, CreateEffects, HostEffects, Waits
  <2>. QED  BY <1>3, <1>w, <2>1, <2>2 DEF EnsureKey, ApplyShape
<1>4. CASE RecordKey
  <2>1. [disk EXCEPT !.key = "local"]
            \in ApplyWrites
    BY <1>t DEF ApplyWrites, Ec2State, Fields, Phases, ResumablePhases
  <2>2. {"record_key", "import_key"} \subseteq ApplyPoints
    BY DEF ApplyPoints
  <2>. QED  BY <1>4, <1>w, <2>1, <2>2, <1>t DEF RecordKey, ApplyShape, Ec2State
<1>5. CASE ImportKey
  <2>1. {"import_key", "key_ready"} \subseteq ApplyPoints
    BY DEF ApplyPoints
  <2>2. {"import-owned-key-pair"} \subseteq ApplyEffects
    BY DEF ApplyEffects, LocalEffects, CreateEffects, HostEffects, Waits
  <2>. QED  BY <1>5, <1>w, <2>1, <2>2 DEF ImportKey, ApplyShape, PointInv
<1>6. CASE KeyReady
  <2>1. [disk EXCEPT !.key = "imported", !.phase = "KeyReady"]
            \in ApplyWrites
    BY <1>t DEF ApplyWrites, Ec2State, Fields, Phases, ResumablePhases
  <2>2. {"key_ready", "ensure_security_group"} \subseteq ApplyPoints
    BY DEF ApplyPoints
  <2>. QED  BY <1>6, <1>w, <2>1, <2>2 DEF KeyReady, ApplyShape
<1>7. CASE EnsureSecurityGroup
  <2>1. {"ensure_security_group", "ensure_ingress", "record_security_group"} \subseteq ApplyPoints
    BY DEF ApplyPoints
  <2>2. {"create-owned-security-group"} \subseteq ApplyEffects
    BY DEF ApplyEffects, LocalEffects, CreateEffects, HostEffects, Waits
  <2>. QED  BY <1>7, <1>w, <2>1, <2>2 DEF EnsureSecurityGroup, ApplyShape
<1>8. CASE RecordSecurityGroup
  <2>1. [disk EXCEPT !.has = @ \cup {"sg"}]
            \in ApplyWrites
    BY <1>t DEF ApplyWrites, Ec2State, Fields, Phases, ResumablePhases
  <2>2. {"record_security_group", "ensure_ingress"} \subseteq ApplyPoints
    BY DEF ApplyPoints
  <2>. QED  BY <1>8, <1>w, <2>1, <2>2 DEF RecordSecurityGroup, ApplyShape
<1>9. CASE EnsureIngress
  <2>1. [disk EXCEPT !.has = @ \cup {"sg"}]
            \in ApplyWrites
    BY <1>t DEF ApplyWrites, Ec2State, Fields, Phases, ResumablePhases
  <2>2. {"ensure_ingress", "security_group_ready"} \subseteq ApplyPoints
    BY DEF ApplyPoints
  <2>3. {"authorize-minimal-ingress"} \subseteq ApplyEffects
    BY DEF ApplyEffects, LocalEffects, CreateEffects, HostEffects, Waits
  <2>. QED  BY <1>9, <1>w, <2>1, <2>2, <2>3 DEF EnsureIngress, ApplyShape
<1>10. CASE SecurityGroupReady
  <2>1. [disk EXCEPT !.has = @ \cup {"sg"}, !.phase = "SecurityGroupReady"]
            \in ApplyWrites
    BY <1>t DEF ApplyWrites, Ec2State, Fields, Phases, ResumablePhases
  <2>2. {"security_group_ready", "ensure_instance"} \subseteq ApplyPoints
    BY DEF ApplyPoints
  <2>. QED  BY <1>10, <1>w, <2>1, <2>2 DEF SecurityGroupReady, ApplyShape
<1>11. CASE EnsureInstance
  <2>1. {"ensure_instance", "record_instance"} \subseteq ApplyPoints
    BY DEF ApplyPoints
  <2>2. {"run-owned-instance"} \subseteq ApplyEffects
    BY DEF ApplyEffects, LocalEffects, CreateEffects, HostEffects, Waits
  <2>. QED  BY <1>11, <1>w, <2>1, <2>2 DEF EnsureInstance, ApplyShape
<1>12. CASE RecordInstance
  <2>1. [disk EXCEPT !.has = @ \cup {"inst", "vol"}]
            \in ApplyWrites
    BY <1>t DEF ApplyWrites, Ec2State, Fields, Phases, ResumablePhases
  <2>2. {"record_instance", "wait_running"} \subseteq ApplyPoints
    BY DEF ApplyPoints
  <2>. QED  BY <1>12, <1>w, <2>1, <2>2 DEF RecordInstance, ApplyShape
<1>13. CASE WaitRunning
  <2>1. {"wait_running", "wait_status_ok"} \subseteq ApplyPoints
    BY DEF ApplyPoints
  <2>2. {"wait-instance-running"} \subseteq ApplyEffects
    BY DEF ApplyEffects, LocalEffects, CreateEffects, HostEffects, Waits
  <2>. QED  BY <1>13, <1>w, <2>1, <2>2 DEF WaitRunning, ApplyShape
<1>14. CASE WaitStatusOk
  <2>1. {"wait_status_ok", "instance_ready"} \subseteq ApplyPoints
    BY DEF ApplyPoints
  <2>2. {"wait-instance-status-ok"} \subseteq ApplyEffects
    BY DEF ApplyEffects, LocalEffects, CreateEffects, HostEffects, Waits
  <2>. QED  BY <1>14, <1>w, <2>1, <2>2 DEF WaitStatusOk, ApplyShape
<1>15. CASE InstanceReady
  <2>1. [disk EXCEPT !.phase = "InstanceReady"]
            \in ApplyWrites
    BY <1>t DEF ApplyWrites, Ec2State, Fields, Phases, ResumablePhases
  <2>2. {"instance_ready", "ensure_eip"} \subseteq ApplyPoints
    BY DEF ApplyPoints
  <2>. QED  BY <1>15, <1>w, <2>1, <2>2 DEF InstanceReady, ApplyShape
<1>16. CASE EnsureEip
  <2>1. {"ensure_eip", "check_eip"} \subseteq ApplyPoints
    BY DEF ApplyPoints
  <2>2. {"allocate-owned-eip"} \subseteq ApplyEffects
    BY DEF ApplyEffects, LocalEffects, CreateEffects, HostEffects, Waits
  <2>. QED  BY <1>16, <1>w, <2>1, <2>2 DEF EnsureEip, ApplyShape
<1>17. CASE CheckEip
  <2>1. {"check_eip", "record_eip"} \subseteq ApplyPoints
    BY DEF ApplyPoints
  <2>2. {"associate-owned-eip"} \subseteq ApplyEffects
    BY DEF ApplyEffects, LocalEffects, CreateEffects, HostEffects, Waits
  <2>. QED  BY <1>17, <1>w, <2>1, <2>2 DEF CheckEip, ApplyShape
<1>18. CASE RecordEip
  <2>1. \A id \in cloud.eips :
            [disk EXCEPT !.eip = id, !.phase = "EipReady"]
                \in ApplyWrites
    BY <1>t DEF TypeOK, Cloud, ApplyWrites, Ec2State, Phases, ResumablePhases
  <2>2. {"record_eip", "ensure_dns"} \subseteq ApplyPoints
    BY DEF ApplyPoints
  <2>. QED  BY <1>18, <1>w, <2>1, <2>2 DEF RecordEip, ApplyShape
<1>19. CASE EnsureDns
  <2>1. [disk EXCEPT !.dns = "reconciled", !.phase = "DnsReady"]
            \in ApplyWrites
    BY <1>t DEF ApplyWrites, Ec2State, Fields, Phases, ResumablePhases
  <2>2. [disk EXCEPT !.dns = "create-pending"]
            \in ApplyWrites
    BY <1>t DEF ApplyWrites, Ec2State, Fields, Phases, ResumablePhases
  <2>3. {"ensure_dns", "wait_dns", "ensure_host_key", "create_dns"} \subseteq ApplyPoints
    BY DEF ApplyPoints
  <2>. QED  BY <1>19, <1>w, <2>1, <2>2, <2>3, <1>t DEF EnsureDns, ApplyShape,
       Ec2State
<1>20. CASE CreateDns
  <2>1. {"create_dns", "record_change"} \subseteq ApplyPoints
    BY DEF ApplyPoints
  <2>2. {"create-owned-dns-record"} \subseteq ApplyEffects
    BY DEF ApplyEffects, LocalEffects, CreateEffects, HostEffects, Waits
  <2>. QED  BY <1>20, <1>w, <2>1, <2>2 DEF CreateDns, ApplyShape, PointInv
<1>21. CASE RecordChange
  <2>1. [disk EXCEPT !.dns = "changed"]
            \in ApplyWrites
    BY <1>t DEF ApplyWrites, Ec2State, Fields, Phases, ResumablePhases
  <2>2. {"record_change", "wait_dns"} \subseteq ApplyPoints
    BY DEF ApplyPoints
  <2>. QED  BY <1>21, <1>w, <2>1, <2>2 DEF RecordChange, ApplyShape
<1>22. CASE WaitDns
  <2>1. {"wait_dns", "dns_ready"} \subseteq ApplyPoints
    BY DEF ApplyPoints
  <2>2. {"wait-owned-dns-change"} \subseteq ApplyEffects
    BY DEF ApplyEffects, LocalEffects, CreateEffects, HostEffects, Waits
  <2>. QED  BY <1>22, <1>w, <2>1, <2>2 DEF WaitDns, ApplyShape
<1>23. CASE DnsReady
  <2>1. [disk EXCEPT !.phase = "DnsReady"]
            \in ApplyWrites
    BY <1>t DEF ApplyWrites, Ec2State, Fields, Phases, ResumablePhases
  <2>2. {"dns_ready", "ensure_host_key"} \subseteq ApplyPoints
    BY DEF ApplyPoints
  <2>. QED  BY <1>23, <1>w, <2>1, <2>2 DEF DnsReady, ApplyShape
<1>24. CASE EnsureHostKey
  <2>1. [disk EXCEPT !.has = @ \cup {"hostKey"}, !.phase = "HostKeyPinned"]
            \in ApplyWrites
    BY <1>t DEF ApplyWrites, Ec2State, Fields, Phases, ResumablePhases
  <2>2. {"ensure_host_key", "ensure_host_helpers"} \subseteq ApplyPoints
    BY DEF ApplyPoints
  <2>. QED  BY <1>24, <1>w, <2>1, <2>2 DEF EnsureHostKey, ApplyShape
<1>25. CASE EnsureHostHelpers
  <2>1. {"ensure_host_helpers", "install_initial"} \subseteq ApplyPoints
    BY DEF ApplyPoints
  <2>2. {"install-host-helpers"} \subseteq ApplyEffects
    BY DEF ApplyEffects, LocalEffects, CreateEffects, HostEffects, Waits
  <2>. QED  BY <1>25, <1>w, <2>1, <2>2 DEF EnsureHostHelpers, ApplyShape
<1>26. CASE InstallInitial
  <2>1. {"install_initial", "provision_initial", "run_installer", "record_install"}
            \subseteq ApplyPoints
    BY DEF ApplyPoints
  <2>2. {"stage-exact-install-inputs"} \subseteq ApplyEffects
    BY DEF ApplyEffects, LocalEffects, CreateEffects, HostEffects, Waits
  <2>. QED  BY <1>26, <1>w, <2>1, <2>2 DEF InstallInitial, ApplyShape
<1>36. CASE RunInstaller
  <2>1. {"run_installer", "record_install"} \subseteq ApplyPoints
    BY DEF ApplyPoints
  <2>2. {"run-fixed-stack-installer"} \subseteq ApplyEffects
    BY DEF ApplyEffects, LocalEffects, CreateEffects, HostEffects, Waits
  <2>. QED  BY <1>36, <1>w, <2>1, <2>2 DEF RunInstaller, ApplyShape
<1>27. CASE RecordInstall
  <2>1. [disk EXCEPT !.has = @ \cup {"current"}, !.phase = "ProvisionPending"]
            \in ApplyWrites
    BY <1>t DEF ApplyWrites, Ec2State, Fields, Phases, ResumablePhases
  <2>2. {"record_install", "provision_initial"} \subseteq ApplyPoints
    BY DEF ApplyPoints
  <2>. QED  BY <1>27, <1>w, <2>1, <2>2 DEF RecordInstall, ApplyShape
<1>28. CASE ProvisionInitial
  <2>1. [disk EXCEPT !.phase = "Provisioning"]
            \in ApplyWrites
    BY <1>t DEF ApplyWrites, Ec2State, Fields, Phases, ResumablePhases
  <2>2. {"provision_initial", "verify_live", "inspect_request"} \subseteq ApplyPoints
    BY DEF ApplyPoints
  <2>. QED  BY <1>28, <1>w, <2>1, <2>2 DEF ProvisionInitial, ApplyShape
<1>29. CASE InspectRequest
  <2>1. {"inspect_request", "run_provisioner", "own_request"} \subseteq ApplyPoints
    BY DEF ApplyPoints
  <2>2. {"stage-exact-provision-request"} \subseteq ApplyEffects
    BY DEF ApplyEffects, LocalEffects, CreateEffects, HostEffects, Waits
  <2>. QED  BY <1>29, <1>w, <2>1, <2>2 DEF InspectRequest, ApplyShape
<1>30. CASE OwnRequest
  <2>1. {"own_request", "mode_request"} \subseteq ApplyPoints
    BY DEF ApplyPoints
  <2>2. {"own-fixed-provision-request"} \subseteq ApplyEffects
    BY DEF ApplyEffects, LocalEffects, CreateEffects, HostEffects, Waits
  <2>. QED  BY <1>30, <1>w, <2>1, <2>2 DEF OwnRequest, ApplyShape
<1>31. CASE ModeRequest
  <2>1. {"mode_request", "run_provisioner"} \subseteq ApplyPoints
    BY DEF ApplyPoints
  <2>2. {"mode-fixed-provision-request"} \subseteq ApplyEffects
    BY DEF ApplyEffects, LocalEffects, CreateEffects, HostEffects, Waits
  <2>. QED  BY <1>31, <1>w, <2>1, <2>2 DEF ModeRequest, ApplyShape
<1>32. CASE RunProvisioner
  <2>1. {"run_provisioner", "host_ready"} \subseteq ApplyPoints
    BY DEF ApplyPoints
  <2>2. {"run-fixed-host-provisioner"} \subseteq ApplyEffects
    BY DEF ApplyEffects, LocalEffects, CreateEffects, HostEffects, Waits
  <2>. QED  BY <1>32, <1>w, <2>1, <2>2 DEF RunProvisioner, ApplyShape
<1>33. CASE HostReady
  <2>1. [disk EXCEPT !.has = @ \cup {"ready"}, !.phase = "HostReady"]
            \in ApplyWrites
    BY <1>t DEF ApplyWrites, Ec2State, Fields, Phases, ResumablePhases
  <2>2. {"host_ready", "installed"} \subseteq ApplyPoints
    BY DEF ApplyPoints
  <2>. QED  BY <1>33, <1>w, <2>1, <2>2 DEF HostReady, ApplyShape
<1>34. CASE Installed
  <2>1. [disk EXCEPT !.phase = "Installed"]
            \in ApplyWrites
    BY <1>t DEF ApplyWrites, Ec2State, Fields, Phases, ResumablePhases
  <2>2. {"installed", "verify_live"} \subseteq ApplyPoints
    BY DEF ApplyPoints
  <2>. QED  BY <1>34, <1>w, <2>1, <2>2 DEF Installed, ApplyShape
<1>35. CASE VerifyLive
  <2>1. [disk EXCEPT !.phase = "Verified", !.pending = None]
            \in ApplyWrites
    BY <1>t DEF ApplyWrites, Ec2State, Fields, Phases, ResumablePhases
  <2>2. {"verify_live"} \subseteq ApplyPoints
    BY DEF ApplyPoints
  <2>. QED  BY <1>35, <1>w, <2>1, <2>2 DEF VerifyLive, ApplyShape
<1>. QED  BY <1>1, <1>2, <1>3, <1>4, <1>5, <1>6, <1>7, <1>8, <1>9, <1>10,
     <1>11, <1>12, <1>13, <1>14, <1>15, <1>16, <1>17, <1>18, <1>19, <1>20,
     <1>21, <1>22, <1>23, <1>24, <1>25, <1>26, <1>27, <1>28, <1>29, <1>30,
     <1>31, <1>32, <1>33, <1>34, <1>35, <1>36 DEF ApplyStep

-----------------------------------------------------------------------------
(* The shape of a step of destroy.                                         *)

DestroyWrites ==
    {s \in Ec2State :
        /\ s.account = disk.account
        /\ cloud.dns = "owned" => s.dns # "none"
        /\ cloud.key = "owned" => s.key # "none"}

DestroyPersists(s, l) ==
    /\ s \in DestroyWrites /\ s.phase = disk.phase
    /\ l \in DestroyPoints \ {"wait_dns_delete", "clear_dns", "clear_key"}
    /\ Persist(s, l)

DestroyBegins(s, e, l) ==
    /\ s \in DestroyWrites /\ s.phase = disk.phase
    /\ e \in RemoveEffects /\ l \in DestroyPoints
    /\ e = "terminate-exact-owned-instance" => cloud.vol = "retained"
    /\ l = "wait_dns_delete" => e = "delete-exact-owned-dns-record"
    /\ l = "clear_dns" => cloud.dns # "owned"
    /\ l = "clear_key" => e = "delete-exact-owned-cloud-key"
    /\ BeforeEffect(s, e, l)

\* Removal of the local key files.
DestroyUnlinks ==
    /\ files' \in {"none", "private", "both", "public"}
    /\ at' \in {"remove_public", "finish_destroy"}
    /\ UNCHANGED <<disk, cloud, host, holder, effect, ran, environment>>

DestroyShape ==
    /\ at \in DestroyPoints /\ effect = None
    /\ \/ \E s, l : DestroyPersists(s, l)
       \/ \E s, e, l : DestroyBegins(s, e, l)
       \/ \E s \in DestroyWrites :
             /\ s = disk \/ s.phase = "InfrastructureRemovedVolumeRetained"
             /\ Return(s)
       \/ DestroyUnlinks

\* Every step of destroy writes, continues and begins as DestroyShape says
\* (destroy_dns to clear_terminal_runtime_evidence, workflow.rs 4734-4747).
LEMMA DestroyStepShape ==
  ASSUME TypeOK, PlaceInv, PointInv, NamedResourcesAreRecorded, DestroyStep
  PROVE  DestroyShape
<1> USE DEF Goto, Refuse, At, DestroyPersists, DestroyBegins
<1>t. disk \in Ec2State
  BY DEF TypeOK
<1>w. disk \in DestroyWrites
  BY <1>t DEF DestroyWrites, Ec2State, NamedResourcesAreRecorded
<1>n. /\ effect # None => effect \in Effects
      /\ None \notin {"delete-exact-owned-dns-record",
                     "delete-exact-owned-cloud-key"}
  BY ConstantsAssumption DEF TypeOK, Effects, CloudEffects, DestroyEffects
<1>1. CASE DestroyDns
  <2>1. cloud.dns = "none" => [disk EXCEPT !.dns = "none"]
            \in DestroyWrites
    BY <1>t, <1>n, <1>1, <1>w DEF DestroyWrites, Ec2State, Fields
  <2>2. {"destroy_dns", "destroy_eip_association", "wait_dns_delete"} \subseteq DestroyPoints
    BY DEF DestroyPoints
  <2>3. {"delete-exact-owned-dns-record"} \subseteq RemoveEffects
    BY DEF RemoveEffects, DestroyEffects, Waits
  <2>. QED  BY <1>1, <1>t, <1>n, <1>w, <2>1, <2>2, <2>3 DEF DestroyDns,
       DestroyShape, Ec2State
<1>2. CASE WaitDnsDelete
  <2>1. {"wait_dns_delete", "clear_dns"} \subseteq DestroyPoints
    BY DEF DestroyPoints
  <2>2. {"wait-exact-dns-delete"} \subseteq RemoveEffects
    BY DEF RemoveEffects, DestroyEffects, Waits
  <2>. QED  BY <1>2, <1>t, <1>n, <1>w, <2>1, <2>2 DEF WaitDnsDelete,
       DestroyShape, PointInv
<1>3. CASE ClearDns
  <2>1. [disk EXCEPT !.dns = "none"]
            \in DestroyWrites
    BY <1>t, <1>n, <1>3, <1>w DEF DestroyWrites, Ec2State, Fields, PointInv,
         ClearDns
  <2>2. {"clear_dns", "destroy_eip_association"} \subseteq DestroyPoints
    BY DEF DestroyPoints
  <2>. QED  BY <1>3, <1>t, <1>n, <1>w, <2>1, <2>2 DEF ClearDns, DestroyShape,
       Ec2State
<1>4. CASE DestroyEipAssociation
  <2>1. [disk EXCEPT !.eip = None]
            \in DestroyWrites
    BY <1>t, <1>n, <1>4, <1>w DEF DestroyWrites, Ec2State, Fields
  <2>2. {"destroy_eip_association", "retain_volume"} \subseteq DestroyPoints
    BY DEF DestroyPoints
  <2>3. {"disassociate-exact-owned-eip"} \subseteq RemoveEffects
    BY DEF RemoveEffects, DestroyEffects, Waits
  <2>. QED  BY <1>4, <1>t, <1>n, <1>w, <2>1, <2>2, <2>3 DEF
       DestroyEipAssociation, DestroyShape, Ec2State
<1>5. CASE RetainVolume
  <2>1. {"retain_volume", "terminate_instance"} \subseteq DestroyPoints
    BY DEF DestroyPoints
  <2>2. {"tag-explicit-retained-volume"} \subseteq RemoveEffects
    BY DEF RemoveEffects, DestroyEffects, Waits
  <2>. QED  BY <1>5, <1>t, <1>n, <1>w, <2>1, <2>2 DEF RetainVolume,
       DestroyShape
<1>6. CASE TerminateInstance
  <2>1. {"terminate_instance", "record_terminated", "wait_terminated"} \subseteq DestroyPoints
    BY DEF DestroyPoints
  <2>2. {"terminate-exact-owned-instance"} \subseteq RemoveEffects
    BY DEF RemoveEffects, DestroyEffects, Waits
  <2>. QED  BY <1>6, <1>t, <1>n, <1>w, <2>1, <2>2 DEF TerminateInstance,
       DestroyShape
<1>7. CASE WaitTerminated
  <2>1. {"wait_terminated", "record_terminated"} \subseteq DestroyPoints
    BY DEF DestroyPoints
  <2>2. {"wait-exact-instance-terminated"} \subseteq RemoveEffects
    BY DEF RemoveEffects, DestroyEffects, Waits
  <2>. QED  BY <1>7, <1>t, <1>n, <1>w, <2>1, <2>2 DEF WaitTerminated,
       DestroyShape
<1>8. CASE RecordTerminated
  <2>1. [disk EXCEPT !.has = (@ \ {"inst"}) \cup {"retained"}]
            \in DestroyWrites
    BY <1>t, <1>n, <1>8, <1>w DEF DestroyWrites, Ec2State, Fields
  <2>2. {"record_terminated", "destroy_eip"} \subseteq DestroyPoints
    BY DEF DestroyPoints
  <2>. QED  BY <1>8, <1>t, <1>n, <1>w, <2>1, <2>2 DEF RecordTerminated,
       DestroyShape, Ec2State
<1>9. CASE DestroyEip
  <2>1. [disk EXCEPT !.eip = None]
            \in DestroyWrites
    BY <1>t, <1>n, <1>9, <1>w DEF DestroyWrites, Ec2State, Fields
  <2>2. {"destroy_eip", "destroy_security_group", "clear_eip"} \subseteq DestroyPoints
    BY DEF DestroyPoints
  <2>3. {"release-exact-owned-eip"} \subseteq RemoveEffects
    BY DEF RemoveEffects, DestroyEffects, Waits
  <2>. QED  BY <1>9, <1>t, <1>n, <1>w, <2>1, <2>2, <2>3 DEF DestroyEip,
       DestroyShape, Ec2State
<1>10. CASE ClearEip
  <2>1. [disk EXCEPT !.eip = None]
            \in DestroyWrites
    BY <1>t, <1>n, <1>10, <1>w DEF DestroyWrites, Ec2State, Fields
  <2>2. {"clear_eip", "destroy_security_group"} \subseteq DestroyPoints
    BY DEF DestroyPoints
  <2>. QED  BY <1>10, <1>t, <1>n, <1>w, <2>1, <2>2 DEF ClearEip, DestroyShape,
       Ec2State
<1>11. CASE DestroySecurityGroup
  <2>1. [disk EXCEPT !.has = @ \ {"sg"}]
            \in DestroyWrites
    BY <1>t, <1>n, <1>11, <1>w DEF DestroyWrites, Ec2State, Fields
  <2>2. {"destroy_security_group", "destroy_cloud_key", "clear_security_group"} \subseteq DestroyPoints
    BY DEF DestroyPoints
  <2>3. {"delete-exact-owned-security-group"} \subseteq RemoveEffects
    BY DEF RemoveEffects, DestroyEffects, Waits
  <2>. QED  BY <1>11, <1>t, <1>n, <1>w, <2>1, <2>2, <2>3 DEF
       DestroySecurityGroup, DestroyShape, Ec2State
<1>12. CASE ClearSecurityGroup
  <2>1. [disk EXCEPT !.has = @ \ {"sg"}]
            \in DestroyWrites
    BY <1>t, <1>n, <1>12, <1>w DEF DestroyWrites, Ec2State, Fields
  <2>2. {"clear_security_group", "destroy_cloud_key"} \subseteq DestroyPoints
    BY DEF DestroyPoints
  <2>. QED  BY <1>12, <1>t, <1>n, <1>w, <2>1, <2>2 DEF ClearSecurityGroup,
       DestroyShape, Ec2State
<1>13. CASE DestroyCloudKey
  <2>1. cloud.key = "none" => [disk EXCEPT !.key = "none"]
            \in DestroyWrites
    BY <1>t, <1>n, <1>13, <1>w DEF DestroyWrites, Ec2State, Fields
  <2>2. {"destroy_cloud_key", "remove_private", "clear_key"} \subseteq DestroyPoints
    BY DEF DestroyPoints
  <2>3. {"delete-exact-owned-cloud-key"} \subseteq RemoveEffects
    BY DEF RemoveEffects, DestroyEffects, Waits
  <2>. QED  BY <1>13, <1>t, <1>n, <1>w, <2>1, <2>2, <2>3 DEF DestroyCloudKey,
       DestroyShape, Ec2State
<1>14. CASE ClearKey
  <2>1. [disk EXCEPT !.key = "none"]
            \in DestroyWrites
    BY <1>t, <1>n, <1>14, <1>w DEF DestroyWrites, Ec2State, Fields, PointInv,
         ClearKey
  <2>2. {"clear_key", "remove_private"} \subseteq DestroyPoints
    BY DEF DestroyPoints
  <2>. QED  BY <1>14, <1>t, <1>n, <1>w, <2>1, <2>2 DEF ClearKey, DestroyShape,
       Ec2State
<1>15. CASE RemovePrivate
  <2>1. "remove_private" \in DestroyPoints
    BY DEF DestroyPoints
  <2>. QED  BY <1>15, <2>1 DEF RemovePrivate, DestroyShape, DestroyUnlinks,
       TypeOK
<1>16. CASE RemovePublic
  <2>1. "remove_public" \in DestroyPoints
    BY DEF DestroyPoints
  <2>. QED  BY <1>16, <2>1 DEF RemovePublic, DestroyShape, DestroyUnlinks
<1>17. CASE FinishDestroy
  <2> DEFINE s == [disk EXCEPT !.phase = "InfrastructureRemovedVolumeRetained",
                               !.pending = None,
                               !.has = (@ \ {"hostKey", "ready"})
                                           \cup {"retained"}]
  <2>1. s \in DestroyWrites /\ s.phase = "InfrastructureRemovedVolumeRetained"
    BY <1>t, <1>w DEF DestroyWrites, Ec2State, Fields, Phases, DestroyPhases,
         RemovedPhases
  <2>2. "finish_destroy" \in DestroyPoints
    BY DEF DestroyPoints
  <2>. QED  BY <1>17, <2>1, <2>2 DEF FinishDestroy, DestroyShape
<1>. QED  BY <1>1, <1>2, <1>3, <1>4, <1>5, <1>6, <1>7, <1>8, <1>9, <1>10,
     <1>11, <1>12, <1>13, <1>14, <1>15, <1>16, <1>17 DEF DestroyStep

-----------------------------------------------------------------------------
(* Facts about the tables.                                                 *)

\* The program points of the operations are distinct.
LEMMA Tables ==
  /\ ApplyPoints \subseteq Points /\ DestroyPoints \subseteq Points
  /\ {"idle", "verify_command", "purge_volume", "record_purge"} \subseteq Points
  /\ \A l \in ApplyPoints :
        l \notin DestroyPoints \cup {"idle", "verify_command", "purge_volume",
                                     "record_purge", "wait_dns_delete",
                                     "clear_dns", "clear_key"}
  /\ \A l \in DestroyPoints :
        l \notin {"idle", "verify_command", "purge_volume", "record_purge",
                  "create_dns", "import_key"}
  /\ {"idle", "verify_command", "purge_volume", "record_purge"}
         \cap (ApplyPoints \cup DestroyPoints) = {}
BY DEF Points, ApplyPoints, DestroyPoints

\* The command ids of apply, destroy and purge are distinct, and none is None.
LEMMA EffectTables ==
  /\ ApplyEffects \subseteq Effects /\ RemoveEffects \subseteq Effects
  /\ CreateEffects \subseteq Effects /\ DestroyEffects \subseteq Effects
  /\ PurgeEffect \in Effects
  /\ None \notin Effects
  /\ \A e \in ApplyEffects : e \notin DestroyEffects \cup {PurgeEffect}
  /\ \A e \in RemoveEffects :
        e \notin CreateEffects \cup LocalEffects \cup HostEffects \cup {PurgeEffect}
  /\ {"terminate-exact-owned-instance", "delete-exact-owned-dns-record",
      "delete-exact-owned-cloud-key"} \subseteq DestroyEffects
  /\ {"allocate-owned-eip", "create-owned-dns-record",
      "import-owned-key-pair"} \subseteq CreateEffects
  /\ PurgeEffect \notin CreateEffects \cup DestroyEffects
  /\ CreateEffects \cap DestroyEffects = {}
BY ConstantsAssumption DEF Effects, ApplyEffects, RemoveEffects, LocalEffects,
   CreateEffects, HostEffects, Waits, DestroyEffects, CloudEffects, PurgeEffect

\* The phases of ensure_apply_resumable_phase and of destroy are disjoint.
LEMMA PhaseTables ==
  /\ \A ph \in ResumablePhases : ph \notin DestroyPhases \cup {"Absent"}
  /\ RemovedPhases = {"InfrastructureRemovedVolumeRetained", "VolumePurged"}
  /\ DestroyPhases = {"Destroying", "InfrastructureRemovedVolumeRetained",
                      "VolumePurged"}
  /\ {"Planned", "Verified"} \subseteq ResumablePhases
  /\ Phases = {"Absent"} \cup ResumablePhases \cup DestroyPhases
BY DEF Phases, ResumablePhases, DestroyPhases, RemovedPhases

-----------------------------------------------------------------------------
(* apply preserves the invariant.                                          *)

\* A step of apply preserves the invariant.
LEMMA ApplyKeepsInv ==
  ASSUME SafetyInv, ApplyStep
  PROVE  SafetyInv'
<1>1. ApplyShape
  BY ApplyStepShape DEF SafetyInv
<1>2. at \in ApplyPoints /\ effect = None /\ disk.phase \in ResumablePhases
  BY <1>1 DEF ApplyShape, SafetyInv, PlaceInv
<1>3. ASSUME NEW s, NEW l, ApplyPersists(s, l)
      PROVE  SafetyInv'
  <2>1. /\ s \in Ec2State /\ s.phase \in ResumablePhases
        /\ disk' = s /\ at' = l /\ l \in ApplyPoints
        /\ UNCHANGED <<files, cloud, host, holder, effect, ran, admitted, faults, edits>>
    BY <1>2, <1>3 DEF ApplyPersists, ApplyWrites, Persist, world, environment
  <2>2. TypeOK'
    BY <2>1, Tables DEF SafetyInv, TypeOK
  <2>3. LockInv' /\ MarkerInv'
    BY <1>2, <2>1, Tables DEF SafetyInv, LockInv, MarkerInv
  <2>4. PlaceInv'
    BY <1>2, <2>1, Tables, PhaseTables DEF PlaceInv
  <2>5. EffectInv'
    BY <1>2, <2>1, EffectTables DEF EffectInv
  <2>6. PointInv'
    BY <1>3, <2>1, Tables DEF PointInv, ApplyPersists
  <2>7. VolumeDeletedOnlyByPurge'
    BY <1>2, <2>1, PhaseTables DEF SafetyInv, VolumeDeletedOnlyByPurge
  <2>8. RetainedBeforeTerminated' /\ OneAddress'
    BY <2>1 DEF SafetyInv, RetainedBeforeTerminated, OneAddress
  <2>9. NamedResourcesAreRecorded'
    BY <1>3, <2>1 DEF SafetyInv, NamedResourcesAreRecorded, ApplyPersists,
         ApplyWrites
  <2>. QED  BY <2>2, <2>3, <2>4, <2>5, <2>6, <2>7, <2>8, <2>9 DEF SafetyInv
<1>4. ASSUME NEW s, NEW e, NEW l, ApplyBegins(s, e, l)
      PROVE  SafetyInv'
  <2> DEFINE t == [s EXCEPT !.pending = e]
  <2>0. e \in Effects /\ e # None
    BY <1>4, EffectTables DEF ApplyBegins
  <2>1. /\ t \in Ec2State /\ t.phase \in ResumablePhases /\ t.pending = e
        /\ t.dns = s.dns /\ t.key = s.key /\ t.account = s.account
    BY <1>2, <1>4, <2>0 DEF ApplyBegins, ApplyWrites, Ec2State
  <2>2. /\ disk' = t /\ at' = l /\ effect' = e
        /\ l \in ApplyPoints /\ e \in ApplyEffects
        /\ UNCHANGED <<files, cloud, host, holder, ran, admitted, faults, edits>>
    BY <1>4 DEF ApplyBegins, BeforeEffect, world, environment
  <2> HIDE DEF t
  <2>3. TypeOK'
    BY <2>0, <2>1, <2>2, Tables DEF SafetyInv, TypeOK
  <2>4. LockInv' /\ MarkerInv'
    BY <1>2, <2>0, <2>1, <2>2, Tables DEF SafetyInv, LockInv, MarkerInv
  <2>5. PlaceInv'
    BY <2>1, <2>2, Tables, PhaseTables DEF PlaceInv
  <2>6. EffectInv'
    BY <1>4, <2>1, <2>2, EffectTables DEF EffectInv, ApplyBegins
  <2>7. PointInv'
    BY <1>4, <2>1, <2>2, Tables DEF PointInv, ApplyBegins
  <2>8. VolumeDeletedOnlyByPurge'
    BY <1>2, <2>1, <2>2, PhaseTables DEF SafetyInv, VolumeDeletedOnlyByPurge
  <2>9. RetainedBeforeTerminated' /\ OneAddress'
    BY <2>2 DEF SafetyInv, RetainedBeforeTerminated, OneAddress
  <2>10. NamedResourcesAreRecorded'
    BY <1>4, <2>1, <2>2 DEF SafetyInv, NamedResourcesAreRecorded, ApplyBegins,
         ApplyWrites
  <2>. QED  BY <2>3, <2>4, <2>5, <2>6, <2>7, <2>8, <2>9, <2>10 DEF SafetyInv
<1>5. ASSUME NEW s \in ApplyWrites, Return(s)
      PROVE  SafetyInv'
  <2>1. /\ s \in Ec2State /\ s.phase \in ResumablePhases
        /\ disk' = s /\ at' = "idle" /\ holder' = None
        /\ UNCHANGED <<files, cloud, host, effect, ran, admitted, faults, edits>>
    BY <1>2, <1>5 DEF ApplyWrites, Return, world, environment
  <2>2. TypeOK'
    BY <2>1, Tables DEF SafetyInv, TypeOK
  <2>3. LockInv' /\ MarkerInv'
    BY <1>2, <2>1, Tables DEF SafetyInv, LockInv, MarkerInv
  <2>4. PlaceInv'
    BY <1>2, <2>1, Tables, PhaseTables DEF PlaceInv
  <2>5. EffectInv'
    BY <1>2, <2>1, EffectTables DEF EffectInv
  <2>6. PointInv'
    BY <2>1 DEF PointInv
  <2>7. VolumeDeletedOnlyByPurge'
    BY <1>2, <2>1, PhaseTables DEF SafetyInv, VolumeDeletedOnlyByPurge
  <2>8. RetainedBeforeTerminated' /\ OneAddress'
    BY <2>1 DEF SafetyInv, RetainedBeforeTerminated, OneAddress
  <2>9. NamedResourcesAreRecorded'
    BY <1>5, <2>1 DEF SafetyInv, NamedResourcesAreRecorded, ApplyWrites
  <2>. QED  BY <2>2, <2>3, <2>4, <2>5, <2>6, <2>7, <2>8, <2>9 DEF SafetyInv
<1>. QED  BY <1>1, <1>3, <1>4, <1>5 DEF ApplyShape

-----------------------------------------------------------------------------
(* destroy preserves the invariant.                                        *)

\* A step of destroy preserves the invariant.
LEMMA DestroyKeepsInv ==
  ASSUME SafetyInv, DestroyStep
  PROVE  SafetyInv'
<1>1. DestroyShape
  BY DestroyStepShape DEF SafetyInv
<1>2. /\ at \in DestroyPoints /\ effect = None /\ disk.phase = "Destroying"
      /\ cloud.vol # "deleted"
  BY <1>1 DEF DestroyShape, SafetyInv, PlaceInv, VolumeDeletedOnlyByPurge
<1>3. ASSUME NEW s, NEW l, DestroyPersists(s, l)
      PROVE  SafetyInv'
  <2>1. /\ s \in Ec2State /\ s.phase = "Destroying"
        /\ disk' = s /\ at' = l
        /\ l \in DestroyPoints \ {"wait_dns_delete", "clear_dns", "clear_key"}
        /\ UNCHANGED <<files, cloud, host, holder, effect, ran, admitted, faults, edits>>
    BY <1>2, <1>3 DEF DestroyPersists, DestroyWrites, Persist, world,
         environment
  <2>2. TypeOK'
    BY <2>1, Tables DEF SafetyInv, TypeOK
  <2>3. LockInv' /\ MarkerInv'
    BY <1>2, <2>1, Tables DEF SafetyInv, LockInv, MarkerInv
  <2>4. PlaceInv'
    BY <1>2, <2>1, Tables DEF PlaceInv
  <2>5. EffectInv'
    BY <1>2, <2>1, EffectTables DEF EffectInv
  <2>6. PointInv'
    BY <2>1, Tables DEF PointInv
  <2>7. VolumeDeletedOnlyByPurge' /\ RetainedBeforeTerminated' /\ OneAddress'
    BY <1>2, <2>1 DEF SafetyInv, VolumeDeletedOnlyByPurge,
       RetainedBeforeTerminated, OneAddress
  <2>8. NamedResourcesAreRecorded'
    BY <1>3, <2>1 DEF NamedResourcesAreRecorded, DestroyPersists, DestroyWrites
  <2>. QED  BY <2>2, <2>3, <2>4, <2>5, <2>6, <2>7, <2>8 DEF SafetyInv
<1>4. ASSUME NEW s, NEW e, NEW l, DestroyBegins(s, e, l)
      PROVE  SafetyInv'
  <2> DEFINE t == [s EXCEPT !.pending = e]
  <2>0. e \in Effects /\ e # None
    BY <1>4, EffectTables DEF DestroyBegins
  <2>1. /\ t \in Ec2State /\ t.phase = "Destroying" /\ t.pending = e
        /\ t.dns = s.dns /\ t.key = s.key
    BY <1>2, <1>4, <2>0 DEF DestroyBegins, DestroyWrites, Ec2State
  <2>2. /\ disk' = t /\ at' = l /\ effect' = e
        /\ l \in DestroyPoints /\ e \in RemoveEffects
        /\ UNCHANGED <<files, cloud, host, holder, ran, admitted, faults, edits>>
    BY <1>4 DEF DestroyBegins, BeforeEffect, world, environment
  <2>3. ~ran
    BY <1>2 DEF SafetyInv, LockInv
  <2> HIDE DEF t
  <2>4. TypeOK'
    BY <2>0, <2>1, <2>2, Tables DEF SafetyInv, TypeOK
  <2>5. LockInv' /\ MarkerInv'
    BY <1>2, <2>0, <2>1, <2>2, Tables DEF SafetyInv, LockInv, MarkerInv
  <2>6. PlaceInv'
    BY <2>1, <2>2, Tables DEF PlaceInv
  <2>7. EffectInv'
    BY <1>4, <2>1, <2>2, EffectTables DEF EffectInv, DestroyBegins
  <2>8. PointInv'
    BY <1>4, <2>2, <2>3, Tables DEF PointInv, DestroyBegins
  <2>9. VolumeDeletedOnlyByPurge' /\ RetainedBeforeTerminated' /\ OneAddress'
    BY <1>2, <2>1, <2>2 DEF SafetyInv, VolumeDeletedOnlyByPurge,
       RetainedBeforeTerminated, OneAddress
  <2>10. NamedResourcesAreRecorded'
    BY <1>4, <2>1, <2>2 DEF NamedResourcesAreRecorded, DestroyBegins,
         DestroyWrites
  <2>. QED  BY <2>4, <2>5, <2>6, <2>7, <2>8, <2>9, <2>10 DEF SafetyInv
<1>5. ASSUME NEW s \in DestroyWrites, Return(s),
             s = disk \/ s.phase = "InfrastructureRemovedVolumeRetained"
      PROVE  SafetyInv'
  <2>1. /\ s \in Ec2State
        /\ s.phase \in {"Destroying", "InfrastructureRemovedVolumeRetained"}
        /\ disk' = s /\ at' = "idle" /\ holder' = None
        /\ UNCHANGED <<files, cloud, host, effect, ran, admitted, faults, edits>>
    BY <1>2, <1>5 DEF DestroyWrites, Return, world, environment
  <2>2. TypeOK'
    BY <2>1, Tables DEF SafetyInv, TypeOK
  <2>3. LockInv' /\ MarkerInv'
    BY <1>2, <2>1, Tables DEF SafetyInv, LockInv, MarkerInv
  <2>4. PlaceInv'
    BY <1>2, <2>1, Tables DEF PlaceInv
  <2>5. EffectInv'
    BY <1>2, <2>1, EffectTables DEF EffectInv
  <2>6. PointInv'
    BY <2>1 DEF PointInv
  <2>7. VolumeDeletedOnlyByPurge' /\ RetainedBeforeTerminated' /\ OneAddress'
    BY <1>2, <2>1 DEF SafetyInv, VolumeDeletedOnlyByPurge,
       RetainedBeforeTerminated, OneAddress
  <2>8. NamedResourcesAreRecorded'
    BY <1>5, <2>1 DEF NamedResourcesAreRecorded, DestroyWrites
  <2>. QED  BY <2>2, <2>3, <2>4, <2>5, <2>6, <2>7, <2>8 DEF SafetyInv
<1>6. CASE DestroyUnlinks
  <2>1. /\ at' \in DestroyPoints \ {"wait_dns_delete", "clear_dns", "clear_key"}
        /\ files' \in {"none", "private", "both", "public"}
        /\ UNCHANGED <<disk, cloud, host, holder, effect, ran, admitted, faults, edits>>
    BY <1>6 DEF DestroyUnlinks, DestroyPoints, environment
  <2>2. TypeOK'
    BY <2>1, Tables DEF SafetyInv, TypeOK
  <2>3. LockInv' /\ MarkerInv' /\ EffectInv'
    BY <1>2, <2>1, Tables DEF SafetyInv, LockInv, MarkerInv, EffectInv
  <2>4. PlaceInv' /\ PointInv'
    BY <1>2, <2>1, Tables DEF PlaceInv, PointInv
  <2>5. /\ VolumeDeletedOnlyByPurge' /\ RetainedBeforeTerminated' /\ OneAddress'
        /\ NamedResourcesAreRecorded'
    BY <2>1 DEF SafetyInv, VolumeDeletedOnlyByPurge,
       RetainedBeforeTerminated, OneAddress, NamedResourcesAreRecorded
  <2>. QED  BY <2>2, <2>3, <2>4, <2>5 DEF SafetyInv
<1>. QED  BY <1>1, <1>3, <1>4, <1>5, <1>6 DEF DestroyShape

-----------------------------------------------------------------------------
(* Effects preserve the invariant.                                         *)

\* An effect in progress belongs to the operation that holds the lock.
LEMMA EffectPlace ==
  ASSUME SafetyInv
  PROVE  /\ effect \in CreateEffects =>
               at \in ApplyPoints /\ disk.phase \in ResumablePhases
         /\ effect \in DestroyEffects =>
               at \in DestroyPoints /\ disk.phase = "Destroying"
         /\ effect = PurgeEffect =>
               /\ at = "record_purge"
               /\ disk.phase = "InfrastructureRemovedVolumeRetained"
               /\ disk.pending = PurgeEffect
<1>1. at \in Points /\ effect \in Effects \cup {None}
  BY DEF SafetyInv, TypeOK
<1>2. \/ at \in ApplyPoints \/ at \in DestroyPoints
      \/ at \in {"idle", "verify_command", "purge_volume", "record_purge"}
  BY <1>1 DEF Points
<1>3. effect # None => disk.pending = effect
  BY DEF SafetyInv, MarkerInv
<1>. QED  BY <1>1, <1>2, <1>3, EffectTables, Tables DEF SafetyInv, PlaceInv,
     LockInv

\* An AWS command leaves the cloud well typed.
LEMMA CloudType ==
  ASSUME TypeOK, AwsCreates \/ AwsDestroys
  PROVE  cloud' \in Cloud
<1>1. cloud \in Cloud /\ disk.eip \in EipIds \cup {None}
  BY DEF TypeOK, Ec2State
<1>2. /\ \A k \in {"none", "owned"} : [cloud EXCEPT !.key = k] \in Cloud
      /\ \A g \in {"none", "closed", "open"} : [cloud EXCEPT !.sg = g] \in Cloud
      /\ \A v \in {"retained", "deleted"} : [cloud EXCEPT !.vol = v] \in Cloud
      /\ \A d \in {"none", "owned"} : [cloud EXCEPT !.dns = d] \in Cloud
  BY <1>1 DEF Cloud
<1>3. /\ [cloud EXCEPT !.inst = "running", !.vol = "live"] \in Cloud
      /\ [cloud EXCEPT !.inst = "terminated", !.assoc = None] \in Cloud
      /\ \A i \in EipIds \cup {None} : [cloud EXCEPT !.assoc = i] \in Cloud
  BY <1>1 DEF Cloud
<1>4. /\ \A i \in EipIds : [cloud EXCEPT !.eips = @ \cup {i}] \in Cloud
      /\ [cloud EXCEPT !.eips = @ \ {disk.eip}] \in Cloud
  BY <1>1 DEF Cloud
<1>5. cloud.eips \subseteq EipIds
  BY <1>1 DEF Cloud
<1>6. CASE AwsCreates
  BY <1>2, <1>3, <1>4, <1>5, <1>6 DEF AwsCreates
<1>7. CASE AwsDestroys
  BY <1>2, <1>3, <1>4, <1>7 DEF AwsDestroys
<1>. QED  BY <1>6, <1>7

\* A command on the instance leaves its file system well typed.
LEMMA HostType ==
  ASSUME TypeOK, HostRuns
  PROVE  host' \in Host
<1>1. host \in Host
  BY DEF TypeOK
<1>2. \A f \in {"helpers", "installed", "provisioned"} :
          [host EXCEPT !.done = @ \cup {f}] \in Host
  BY <1>1 DEF Host
<1>3. \A r \in {"ubuntu", "root", "root400"} :
          [host EXCEPT !.request = r] \in Host
  BY <1>1 DEF Host
<1>4. [host EXCEPT !.done = @ \cup {"installed"}, !.inputs = "absent"] \in Host
  BY <1>1 DEF Host
<1>. QED  BY <1>2, <1>3, <1>4 DEF HostRuns

\* What the two groups of AWS commands change.
LEMMA CreatesFacts ==
  ASSUME TypeOK, AwsCreates
  PROVE  /\ effect \in CreateEffects
         /\ cloud'.vol \in {cloud.vol, "live"}
         /\ cloud'.inst = cloud.inst \/ cloud'.inst = "running"
         /\ cloud'.vol # cloud.vol => cloud'.inst = "running"
         /\ cloud'.dns # cloud.dns => effect = "create-owned-dns-record"
         /\ cloud'.key # cloud.key => effect = "import-owned-key-pair"
         /\ \/ cloud'.eips = cloud.eips
            \/ /\ effect = "allocate-owned-eip"
               /\ \E i \in EipIds : cloud'.eips = cloud.eips \cup {i}
<1>1. cloud \in Cloud
  BY DEF TypeOK
<1>2. effect \in CreateEffects
  BY DEF AwsCreates, CreateEffects
<1>3. CASE effect = "allocate-owned-eip"
  <2>1. PICK i \in EipIds : cloud' = [cloud EXCEPT !.eips = @ \cup {i}]
    BY <1>3 DEF AwsCreates
  <2>2. /\ cloud'.eips = cloud.eips \cup {i} /\ cloud'.vol = cloud.vol
        /\ cloud'.inst = cloud.inst /\ cloud'.dns = cloud.dns
        /\ cloud'.key = cloud.key
    BY <1>1, <2>1 DEF Cloud
  <2>. QED  BY <1>2, <1>3, <2>2
<1>4. CASE effect # "allocate-owned-eip"
  BY <1>1, <1>2, <1>4 DEF AwsCreates, Cloud
<1>. QED  BY <1>3, <1>4

\* What the removing commands leave alone.
LEMMA DestroysFacts ==
  ASSUME TypeOK, AwsDestroys
  PROVE  /\ effect \in DestroyEffects \cup {PurgeEffect}
         /\ \/ cloud'.vol = cloud.vol /\ effect # PurgeEffect
            \/ /\ effect = "tag-explicit-retained-volume"
               /\ cloud'.vol = "retained"
            \/ effect = PurgeEffect /\ cloud'.vol = "deleted"
         /\ \/ cloud'.inst = cloud.inst
            \/ /\ effect = "terminate-exact-owned-instance"
               /\ cloud'.inst = "terminated" /\ cloud'.vol = cloud.vol
         /\ effect = "terminate-exact-owned-instance" => cloud'.vol = cloud.vol
         /\ effect = PurgeEffect => cloud'.vol = "deleted"
         /\ cloud'.dns = cloud.dns \/ cloud'.dns = "none"
         /\ effect = "delete-exact-owned-dns-record" => cloud'.dns = "none"
         /\ cloud'.key = cloud.key \/ cloud'.key = "none"
         /\ effect = "delete-exact-owned-cloud-key" => cloud'.key = "none"
         /\ cloud'.sg = cloud.sg \/ cloud'.sg = "none"
         /\ cloud'.eips \subseteq cloud.eips
<1>1. cloud \in Cloud
  BY DEF TypeOK
<1>. QED  BY <1>1 DEF AwsDestroys, DestroyEffects, PurgeEffect, Cloud

\* The success of an external command preserves the invariant.
LEMMA RunEffectKeepsInv ==
  ASSUME SafetyInv, RunEffect
  PROVE  SafetyInv'
<1>1. /\ ~ran /\ ran' = TRUE
      /\ UNCHANGED <<disk, files, holder, at, effect, admitted, faults, edits>>
  BY DEF RunEffect, environment
<1>2. effect \in Effects /\ effect # None
  <2>1. AwsCreates \/ AwsDestroys \/ HostRuns \/ effect \in Waits
    BY DEF RunEffect
  <2>2. AwsCreates => effect \in CreateEffects
    BY CreatesFacts DEF SafetyInv
  <2>3. AwsDestroys => effect \in DestroyEffects \cup {PurgeEffect}
    BY DestroysFacts DEF SafetyInv
  <2>4. HostRuns => effect \in HostEffects
    BY DEF HostRuns, HostEffects
  <2>. QED  BY <2>1, <2>2, <2>3, <2>4, EffectTables DEF Effects
<1>3. /\ TypeOK /\ LockInv /\ MarkerInv /\ PlaceInv /\ EffectInv /\ PointInv
      /\ VolumeDeletedOnlyByPurge /\ RetainedBeforeTerminated
      /\ NamedResourcesAreRecorded /\ OneAddress
  BY DEF SafetyInv
<1>4. LockInv' /\ MarkerInv' /\ PlaceInv'
  BY <1>1, <1>2, <1>3 DEF LockInv, MarkerInv, PlaceInv
<1>5. TypeOK'
  <2>1. cloud' \in Cloud /\ host' \in Host
    BY <1>3, CloudType, HostType DEF RunEffect, TypeOK
  <2>. QED  BY <1>1, <1>3, <2>1 DEF TypeOK
<1>6. CASE AwsCreates
  <2>1. effect \in CreateEffects
    BY <1>3, <1>6, CreatesFacts
  <2>2. at \in ApplyPoints /\ disk.phase \in ResumablePhases
    BY <2>1, EffectPlace
  <2>3. EffectInv'
    BY <1>1, <1>3, <1>6, <2>1, EffectTables, CreatesFacts DEF EffectInv
  <2>4. PointInv'
    BY <1>1, <1>3, <2>2, Tables DEF PointInv
  <2>5. VolumeDeletedOnlyByPurge' /\ RetainedBeforeTerminated'
    BY <1>1, <1>3, <1>6, <2>2, CreatesFacts, PhaseTables
       DEF VolumeDeletedOnlyByPurge, RetainedBeforeTerminated
  <2>6. NamedResourcesAreRecorded'
    BY <1>1, <1>3, <1>6, CreatesFacts DEF NamedResourcesAreRecorded, EffectInv
  <2>7. OneAddress'
    BY <1>1, <1>3, <1>6, CreatesFacts DEF OneAddress, EffectInv
  <2>. QED  BY <1>4, <1>5, <2>3, <2>4, <2>5, <2>6, <2>7 DEF SafetyInv
<1>7. CASE AwsDestroys
  <2>1. effect \in DestroyEffects \cup {PurgeEffect}
    BY <1>3, <1>7, DestroysFacts
  <2>2. EffectInv'
    BY <1>1, <1>3, <1>7, <2>1, EffectTables, DestroysFacts DEF EffectInv
  <2>3. PointInv'
    <3>1. at # "create_dns" /\ at # "import_key"
      BY <2>1, EffectPlace, Tables
    <3>. QED  BY <1>1, <1>3, <1>7, <3>1, DestroysFacts DEF PointInv
  <2>4. VolumeDeletedOnlyByPurge'
    BY <1>1, <1>3, <1>7, <2>1, DestroysFacts, EffectPlace, EffectTables
       DEF VolumeDeletedOnlyByPurge
  <2>5. RetainedBeforeTerminated'
    BY <1>1, <1>3, <1>7, DestroysFacts DEF RetainedBeforeTerminated, EffectInv
  <2>6. NamedResourcesAreRecorded' /\ OneAddress'
    BY <1>1, <1>3, <1>7, DestroysFacts DEF NamedResourcesAreRecorded,
         OneAddress
  <2>. QED  BY <1>4, <1>5, <2>2, <2>3, <2>4, <2>5, <2>6 DEF SafetyInv
<1>8. CASE UNCHANGED cloud /\ effect \in HostEffects \cup Waits
  <2>1. effect \notin CreateEffects \cup DestroyEffects \cup {PurgeEffect}
    BY <1>8 DEF HostEffects, Waits, CreateEffects, DestroyEffects, PurgeEffect
  <2>2. EffectInv' /\ PointInv'
    BY <1>1, <1>3, <1>8, <2>1, EffectTables DEF EffectInv, PointInv
  <2>3. /\ VolumeDeletedOnlyByPurge' /\ RetainedBeforeTerminated'
        /\ NamedResourcesAreRecorded' /\ OneAddress'
    BY <1>1, <1>3, <1>8 DEF VolumeDeletedOnlyByPurge, RetainedBeforeTerminated,
       NamedResourcesAreRecorded, OneAddress
  <2>. QED  BY <1>4, <1>5, <2>2, <2>3 DEF SafetyInv
<1>9. HostRuns => effect \in HostEffects
  BY DEF HostRuns, HostEffects
<1>. QED  BY <1>6, <1>7, <1>8, <1>9 DEF RunEffect

\* Everything but the cloud's contents is as before, or the operation is over.
LEMMA StopKeepsInv ==
  ASSUME SafetyInv, Stop, faults' \in 0..MaxFaults
  PROVE  SafetyInv'
<1>1. /\ holder' = None /\ at' = "idle" /\ effect' = None /\ ran' = FALSE
      /\ UNCHANGED <<disk, files, cloud, host, admitted, edits>>
  BY DEF Stop, world
<1>2. TypeOK'
  BY <1>1, Tables DEF SafetyInv, TypeOK
<1>3. LockInv' /\ MarkerInv' /\ PointInv'
  BY <1>1 DEF LockInv, MarkerInv, PointInv
<1>4. PlaceInv'
  BY <1>1, Tables DEF SafetyInv, PlaceInv
<1>5. EffectInv'
  BY <1>1, EffectTables DEF EffectInv
<1>6. /\ VolumeDeletedOnlyByPurge' /\ RetainedBeforeTerminated'
      /\ NamedResourcesAreRecorded' /\ OneAddress'
  BY <1>1 DEF SafetyInv, VolumeDeletedOnlyByPurge, RetainedBeforeTerminated,
     NamedResourcesAreRecorded, OneAddress
<1>. QED  BY <1>2, <1>3, <1>4, <1>5, <1>6 DEF SafetyInv

\* Every outcome of run_effect preserves the invariant.
LEMMA EffectStepKeepsInv ==
  ASSUME SafetyInv, EffectStep
  PROVE  SafetyInv'
<1>1. CASE RunEffect
  BY <1>1, RunEffectKeepsInv
<1>2. CASE RunKeygen
  <2>1. /\ effect = "generate-local-ed25519-key" /\ ~ran
        /\ files' \in {"private", "both"} /\ ran' \in BOOLEAN
        /\ UNCHANGED <<disk, cloud, host, holder, at, effect, admitted, faults, edits>>
    BY <1>2 DEF RunKeygen, environment
  <2>2. /\ effect \in LocalEffects /\ effect # None
        /\ effect \notin CreateEffects \cup DestroyEffects \cup {PurgeEffect}
    BY <2>1, ConstantsAssumption DEF LocalEffects, CreateEffects,
         DestroyEffects,
       PurgeEffect, Effects
  <2>3. TypeOK'
    BY <2>1 DEF SafetyInv, TypeOK
  <2>4. LockInv' /\ MarkerInv' /\ PlaceInv'
    BY <2>1, <2>2 DEF SafetyInv, LockInv, MarkerInv, PlaceInv
  <2>5. EffectInv' /\ PointInv'
    BY <2>1, <2>2, EffectTables DEF SafetyInv, EffectInv, PointInv
  <2>6. /\ VolumeDeletedOnlyByPurge' /\ RetainedBeforeTerminated'
        /\ NamedResourcesAreRecorded' /\ OneAddress'
    BY <2>1 DEF SafetyInv, VolumeDeletedOnlyByPurge, RetainedBeforeTerminated,
       NamedResourcesAreRecorded, OneAddress
  <2>. QED  BY <2>3, <2>4, <2>5, <2>6 DEF SafetyInv
<1>3. CASE Fails
  <2>1. Stop /\ faults' \in 0..MaxFaults
    BY <1>3 DEF Fails, SafetyInv, TypeOK
  <2>. QED  BY <2>1, StopKeepsInv
<1>4. CASE AfterEffect
  <2> DEFINE t == [disk EXCEPT !.pending = None]
  <2>1. /\ effect # None /\ ran /\ effect # PurgeEffect
        /\ disk' = t /\ effect' = None /\ ran' = FALSE
        /\ UNCHANGED <<files, cloud, host, holder, at, admitted, faults, edits>>
    BY <1>4 DEF AfterEffect, world, environment
  <2>2. /\ t \in Ec2State /\ t.phase = disk.phase /\ t.account = disk.account
        /\ t.dns = disk.dns /\ t.key = disk.key
    BY DEF SafetyInv, TypeOK, Ec2State
  <2> HIDE DEF t
  <2>3. at # "record_purge" /\ at # "purge_volume" /\ at # "idle" /\ at # "verify_command"
    BY <2>1 DEF SafetyInv, PlaceInv, LockInv
  <2>4. at \in ApplyPoints \cup DestroyPoints
    BY <2>3 DEF SafetyInv, TypeOK, Points
  <2>5. disk.phase \in ResumablePhases \/ disk.phase = "Destroying"
    BY <2>4 DEF SafetyInv, PlaceInv
  <2>6. TypeOK'
    BY <2>1, <2>2 DEF SafetyInv, TypeOK
  <2>7. LockInv' /\ MarkerInv' /\ PlaceInv'
    BY <2>1, <2>2, <2>3 DEF SafetyInv, LockInv, MarkerInv, PlaceInv
  <2>8. EffectInv' /\ PointInv'
    BY <2>1, <2>2, EffectTables DEF SafetyInv, EffectInv, PointInv
  <2>9. /\ VolumeDeletedOnlyByPurge' /\ RetainedBeforeTerminated'
        /\ NamedResourcesAreRecorded' /\ OneAddress'
    BY <2>1, <2>2, <2>5, PhaseTables DEF SafetyInv, VolumeDeletedOnlyByPurge,
       RetainedBeforeTerminated, NamedResourcesAreRecorded, OneAddress
  <2>. QED  BY <2>6, <2>7, <2>8, <2>9 DEF SafetyInv
<1>5. CASE StageInputs
  <2>1. /\ effect = "stage-exact-install-inputs" /\ ~ran
        /\ host' \in Host /\ ran' \in BOOLEAN
        /\ UNCHANGED <<disk, files, cloud, holder, at, effect, admitted, faults, edits>>
    BY <1>5 DEF StageInputs, SafetyInv, TypeOK, Host, environment
  <2>2. /\ effect \in HostEffects /\ effect # None
        /\ effect \notin CreateEffects \cup DestroyEffects \cup {PurgeEffect}
    BY <2>1, ConstantsAssumption DEF HostEffects, CreateEffects, DestroyEffects,
       PurgeEffect, Effects
  <2>3. TypeOK'
    BY <2>1 DEF SafetyInv, TypeOK
  <2>4. LockInv' /\ MarkerInv' /\ PlaceInv'
    BY <2>1, <2>2 DEF SafetyInv, LockInv, MarkerInv, PlaceInv
  <2>5. EffectInv' /\ PointInv'
    BY <2>1, <2>2, EffectTables DEF SafetyInv, EffectInv, PointInv
  <2>6. /\ VolumeDeletedOnlyByPurge' /\ RetainedBeforeTerminated'
        /\ NamedResourcesAreRecorded' /\ OneAddress'
    BY <2>1 DEF SafetyInv, VolumeDeletedOnlyByPurge, RetainedBeforeTerminated,
       NamedResourcesAreRecorded, OneAddress
  <2>. QED  BY <2>3, <2>4, <2>5, <2>6 DEF SafetyInv
<1>. QED  BY <1>1, <1>2, <1>3, <1>4, <1>5 DEF EffectStep

-----------------------------------------------------------------------------
(* The other actions, and the theorem.                                     *)

\* An operation starts, with its phase persisted.
LEMMA StartKeepsInv ==
  ASSUME SafetyInv, NEW p \in Procs, NEW s \in Ec2State,
         NEW l \in {"bind_account", "verify_command", "destroy_dns", "purge_volume"},
         Start(p, s, l),
         l \in {"bind_account", "verify_command"} => s.phase \in ResumablePhases,
         l = "destroy_dns" => s.phase = "Destroying",
         l = "purge_volume" =>
             s = disk /\ s.phase = "InfrastructureRemovedVolumeRetained",
         s = disk \/ disk.phase \notin RemovedPhases,
         s.dns = disk.dns \/ cloud.dns # "owned",
         s.key = disk.key \/ cloud.key # "owned"
  PROVE  SafetyInv'
<1>1. /\ holder = None /\ holder' = p /\ disk' = s /\ at' = l
      /\ admitted' \in SUBSET Procs
      /\ UNCHANGED <<files, cloud, host, effect, ran, faults, edits>>
  BY DEF Start, SafetyInv, TypeOK, world
<1>2. at = "idle" /\ effect = None /\ ~ran
  BY <1>1 DEF SafetyInv, LockInv
<1>3. l \in Points /\ l # "idle" /\ l # "record_purge"
      /\ "bind_account" \in ApplyPoints /\ "destroy_dns" \in DestroyPoints
      /\ "bind_account" \notin DestroyPoints /\ "destroy_dns" \notin ApplyPoints
      /\ "verify_command" \notin ApplyPoints \cup DestroyPoints
      /\ "purge_volume" \notin ApplyPoints \cup DestroyPoints
  BY DEF Points, ApplyPoints, DestroyPoints
<1>4. p # None
  BY ConstantsAssumption
<1>5. TypeOK'
  BY <1>1, <1>3 DEF SafetyInv, TypeOK
<1>6. LockInv' /\ MarkerInv'
  BY <1>1, <1>2, <1>3, <1>4 DEF LockInv, MarkerInv
<1>7. PlaceInv'
  BY <1>1, <1>2, <1>3, PhaseTables DEF PlaceInv
<1>8. EffectInv'
  BY <1>1, <1>2, EffectTables DEF EffectInv
<1>9. PointInv'
  BY <1>1 DEF PointInv
<1>10. VolumeDeletedOnlyByPurge'
  <2>1. CASE s = disk
    BY <1>1, <2>1 DEF SafetyInv, VolumeDeletedOnlyByPurge
  <2>2. CASE s # disk
    <3>1. cloud.vol # "deleted"
      BY <2>2, PhaseTables DEF SafetyInv, VolumeDeletedOnlyByPurge
    <3>2. s.phase \in ResumablePhases \cup {"Destroying"}
      BY <2>2
    <3>. QED  BY <1>1, <3>1, <3>2, PhaseTables DEF VolumeDeletedOnlyByPurge
  <2>. QED  BY <2>1, <2>2
<1>11. RetainedBeforeTerminated' /\ OneAddress' /\ NamedResourcesAreRecorded'
  BY <1>1 DEF SafetyInv, RetainedBeforeTerminated, OneAddress,
     NamedResourcesAreRecorded
<1>. QED  BY <1>5, <1>6, <1>7, <1>8, <1>9, <1>10, <1>11 DEF SafetyInv

\* The entry of apply, verify, destroy and purge preserves the invariant.
LEMMA CallsKeepInv ==
  ASSUME SafetyInv,
         \/ ApplyCall \/ DestroyCall \/ PurgeCall
         \/ \E p \in Procs : Verify(p)
  PROVE  SafetyInv'
<1>1. disk \in Ec2State
  BY DEF SafetyInv, TypeOK
<1>2. ASSUME NEW p \in Procs, Apply(p)
      PROVE  SafetyInv'
  <2>1. NewState("Planned") \in Ec2State
        /\ NewState("Planned").phase \in ResumablePhases
    BY DEF NewState, Ec2State, Phases, ResumablePhases
  <2>2. disk.phase = "Absent" => disk.phase \notin RemovedPhases
    BY DEF RemovedPhases
  <2>3. disk.phase = "Absent" => cloud.dns # "owned" /\ cloud.key # "owned"
    BY DEF SafetyInv, PlaceInv, NamedResourcesAreRecorded
  <2>. QED  BY <1>1, <1>2, <2>1, <2>2, <2>3, StartKeepsInv, PhaseTables DEF
       Apply
<1>3. ASSUME NEW p \in Procs, Verify(p)
      PROVE  SafetyInv'
  <2>1. {"Installed", "Verified"} \subseteq ResumablePhases
    BY DEF ResumablePhases
  <2>. QED  BY <1>1, <1>3, <2>1, StartKeepsInv DEF Verify
<1>4. ASSUME NEW p \in Procs, NEW caller \in Accounts, Destroy(p, caller)
      PROVE  SafetyInv'
  <2> DEFINE s == [disk EXCEPT !.phase = "Destroying"]
  <2>1. /\ s \in Ec2State /\ s.phase = "Destroying"
        /\ s.dns = disk.dns /\ s.key = disk.key
    BY <1>1 DEF Ec2State, Phases, DestroyPhases
  <2>2. disk.phase \notin RemovedPhases /\ Start(p, s, "destroy_dns")
    BY <1>4 DEF Destroy
  <2> HIDE DEF s
  <2>. QED  BY <2>1, <2>2, StartKeepsInv
<1>5. ASSUME NEW p \in Procs, NEW caller \in Accounts, Purge(p, caller)
      PROVE  SafetyInv'
  BY <1>1, <1>5, StartKeepsInv DEF Purge
<1>. QED  BY <1>2, <1>3, <1>4, <1>5 DEF ApplyCall, DestroyCall, PurgeCall

\* Before the first apply there is no state file and nothing is owned.
LEMMA InitInv == Init => SafetyInv
<1> SUFFICES ASSUME Init PROVE SafetyInv
  OBVIOUS
<1>1. disk \in Ec2State /\ disk.phase = "Absent" /\ disk.account = None
      /\ disk.dns = "none" /\ disk.key = "none"
  BY DEF Init, NewState, Ec2State, Phases
<1>2. /\ cloud \in Cloud /\ cloud.vol = "none" /\ cloud.inst = "none"
      /\ cloud.eips = {} /\ cloud.dns # "owned" /\ cloud.key # "owned"
  BY DEF Init, Cloud
<1>3. host \in Host
  BY DEF Init, Host
<1>4. /\ files = "none" /\ holder = None /\ at = "idle" /\ effect = None
      /\ ran = FALSE /\ admitted = {} /\ faults = 0 /\ edits = 0
  BY DEF Init
<1>5. TypeOK
  <2>1. faults \in 0..MaxFaults /\ edits \in 0..MaxZoneEdits
    BY <1>4, ConstantsAssumption
  <2>. QED  BY <1>1, <1>2, <1>3, <1>4, <2>1, Tables DEF TypeOK
<1>6. LockInv /\ MarkerInv
  BY <1>4 DEF LockInv, MarkerInv
<1>7. PlaceInv
  BY <1>1, <1>4, Tables DEF PlaceInv
<1>8. EffectInv /\ PointInv
  BY <1>4, EffectTables DEF EffectInv, PointInv
<1>9. /\ VolumeDeletedOnlyByPurge /\ RetainedBeforeTerminated
      /\ NamedResourcesAreRecorded /\ OneAddress
  BY <1>1, <1>2 DEF VolumeDeletedOnlyByPurge, RetainedBeforeTerminated,
     NamedResourcesAreRecorded, OneAddress
<1>. QED  BY <1>5, <1>6, <1>7, <1>8, <1>9 DEF SafetyInv

\* Return with an unchanged or verified state, outside apply and destroy.
LEMMA CommandsKeepInv ==
  ASSUME SafetyInv, VerifyCommand \/ PurgeVolume \/ RecordPurge
  PROVE  SafetyInv'
<1>1. disk \in Ec2State
  BY DEF SafetyInv, TypeOK
<1>2. ASSUME NEW s \in Ec2State, Return(s), effect = None,
             s = disk \/ (s.phase = "VolumePurged" /\ cloud.vol = "deleted")
                 \/ (s.phase = "Verified" /\ disk.phase \in ResumablePhases),
             s.dns = disk.dns, s.key = disk.key
      PROVE  SafetyInv'
  <2>1. /\ disk' = s /\ at' = "idle" /\ holder' = None
        /\ UNCHANGED <<files, cloud, host, effect, ran, admitted, faults, edits>>
    BY <1>2 DEF Return, world, environment
  <2>2. TypeOK'
    BY <1>2, <2>1, Tables DEF SafetyInv, TypeOK
  <2>3. LockInv' /\ MarkerInv'
    BY <1>2, <2>1 DEF SafetyInv, LockInv, MarkerInv
  <2>4. PlaceInv'
    BY <1>2, <2>1, Tables DEF SafetyInv, PlaceInv
  <2>5. EffectInv' /\ PointInv'
    BY <1>2, <2>1, EffectTables DEF EffectInv, PointInv
  <2>6. VolumeDeletedOnlyByPurge'
    BY <1>2, <2>1, PhaseTables DEF SafetyInv, VolumeDeletedOnlyByPurge
  <2>7. RetainedBeforeTerminated' /\ OneAddress' /\ NamedResourcesAreRecorded'
    BY <1>2, <2>1 DEF SafetyInv, RetainedBeforeTerminated, OneAddress,
       NamedResourcesAreRecorded
  <2>. QED  BY <2>2, <2>3, <2>4, <2>5, <2>6, <2>7 DEF SafetyInv
<1>3. CASE VerifyCommand
  <2> DEFINE s == [disk EXCEPT !.phase = "Verified"]
  <2>1. /\ s \in Ec2State /\ s.phase = "Verified"
        /\ s.dns = disk.dns /\ s.key = disk.key
    BY <1>1 DEF Ec2State, Phases, ResumablePhases
  <2>2. effect = None /\ disk.phase \in ResumablePhases /\ (Return(disk) \/ Return(s))
    BY <1>3 DEF VerifyCommand, At, Refuse, SafetyInv, PlaceInv
  <2> HIDE DEF s
  <2>. QED  BY <1>1, <1>2, <2>1, <2>2
<1>4. /\ Purged(disk) \in Ec2State /\ Purged(disk).phase = "VolumePurged"
      /\ Purged(disk).dns = disk.dns /\ Purged(disk).key = disk.key
  BY <1>1 DEF Purged, Ec2State, Fields, Phases, DestroyPhases, RemovedPhases
<1>5. CASE PurgeVolume
  <2>1. /\ at = "purge_volume" /\ effect = None
        /\ disk.phase = "InfrastructureRemovedVolumeRetained"
    BY <1>5 DEF PurgeVolume, At, SafetyInv, PlaceInv
  <2>2. CASE Return(disk)
    BY <1>1, <1>2, <2>1, <2>2
  <2>3. CASE Return(Purged(disk)) /\ cloud.vol = "deleted"
    BY <1>2, <1>4, <2>1, <2>3
  <2>4. CASE BeforeEffect(disk, PurgeEffect, "record_purge") /\ cloud.vol = "retained"
    <3> DEFINE t == [disk EXCEPT !.pending = PurgeEffect]
    <3>1. /\ t \in Ec2State /\ t.phase = disk.phase /\ t.pending = PurgeEffect
          /\ t.dns = disk.dns /\ t.key = disk.key
      BY <1>1, EffectTables DEF Ec2State
    <3>2. /\ disk' = t /\ at' = "record_purge" /\ effect' = PurgeEffect
          /\ UNCHANGED <<files, cloud, host, holder, ran, admitted, faults, edits>>
      BY <2>4 DEF BeforeEffect, world, environment
    <3>3. ~ran /\ holder # None
      BY <2>1 DEF SafetyInv, LockInv
    <3> HIDE DEF t
    <3>4. TypeOK'
      BY <3>1, <3>2, Tables, EffectTables DEF SafetyInv, TypeOK
    <3>5. LockInv' /\ MarkerInv'
      BY <3>1, <3>2, <3>3, EffectTables DEF LockInv, MarkerInv
    <3>6. PlaceInv'
      BY <2>1, <3>1, <3>2, Tables DEF PlaceInv
    <3>7. EffectInv' /\ PointInv'
      BY <3>2, <3>3, EffectTables DEF EffectInv, PointInv
    <3>8. /\ VolumeDeletedOnlyByPurge' /\ RetainedBeforeTerminated'
          /\ NamedResourcesAreRecorded' /\ OneAddress'
      BY <2>1, <2>4, <3>1, <3>2 DEF SafetyInv, VolumeDeletedOnlyByPurge,
         RetainedBeforeTerminated, NamedResourcesAreRecorded, OneAddress
    <3>. QED  BY <3>4, <3>5, <3>6, <3>7, <3>8 DEF SafetyInv
  <2>. QED  BY <1>5, <2>2, <2>3, <2>4 DEF PurgeVolume, Refuse
<1>6. CASE RecordPurge
  <2>1. /\ effect = PurgeEffect /\ ran
        /\ disk' = Purged(disk) /\ at' = "idle" /\ holder' = None
        /\ effect' = None /\ ran' = FALSE
        /\ UNCHANGED <<files, cloud, host, admitted, faults, edits>>
    BY <1>6 DEF RecordPurge, world, environment
  <2>2. cloud.vol = "deleted"
    BY <2>1 DEF SafetyInv, EffectInv
  <2>3. TypeOK'
    BY <1>4, <2>1, Tables DEF SafetyInv, TypeOK
  <2>4. LockInv' /\ MarkerInv'
    BY <2>1 DEF LockInv, MarkerInv
  <2>5. PlaceInv'
    BY <1>4, <2>1, Tables DEF PlaceInv
  <2>6. EffectInv' /\ PointInv'
    BY <2>1, EffectTables DEF EffectInv, PointInv
  <2>7. /\ VolumeDeletedOnlyByPurge' /\ RetainedBeforeTerminated'
        /\ NamedResourcesAreRecorded' /\ OneAddress'
    BY <1>4, <2>1, <2>2 DEF SafetyInv, VolumeDeletedOnlyByPurge,
       RetainedBeforeTerminated, NamedResourcesAreRecorded, OneAddress
  <2>. QED  BY <2>3, <2>4, <2>5, <2>6, <2>7 DEF SafetyInv
<1>. QED  BY <1>3, <1>5, <1>6

\* The invariant is inductive.
LEMMA NextKeepsInv ==
  ASSUME SafetyInv, [Next]_vars
  PROVE  SafetyInv'
<1>1. CASE ApplyStep
  BY <1>1, ApplyKeepsInv
<1>2. CASE DestroyStep
  BY <1>2, DestroyKeepsInv
<1>3. CASE EffectStep
  BY <1>3, EffectStepKeepsInv
<1>4. CASE VerifyCommand \/ PurgeVolume \/ RecordPurge
  BY <1>4, CommandsKeepInv
<1>5. CASE ApplyCall \/ DestroyCall \/ PurgeCall \/ \E p \in Procs : Verify(p)
  BY <1>5, CallsKeepInv
<1>6. CASE Abort
  <2>1. Stop /\ faults' \in 0..MaxFaults
    BY <1>6, ConstantsAssumption DEF Abort, SafetyInv, TypeOK
  <2>. QED  BY <2>1, StopKeepsInv
<1>7. CASE ZoneEdit
  <2>1. PICK d \in {"none", "foreign"} : cloud' = [cloud EXCEPT !.dns = d]
    BY <1>7 DEF ZoneEdit
  <2>2. /\ cloud' \in Cloud /\ cloud'.dns # "owned" /\ cloud'.vol = cloud.vol
        /\ cloud'.inst = cloud.inst /\ cloud'.eips = cloud.eips
        /\ cloud'.key = cloud.key
    BY <2>1 DEF SafetyInv, TypeOK, Cloud
  <2>3. UNCHANGED <<disk, files, host, holder, at, effect, ran, admitted, faults>>
        /\ edits' \in 0..MaxZoneEdits
    BY <1>7, ConstantsAssumption DEF ZoneEdit, SafetyInv, TypeOK
  <2>4. TypeOK'
    BY <2>2, <2>3 DEF SafetyInv, TypeOK
  <2>5. LockInv' /\ MarkerInv' /\ PlaceInv'
    BY <2>3 DEF SafetyInv, LockInv, MarkerInv, PlaceInv
  <2>6. EffectInv' /\ PointInv'
    BY <2>2, <2>3 DEF SafetyInv, EffectInv, PointInv
  <2>7. /\ VolumeDeletedOnlyByPurge' /\ RetainedBeforeTerminated'
        /\ NamedResourcesAreRecorded' /\ OneAddress'
    BY <2>2, <2>3 DEF SafetyInv, VolumeDeletedOnlyByPurge,
       RetainedBeforeTerminated, NamedResourcesAreRecorded, OneAddress
  <2>. QED  BY <2>4, <2>5, <2>6, <2>7 DEF SafetyInv
<1>8. ASSUME NEW p \in Procs, Resume(p)
      PROVE  SafetyInv'
  <2>1. /\ UNCHANGED <<disk, files, cloud, host, holder, at, effect, ran, faults, edits>>
        /\ admitted' \in SUBSET Procs
    BY <1>8 DEF Resume, world, SafetyInv, TypeOK
  <2>2. TypeOK' /\ LockInv' /\ MarkerInv' /\ PlaceInv'
    BY <2>1 DEF SafetyInv, TypeOK, LockInv, MarkerInv, PlaceInv
  <2>3. /\ EffectInv' /\ PointInv' /\ VolumeDeletedOnlyByPurge'
        /\ RetainedBeforeTerminated' /\ NamedResourcesAreRecorded' /\ OneAddress'
    BY <2>1 DEF SafetyInv, EffectInv, PointInv, VolumeDeletedOnlyByPurge,
       RetainedBeforeTerminated, NamedResourcesAreRecorded, OneAddress
  <2>. QED  BY <2>2, <2>3 DEF SafetyInv
<1>9. CASE UNCHANGED vars
  <2>1. TypeOK' /\ LockInv' /\ MarkerInv' /\ PlaceInv'
    BY <1>9 DEF vars, SafetyInv, TypeOK, LockInv, MarkerInv, PlaceInv
  <2>2. /\ EffectInv' /\ PointInv' /\ VolumeDeletedOnlyByPurge'
        /\ RetainedBeforeTerminated' /\ NamedResourcesAreRecorded' /\ OneAddress'
    BY <1>9 DEF vars, SafetyInv, EffectInv, PointInv, VolumeDeletedOnlyByPurge,
       RetainedBeforeTerminated, NamedResourcesAreRecorded, OneAddress
  <2>. QED  BY <2>1, <2>2 DEF SafetyInv
<1>. QED
  BY <1>1, <1>2, <1>3, <1>4, <1>5, <1>6, <1>7, <1>8, <1>9
     DEF Next, Step, Finished

\* The inductive invariant holds in every reachable state.
THEOREM Safety == Spec => []SafetyInv
<1>1. Init => SafetyInv
  BY InitInv
<1>2. SafetyInv /\ [Next]_vars => SafetyInv'
  BY NextKeepsInv
<1>. QED  BY <1>1, <1>2, PTL DEF Spec

\* Type correctness of the state file, the cloud, the lock and the program
\* point, for every interleaving of the commands with crashes.
THEOREM TypeCorrect == Spec => []TypeOK
BY Safety, PTL DEF SafetyInv

\* retain_and_terminate_instance terminates the instance only after its volume
\* was tagged for retention, however often it is interrupted and repeated; and
\* destroy, apply and crashes never delete the volume: only the fenced branch
\* of destroy with purge_volume does, and the state file says so.
THEOREM VolumeSafety == Spec => []VolumeIsKept
<1>1. SafetyInv => VolumeIsKept
  BY DEF SafetyInv, VolumeIsKept
<1>. QED  BY <1>1, Safety, PTL

\* The DNS record (ensure_dns) and the cloud key (ensure_key) are in the state
\* file whenever they exist, so destroy_dns and destroy_cloud_key find them.
THEOREM RecordSafety == Spec => []NamedResourcesAreRecorded
BY Safety, PTL DEF SafetyInv

\* ensure_eip never allocates a second address, although allocate-address has
\* no idempotency token and its response may be lost.
THEOREM AddressSafety == Spec => []OneAddress
BY Safety, PTL DEF SafetyInv

-----------------------------------------------------------------------------
(* What a step may never do.                                               *)

\* Nothing brings a target back once destroy persisted its phase: not a resume
\* admitted before (workflow.rs 142-150), not a retry, not a crash.
THEOREM DestroyIsFinal == Spec => NoResurrection
<1> DEFINE NoLiving ==
       disk.phase \in DestroyPhases =>
          /\ disk'.phase \in DestroyPhases
          /\ disk.phase \in RemovedPhases => disk'.phase \in RemovedPhases
          /\ cloud'.eips \subseteq cloud.eips
          /\ cloud.inst # "running" => cloud'.inst # "running"
          /\ cloud.sg = "none" => cloud'.sg = "none"
          /\ cloud.key # "owned" => cloud'.key # "owned"
          /\ cloud.dns # "owned" => cloud'.dns # "owned"
<1>1. SafetyInv /\ [Next]_vars => NoLiving
  <2> SUFFICES ASSUME SafetyInv, [Next]_vars, disk.phase \in DestroyPhases
               PROVE  NoLiving
    OBVIOUS
  <2>0. disk.phase \notin ResumablePhases /\ disk.phase # "Absent"
    BY PhaseTables
  <2>1. CASE ApplyStep
    <3>1. at \in ApplyPoints
      BY <2>1, ApplyStepShape DEF ApplyShape, SafetyInv
    <3>. QED  BY <2>0, <3>1 DEF SafetyInv, PlaceInv
  <2>2. CASE DestroyStep
    <3>1. DestroyShape /\ disk.phase = "Destroying"
      BY <2>2, DestroyStepShape DEF SafetyInv, PlaceInv, DestroyShape
    <3>2. ASSUME NEW s, NEW l, DestroyPersists(s, l)
          PROVE  disk'.phase = "Destroying" /\ UNCHANGED cloud
      BY <3>1, <3>2 DEF DestroyPersists, Persist, world
    <3>3. ASSUME NEW s, NEW e, NEW l, DestroyBegins(s, e, l)
          PROVE  disk'.phase = "Destroying" /\ UNCHANGED cloud
      <4>1. [s EXCEPT !.pending = e].phase = s.phase
        BY <3>3 DEF DestroyBegins, DestroyWrites, Ec2State
      <4>. QED  BY <3>1, <3>3, <4>1 DEF DestroyBegins, BeforeEffect, world
    <3>4. ASSUME NEW s, Return(s),
                 s = disk \/ s.phase = "InfrastructureRemovedVolumeRetained"
          PROVE  /\ disk'.phase \in {"Destroying", "InfrastructureRemovedVolumeRetained"}
                 /\ UNCHANGED cloud
      BY <3>1, <3>4 DEF Return, world
    <3>5. DestroyUnlinks => disk'.phase = "Destroying" /\ UNCHANGED cloud
      BY <3>1 DEF DestroyUnlinks
    <3>6. /\ disk'.phase \in {"Destroying", "InfrastructureRemovedVolumeRetained"}
          /\ UNCHANGED cloud
      BY <3>1, <3>2, <3>3, <3>4, <3>5 DEF DestroyShape
    <3>. QED  BY <3>1, <3>6, PhaseTables
  <2>3. CASE RunEffect
    <3>1. UNCHANGED disk
      BY <2>3 DEF RunEffect
    <3>2. ~AwsCreates
      BY <2>0, CreatesFacts, EffectPlace DEF SafetyInv
    <3>3. AwsDestroys => cloud'.inst # "running" \/ cloud'.inst = cloud.inst
      BY DestroysFacts DEF SafetyInv
    <3>. QED  BY <2>3, <3>1, <3>2, <3>3, DestroysFacts DEF RunEffect, SafetyInv
  <2>4. CASE RunKeygen \/ StageInputs \/ Fails \/ Abort
    BY <2>4 DEF RunKeygen, StageInputs, Fails, Abort, Stop, world
  <2>5. CASE AfterEffect
    <3>1. [disk EXCEPT !.pending = None].phase = disk.phase
      BY DEF SafetyInv, TypeOK, Ec2State
    <3>. QED  BY <2>5, <3>1 DEF AfterEffect, world
  <2>6. CASE VerifyCommand
    BY <2>0, <2>6 DEF VerifyCommand, At, SafetyInv, PlaceInv
  <2>7. CASE PurgeVolume \/ RecordPurge
    <3>1. /\ Purged(disk).phase = "VolumePurged"
          /\ [disk EXCEPT !.pending = PurgeEffect].phase = disk.phase
      BY DEF Purged, SafetyInv, TypeOK, Ec2State
    <3>2. /\ disk'.phase \in {disk.phase, "VolumePurged"}
          /\ UNCHANGED cloud
      BY <2>7, <3>1 DEF PurgeVolume, RecordPurge, Refuse, Return, BeforeEffect,
           world
    <3>. QED  BY <3>2, PhaseTables
  <2>8. CASE ApplyCall \/ \E p \in Procs : Verify(p)
    <3>1. {"Installed", "Verified"} \subseteq ResumablePhases
      BY DEF ResumablePhases
    <3>. QED  BY <2>0, <2>8, <3>1 DEF ApplyCall, Apply, Verify
  <2>9. CASE DestroyCall
    <3>1. [disk EXCEPT !.phase = "Destroying"].phase = "Destroying"
      BY DEF SafetyInv, TypeOK, Ec2State
    <3>2. disk'.phase = "Destroying" /\ UNCHANGED cloud /\ disk.phase \notin RemovedPhases
      BY <2>9, <3>1 DEF DestroyCall, Destroy, Start, world
    <3>. QED  BY <3>2, PhaseTables
  <2>10. CASE PurgeCall \/ \E p \in Procs : Resume(p)
    BY <2>10 DEF PurgeCall, Purge, Start, Resume, world
  <2>11. CASE ZoneEdit
    <3>1. PICK d \in {"none", "foreign"} : cloud' = [cloud EXCEPT !.dns = d]
      BY <2>11 DEF ZoneEdit
    <3>2. /\ cloud'.dns # "owned" /\ cloud'.inst = cloud.inst /\ cloud'.sg = cloud.sg
          /\ cloud'.eips = cloud.eips /\ cloud'.key = cloud.key
      BY <3>1 DEF SafetyInv, TypeOK, Cloud
    <3>. QED  BY <2>11, <3>2 DEF ZoneEdit
  <2>12. CASE UNCHANGED vars
    BY <2>12 DEF vars
  <2>. QED
    BY <2>1, <2>2, <2>3, <2>4, <2>5, <2>6, <2>7, <2>8, <2>9, <2>10, <2>11,
         <2>12
       DEF Next, Step, EffectStep, Finished
<1>2. SafetyInv /\ [Next]_vars => [NoLiving]_vars
  BY <1>1
<1>. QED  BY <1>2, Safety, PTL DEF Spec, NoResurrection
\* bind_account pins the AWS account: no step changes a recorded one.
THEOREM AccountIsPinned == Spec => AccountPinned
<1> DEFINE Pinned == disk.account # None => disk'.account = disk.account
<1>1. SafetyInv /\ [Next]_vars => Pinned
  <2> SUFFICES ASSUME SafetyInv, [Next]_vars, disk.account # None
               PROVE  disk'.account = disk.account
    OBVIOUS
  <2>0. disk \in Ec2State /\ disk.phase # "Absent"
    BY DEF SafetyInv, TypeOK, PlaceInv
  <2>1. CASE ApplyStep
    <3>1. ApplyShape
      BY <2>1, ApplyStepShape DEF SafetyInv
    <3>2. ASSUME NEW s, NEW l, ApplyPersists(s, l)
          PROVE  disk'.account = disk.account
      BY <3>2 DEF ApplyPersists, ApplyWrites, Persist
    <3>3. ASSUME NEW s, NEW e, NEW l, ApplyBegins(s, e, l)
          PROVE  disk'.account = disk.account
      <4>1. [s EXCEPT !.pending = e].account = s.account
        BY <3>3 DEF ApplyBegins, ApplyWrites, Ec2State
      <4>. QED  BY <3>3, <4>1 DEF ApplyBegins, ApplyWrites, BeforeEffect
    <3>4. ASSUME NEW s \in ApplyWrites, Return(s)
          PROVE  disk'.account = disk.account
      BY <3>4 DEF ApplyWrites, Return
    <3>. QED  BY <3>1, <3>2, <3>3, <3>4 DEF ApplyShape
  <2>2. CASE DestroyStep
    <3>1. DestroyShape
      BY <2>2, DestroyStepShape DEF SafetyInv
    <3>2. ASSUME NEW s, NEW l, DestroyPersists(s, l)
          PROVE  disk'.account = disk.account
      BY <3>2 DEF DestroyPersists, DestroyWrites, Persist
    <3>3. ASSUME NEW s, NEW e, NEW l, DestroyBegins(s, e, l)
          PROVE  disk'.account = disk.account
      <4>1. [s EXCEPT !.pending = e].account = s.account
        BY <3>3 DEF DestroyBegins, DestroyWrites, Ec2State
      <4>. QED  BY <3>3, <4>1 DEF DestroyBegins, DestroyWrites, BeforeEffect
    <3>4. ASSUME NEW s \in DestroyWrites, Return(s)
          PROVE  disk'.account = disk.account
      BY <3>4 DEF DestroyWrites, Return
    <3>. QED  BY <3>1, <3>2, <3>3, <3>4 DEF DestroyShape, DestroyUnlinks
  <2>3. CASE EffectStep \/ Abort \/ ZoneEdit
    <3>1. [disk EXCEPT !.pending = None].account = disk.account
      BY <2>0 DEF Ec2State
    <3>. QED  BY <2>3, <3>1 DEF EffectStep, RunEffect, RunKeygen, StageInputs, Fails,
              AfterEffect, Abort, Stop, ZoneEdit
  <2>4. CASE VerifyCommand \/ PurgeVolume \/ RecordPurge
    <3>1. /\ Purged(disk).account = disk.account
          /\ [disk EXCEPT !.pending = PurgeEffect].account = disk.account
          /\ [disk EXCEPT !.phase = "Verified"].account = disk.account
      BY <2>0 DEF Purged, Ec2State
    <3>. QED  BY <2>4, <3>1 DEF VerifyCommand, PurgeVolume, RecordPurge,
              Refuse, Return, BeforeEffect
  <2>5. CASE ApplyCall \/ DestroyCall \/ PurgeCall
    <3>1. [disk EXCEPT !.phase = "Destroying"].account = disk.account
      BY <2>0 DEF Ec2State
    <3>. QED  BY <2>0, <2>5, <3>1 DEF ApplyCall, DestroyCall, PurgeCall,
              Apply, Destroy, Purge, Start
  <2>6. CASE \E p \in Procs : Resume(p) \/ Verify(p)
    BY <2>6 DEF Resume, Verify, Start
  <2>7. CASE UNCHANGED vars
    BY <2>7 DEF vars
  <2>. QED
    BY <2>1, <2>2, <2>3, <2>4, <2>5, <2>6, <2>7 DEF Next, Step, Finished
<1>2. SafetyInv /\ [Next]_vars => [Pinned]_vars
  BY <1>1
<1>. QED  BY <1>2, Safety, PTL DEF Spec, AccountPinned

-----------------------------------------------------------------------------
(* apply builds, destroy removes: what each point of them has reached.     *)

\* The points of apply that come after the key pair, the security group and the
\* instance, and those of destroy after the DNS record, the volume, the instance, the
\* security group and the key pair.
PastInstance ==
    {"wait_running", "wait_status_ok", "instance_ready", "ensure_eip",
     "check_eip", "record_eip", "ensure_dns", "create_dns", "record_change",
     "wait_dns", "dns_ready", "ensure_host_key", "ensure_host_helpers",
     "install_initial", "run_installer", "record_install", "provision_initial",
     "inspect_request", "own_request", "mode_request", "run_provisioner",
     "host_ready", "installed", "verify_live"}
PastGroup == {"ensure_instance", "record_instance"} \cup PastInstance
PastKey == {"ensure_security_group", "record_security_group",
            "ensure_ingress", "security_group_ready"} \cup PastGroup

NoKeyLeft == {"remove_private", "remove_public", "finish_destroy"}
NoGroupLeft == {"destroy_cloud_key", "clear_key"} \cup NoKeyLeft
NoInstanceLeft == {"record_terminated", "destroy_eip", "clear_eip",
                   "destroy_security_group", "clear_security_group"} \cup NoGroupLeft
VolumeKept == {"terminate_instance", "wait_terminated"} \cup NoInstanceLeft
NoRecordLeft == {"destroy_eip_association", "retain_volume"} \cup VolumeKept

\* The effect that makes it so has not taken place yet.
Awaits(e) == effect = e /\ ~ran

\* What an instance that is recorded comes with.
Built ==
    /\ cloud.key = "owned" /\ cloud.sg = "open"
    /\ cloud.inst = "running" /\ cloud.vol = "live"
    /\ {"sg", "inst", "vol"} \subseteq disk.has

BuiltInv ==
    /\ cloud.assoc \in cloud.eips \cup {None}
    /\ disk.phase \in ResumablePhases /\ "vol" \in disk.has => Built
    /\ disk.phase \in ResumablePhases \cup {"Absent"} =>
          (cloud.inst = "running" => cloud.vol = "live")
    /\ disk.phase \in {"Installed", "Verified"} => "vol" \in disk.has
    /\ disk.phase = "Verified" =>
          at \in {"idle", "bind_account", "verify_command"} /\ effect = None
    /\ VerifiedMeansLive

ReachedInv ==
    /\ at = "key_ready" => cloud.key = "owned" \/ Awaits("import-owned-key-pair")
    /\ at \in PastKey => cloud.key = "owned"
    /\ at = "security_group_ready" => cloud.sg = "open" \/ Awaits("authorize-minimal-ingress")
    /\ at \in PastGroup => cloud.sg = "open" /\ "sg" \in disk.has
    /\ at = "record_instance" => cloud.inst = "running" \/ Awaits("run-owned-instance")
    /\ at \in PastInstance \cup {"verify_command"} => "vol" \in disk.has

LeftInv ==
    /\ disk.phase = "Destroying" /\ "vol" \in disk.has =>
          /\ cloud.key # "foreign" /\ cloud.inst # "none"
          /\ cloud.inst = "running" => "inst" \in disk.has
          /\ cloud.sg # "none" => "sg" \in disk.has
    /\ at \in NoRecordLeft => cloud.dns # "owned"
    /\ at \in VolumeKept => "vol" \in disk.has
    /\ at = "wait_terminated" => cloud.inst = "terminated" \/ Awaits("terminate-exact-owned-instance")
    /\ at \in NoInstanceLeft => cloud.inst = "terminated"
    /\ at = "clear_security_group" =>
          cloud.sg = "none" \/ Awaits("delete-exact-owned-security-group")
    /\ at \in NoGroupLeft => cloud.sg = "none"
    /\ at = "clear_key" => cloud.key = "none" \/ Awaits("delete-exact-owned-cloud-key")
    /\ at \in NoKeyLeft => cloud.key = "none"
    /\ RemovalIsComplete

WholeInv == BuiltInv /\ ReachedInv /\ LeftInv

\* Where the points of the tables above lie.
LEMMA ReachTables ==
  /\ PastKey \subseteq ApplyPoints /\ NoRecordLeft \subseteq DestroyPoints
  /\ {"key_ready", "security_group_ready", "record_instance"} \subseteq ApplyPoints
  /\ {"wait_terminated", "clear_security_group", "clear_key"} \subseteq NoRecordLeft
  /\ PastInstance \subseteq PastGroup /\ PastGroup \subseteq PastKey
  /\ "record_instance" \in PastGroup
  /\ NoKeyLeft \subseteq NoGroupLeft /\ NoGroupLeft \subseteq NoInstanceLeft
  /\ NoInstanceLeft \subseteq VolumeKept /\ VolumeKept \subseteq NoRecordLeft
BY DEF ApplyPoints, DestroyPoints, PastKey, PastGroup, PastInstance, NoRecordLeft,
       VolumeKept, NoInstanceLeft, NoGroupLeft, NoKeyLeft

\* A step of apply records nothing but an instance that is complete, and reaches what
\* the next point relies on.
ApplyMoves ==
  /\ disk.has \subseteq disk'.has
  /\ "vol" \in disk'.has =>
        \/ "vol" \in disk.has
        \/ at = "record_instance" /\ {"inst", "vol"} \subseteq disk'.has
  /\ disk'.phase \in {"Installed", "Verified"} =>
        disk'.phase = disk.phase \/ "vol" \in disk.has
  /\ disk'.phase = "Verified" =>
        /\ at' = "idle" /\ effect' = None
        /\ disk'.eip = disk.eip /\ disk'.dns = disk.dns
        /\ disk.phase = "Verified" \/ LiveChecksPass
  /\ ReachedInv'

\* Every step of apply moves so, whatever point it is at.
LEMMA ApplyStepMoves ==
  ASSUME SafetyInv, BuiltInv, ReachedInv, ApplyStep
  PROVE  ApplyMoves /\ UNCHANGED <<cloud, host>>
<1> USE DEF At, Goto, Refuse, Persist, BeforeEffect, Return, world
<1> USE DEF PastKey, PastGroup, PastInstance, Awaits
<1>t. disk \in Ec2State /\ cloud \in Cloud /\ disk.has \subseteq Fields /\ ~ran
  BY ApplyStepShape DEF SafetyInv, TypeOK, LockInv, Ec2State, ApplyShape
<1>r. disk.phase = "Verified" => at \in {"idle", "bind_account", "verify_command"}
  BY DEF BuiltInv
<1>n. None \notin {"import-owned-key-pair", "authorize-minimal-ingress", "run-owned-instance"}
  BY EffectTables DEF CreateEffects
<1>1. ASSUME NEW caller \in Accounts, BindAccount(caller)
      PROVE  ApplyMoves /\ UNCHANGED <<cloud, host>>
  BY <1>1, <1>t, <1>r DEF BindAccount, ApplyMoves, ReachedInv, Ec2State
<1>2. CASE ResolveAmi
  <2>1. CASE "ami" \in disk.has
    BY <1>2, <1>t, <1>r, <2>1 DEF ResolveAmi, ApplyMoves, ReachedInv
  <2>2. CASE disk' = [disk EXCEPT !.has = @ \cup {"ami"}, !.phase = "AmiResolved"]
    <3>1. disk'.has = disk.has \cup {"ami"} /\ disk'.phase = "AmiResolved"
      BY <1>t, <2>2 DEF Ec2State
    <3>. QED  BY <1>2, <3>1 DEF ResolveAmi, ApplyMoves, ReachedInv
  <2>. QED  BY <1>2, <2>1, <2>2 DEF ResolveAmi
<1>3. CASE EnsureKey
  BY <1>3, <1>t, <1>r DEF EnsureKey, ApplyMoves, ReachedInv, Ec2State
<1>4. CASE RecordKey
  BY <1>4, <1>t, <1>r DEF RecordKey, ApplyMoves, ReachedInv, Ec2State
<1>5. CASE ImportKey
  BY <1>5, <1>t, <1>r DEF ImportKey, ApplyMoves, ReachedInv, Ec2State
<1>6. CASE KeyReady
  BY <1>6, <1>t, <1>r, <1>n DEF KeyReady, ApplyMoves, ReachedInv, Ec2State
<1>7. CASE EnsureSecurityGroup
  BY <1>7, <1>t, <1>r DEF EnsureSecurityGroup, ApplyMoves, ReachedInv, Ec2State
<1>8. CASE RecordSecurityGroup
  BY <1>8, <1>t, <1>r DEF RecordSecurityGroup, ApplyMoves, ReachedInv, Ec2State
<1>9. CASE EnsureIngress
  <2>1. CASE cloud.sg = "open"
    BY <1>9, <1>t, <1>r, <2>1 DEF EnsureIngress, ApplyMoves, ReachedInv
  <2>2. CASE cloud.sg = "closed"
    <3>1. disk'.has = disk.has \cup {"sg"} /\ disk'.phase = disk.phase
      BY <1>9, <1>t, <2>2 DEF EnsureIngress, Ec2State
    <3>. QED  BY <1>9, <1>t, <1>r, <2>2, <3>1 DEF EnsureIngress, ApplyMoves, ReachedInv
  <2>. QED  BY <1>9, <2>1, <2>2 DEF EnsureIngress
<1>10. CASE SecurityGroupReady
  BY <1>10, <1>t, <1>r, <1>n DEF SecurityGroupReady, ApplyMoves, ReachedInv, Ec2State
<1>11. CASE EnsureInstance
  BY <1>11, <1>t, <1>r DEF EnsureInstance, ApplyMoves, ReachedInv, Ec2State
<1>12. CASE RecordInstance
  BY <1>12, <1>t, <1>r, <1>n DEF RecordInstance, ApplyMoves, ReachedInv, Ec2State
<1>13. CASE WaitRunning
  BY <1>13, <1>t, <1>r DEF WaitRunning, ApplyMoves, ReachedInv, Ec2State
<1>14. CASE WaitStatusOk
  BY <1>14, <1>t, <1>r DEF WaitStatusOk, ApplyMoves, ReachedInv, Ec2State
<1>15. CASE InstanceReady
  BY <1>15, <1>t, <1>r DEF InstanceReady, ApplyMoves, ReachedInv, Ec2State
<1>16. CASE EnsureEip
  BY <1>16, <1>t, <1>r DEF EnsureEip, ApplyMoves, ReachedInv, Ec2State
<1>17. CASE CheckEip
  BY <1>17, <1>t, <1>r DEF CheckEip, ApplyMoves, ReachedInv, Ec2State
<1>18. CASE RecordEip
  BY <1>18, <1>t, <1>r DEF RecordEip, ApplyMoves, ReachedInv, Ec2State
<1>19. CASE EnsureDns
  BY <1>19, <1>t, <1>r DEF EnsureDns, ApplyMoves, ReachedInv, Ec2State
<1>20. CASE CreateDns
  BY <1>20, <1>t, <1>r DEF CreateDns, ApplyMoves, ReachedInv, Ec2State
<1>21. CASE RecordChange
  BY <1>21, <1>t, <1>r DEF RecordChange, ApplyMoves, ReachedInv, Ec2State
<1>22. CASE WaitDns
  BY <1>22, <1>t, <1>r DEF WaitDns, ApplyMoves, ReachedInv, Ec2State
<1>23. CASE DnsReady
  BY <1>23, <1>t, <1>r DEF DnsReady, ApplyMoves, ReachedInv, Ec2State
<1>24. CASE EnsureHostKey
  BY <1>24, <1>t, <1>r DEF EnsureHostKey, ApplyMoves, ReachedInv, Ec2State
<1>25. CASE EnsureHostHelpers
  BY <1>25, <1>t, <1>r DEF EnsureHostHelpers, ApplyMoves, ReachedInv, Ec2State
<1>26. CASE InstallInitial
  BY <1>26, <1>t, <1>r DEF InstallInitial, ApplyMoves, ReachedInv, Ec2State
<1>36. CASE RunInstaller
  BY <1>36, <1>t, <1>r DEF RunInstaller, ApplyMoves, ReachedInv, Ec2State
<1>27. CASE RecordInstall
  BY <1>27, <1>t, <1>r DEF RecordInstall, ApplyMoves, ReachedInv, Ec2State
<1>28. CASE ProvisionInitial
  BY <1>28, <1>t, <1>r DEF ProvisionInitial, ApplyMoves, ReachedInv, Ec2State
<1>29. CASE InspectRequest
  BY <1>29, <1>t, <1>r DEF InspectRequest, ApplyMoves, ReachedInv, Ec2State
<1>30. CASE OwnRequest
  BY <1>30, <1>t, <1>r DEF OwnRequest, ApplyMoves, ReachedInv, Ec2State
<1>31. CASE ModeRequest
  BY <1>31, <1>t, <1>r DEF ModeRequest, ApplyMoves, ReachedInv, Ec2State
<1>32. CASE RunProvisioner
  BY <1>32, <1>t, <1>r DEF RunProvisioner, ApplyMoves, ReachedInv, Ec2State
<1>33. CASE HostReady
  BY <1>33, <1>t, <1>r DEF HostReady, ApplyMoves, ReachedInv, Ec2State
<1>34. CASE Installed
  BY <1>34, <1>t, <1>r DEF Installed, ApplyMoves, ReachedInv, Ec2State
<1>35. CASE VerifyLive
  BY <1>35, <1>t, <1>r DEF VerifyLive, ApplyMoves, ReachedInv, Ec2State
<1>. QED  BY <1>1, <1>2, <1>3, <1>4, <1>5, <1>6, <1>7, <1>8, <1>9, <1>10, <1>11, <1>12, <1>13, <1>14, <1>15, <1>16, <1>17, <1>18, <1>19, <1>20, <1>21, <1>22, <1>23, <1>24, <1>25, <1>26, <1>27, <1>28, <1>29, <1>30, <1>31, <1>32, <1>33, <1>34, <1>35, <1>36 DEF ApplyStep

\* A step of apply preserves the invariant.
LEMMA ApplyBuilds ==
  ASSUME SafetyInv, WholeInv, ApplyStep
  PROVE  WholeInv'
<1>1. ApplyMoves /\ UNCHANGED <<cloud, host>>
  BY ApplyStepMoves DEF WholeInv
<1>2. /\ at \in ApplyPoints /\ effect = None /\ disk.phase \in ResumablePhases
      /\ at' \in ApplyPoints \cup {"idle"} /\ disk'.phase \in ResumablePhases
  <2>1. at \in ApplyPoints /\ effect = None /\ disk.phase \in ResumablePhases /\ ApplyShape
    BY ApplyStepShape DEF SafetyInv, ApplyShape, PlaceInv
  <2>2. ASSUME NEW t, NEW l, ApplyPersists(t, l)
        PROVE  at' \in ApplyPoints /\ disk'.phase \in ResumablePhases
    BY <2>1, <2>2 DEF ApplyPersists, ApplyWrites, Persist
  <2>3. ASSUME NEW t, NEW e, NEW l, ApplyBegins(t, e, l)
        PROVE  at' \in ApplyPoints /\ disk'.phase \in ResumablePhases
    <3>1. [t EXCEPT !.pending = e].phase = t.phase
      BY <2>3 DEF ApplyBegins, ApplyWrites, Ec2State
    <3>. QED  BY <2>1, <2>3, <3>1 DEF ApplyBegins, ApplyWrites, BeforeEffect
  <2>4. ASSUME NEW t \in ApplyWrites, Return(t)
        PROVE  at' = "idle" /\ disk'.phase \in ResumablePhases
    BY <2>1, <2>4 DEF ApplyWrites, Return
  <2>. QED  BY <2>1, <2>2, <2>3, <2>4 DEF ApplyShape
<1>3. "vol" \in disk'.has => Built'
  <2>1. CASE "vol" \in disk.has
    BY <1>1, <1>2, <2>1 DEF WholeInv, BuiltInv, Built, ApplyMoves
  <2>2. CASE at = "record_instance" /\ {"inst", "vol"} \subseteq disk'.has
    <3>1. /\ cloud.key = "owned" /\ cloud.sg = "open" /\ "sg" \in disk.has
          /\ cloud.inst = "running"
      BY <1>2, <2>2, ReachTables, EffectTables DEF WholeInv, ReachedInv, Awaits, CreateEffects
    <3>2. cloud.vol = "live"
      BY <1>2, <3>1 DEF WholeInv, BuiltInv
    <3>. QED  BY <1>1, <2>2, <3>1, <3>2 DEF Built, ApplyMoves
  <2>. QED  BY <1>1, <2>1, <2>2 DEF ApplyMoves
<1>4. disk'.phase \in {"Installed", "Verified"} => "vol" \in disk'.has
  BY <1>1 DEF WholeInv, BuiltInv, ApplyMoves
<1>5. VerifiedMeansLive'
  <2> SUFFICES ASSUME disk'.phase = "Verified"  PROVE  VerifiedMeansLive'
    BY DEF VerifiedMeansLive
  <2>1. Built' /\ disk'.eip = disk.eip /\ disk'.dns = disk.dns
    BY <1>1, <1>3, <1>4 DEF ApplyMoves
  <2>2. CASE disk.phase = "Verified"
    BY <1>1, <2>1, <2>2 DEF VerifiedMeansLive, WholeInv, BuiltInv, Built
  <2>3. CASE LiveChecksPass
    <3>1. disk.dns # "none" /\ disk.eip \in cloud.eips
      BY <2>3 DEF LiveChecksPass, SafetyInv, NamedResourcesAreRecorded, WholeInv, BuiltInv
    <3>. QED  BY <1>1, <2>1, <2>3, <3>1 DEF VerifiedMeansLive, Built, LiveChecksPass
  <2>. QED  BY <1>1, <2>2, <2>3 DEF ApplyMoves
<1>6. BuiltInv'
  BY <1>1, <1>2, <1>3, <1>4, <1>5 DEF WholeInv, BuiltInv, ApplyMoves
<1>7. LeftInv'
  BY <1>2, Tables, ReachTables, PhaseTables DEF LeftInv, RemovalIsComplete
<1>. QED  BY <1>1, <1>6, <1>7 DEF WholeInv, ApplyMoves

\* A step of destroy goes on only when what it removes is gone.
LEMMA DestroyStepLeaves ==
  ASSUME SafetyInv, LeftInv, DestroyStep
  PROVE  LeftInv' /\ UNCHANGED <<cloud, host>>
<1> USE DEF At, Goto, Refuse, Persist, BeforeEffect, Return, world
<1> USE DEF NoRecordLeft, VolumeKept, NoInstanceLeft, NoGroupLeft, NoKeyLeft, Awaits
<1>t. /\ disk \in Ec2State /\ cloud \in Cloud /\ disk.has \subseteq Fields /\ ~ran
      /\ disk.phase = "Destroying" /\ effect = None
  BY DestroyStepShape DEF SafetyInv, TypeOK, LockInv, Ec2State, DestroyShape, PlaceInv
<1>n. None \notin DestroyEffects
  BY EffectTables
<1>k. /\ cloud.dns = "owned" => disk.dns # "none"
      /\ cloud.key = "owned" => disk.key # "none"
      /\ at = "wait_dns_delete" => cloud.dns # "owned" \/ Awaits("delete-exact-owned-dns-record")
      /\ at = "clear_dns" => cloud.dns # "owned"
  BY DEF SafetyInv, NamedResourcesAreRecorded, PointInv
<1> USE <1>t, <1>n, <1>k DEF LeftInv, RemovalIsComplete, RemovedPhases, DestroyEffects
<1>1. CASE DestroyDns
  BY <1>1 DEF DestroyDns, Ec2State, Cloud
<1>2. CASE WaitDnsDelete
  BY <1>2 DEF WaitDnsDelete, Ec2State, Cloud
<1>3. CASE ClearDns
  BY <1>3 DEF ClearDns, Ec2State, Cloud
<1>4. CASE DestroyEipAssociation
  BY <1>4 DEF DestroyEipAssociation, Ec2State, Cloud
<1>5. CASE RetainVolume
  BY <1>5 DEF RetainVolume, Ec2State, Cloud
<1>6. CASE TerminateInstance
  BY <1>6 DEF TerminateInstance, Ec2State, Cloud
<1>7. CASE WaitTerminated
  BY <1>7 DEF WaitTerminated, Ec2State, Cloud
<1>8. CASE RecordTerminated
  BY <1>8 DEF RecordTerminated, Ec2State, Cloud
<1>9. CASE DestroyEip
  BY <1>9 DEF DestroyEip, Ec2State, Cloud
<1>10. CASE ClearEip
  BY <1>10 DEF ClearEip, Ec2State, Cloud
<1>11. CASE DestroySecurityGroup
  BY <1>11 DEF DestroySecurityGroup, Ec2State, Cloud
<1>12. CASE ClearSecurityGroup
  BY <1>12 DEF ClearSecurityGroup, Ec2State, Cloud
<1>13. CASE DestroyCloudKey
  BY <1>13 DEF DestroyCloudKey, Ec2State, Cloud
<1>14. CASE ClearKey
  BY <1>14 DEF ClearKey, Ec2State, Cloud
<1>15. CASE RemovePrivate
  BY <1>15 DEF RemovePrivate, Ec2State, Cloud
<1>16. CASE RemovePublic
  BY <1>16 DEF RemovePublic, Ec2State, Cloud
<1>17. CASE FinishDestroy
  <2>1. /\ cloud.inst = "terminated" /\ cloud.sg = "none" /\ cloud.key = "none" /\ cloud.dns # "owned"
        /\ cloud.vol \in {"retained", "deleted"}
    BY <1>17 DEF FinishDestroy, SafetyInv, RetainedBeforeTerminated
  <2>2. at' = "idle" /\ disk'.phase # "Destroying" /\ UNCHANGED <<cloud, host>>
    BY <1>17 DEF FinishDestroy, Ec2State
  <2>. QED  BY <2>1, <2>2
<1>. QED  BY <1>1, <1>2, <1>3, <1>4, <1>5, <1>6, <1>7, <1>8, <1>9, <1>10, <1>11, <1>12, <1>13, <1>14, <1>15, <1>16, <1>17 DEF DestroyStep

\* A step of destroy preserves the invariant.
LEMMA DestroyLeaves ==
  ASSUME SafetyInv, WholeInv, DestroyStep
  PROVE  WholeInv'
<1>1. LeftInv' /\ UNCHANGED <<cloud, host>>
  BY DestroyStepLeaves DEF WholeInv
<1>2. /\ at' \in DestroyPoints \cup {"idle"}
      /\ disk'.phase \in {"Destroying", "InfrastructureRemovedVolumeRetained"}
  <2>1. DestroyShape /\ disk.phase = "Destroying"
    BY DestroyStepShape DEF SafetyInv, PlaceInv, DestroyShape
  <2>2. ASSUME NEW t, NEW l, DestroyPersists(t, l)
        PROVE  at' \in DestroyPoints /\ disk'.phase = "Destroying"
    BY <2>1, <2>2 DEF DestroyPersists, Persist
  <2>3. ASSUME NEW t, NEW e, NEW l, DestroyBegins(t, e, l)
        PROVE  at' \in DestroyPoints /\ disk'.phase = "Destroying"
    <3>1. [t EXCEPT !.pending = e].phase = t.phase
      BY <2>3 DEF DestroyBegins, DestroyWrites, Ec2State
    <3>. QED  BY <2>1, <2>3, <3>1 DEF DestroyBegins, BeforeEffect
  <2>4. ASSUME NEW t \in DestroyWrites, Return(t),
               t = disk \/ t.phase = "InfrastructureRemovedVolumeRetained"
        PROVE  /\ at' = "idle"
               /\ disk'.phase \in {"Destroying", "InfrastructureRemovedVolumeRetained"}
    BY <2>1, <2>4 DEF Return
  <2>5. CASE DestroyUnlinks
    BY <2>1, <2>5 DEF DestroyUnlinks, DestroyPoints
  <2>. QED  BY <2>1, <2>2, <2>3, <2>4, <2>5 DEF DestroyShape
<1>3. ReachedInv'
  BY <1>2, Tables, ReachTables DEF ReachedInv
<1>4. BuiltInv'
  BY <1>1, <1>2, PhaseTables DEF WholeInv, BuiltInv, VerifiedMeansLive, ResumablePhases
<1>. QED  BY <1>1, <1>3, <1>4 DEF WholeInv

\* An operation that ends leaves the target as its last step did.
LEMMA StopKeepsWhole ==
  ASSUME WholeInv, Stop
  PROVE  WholeInv'
<1>1. at' = "idle" /\ effect' = None /\ UNCHANGED <<disk, cloud, host>>
  BY DEF Stop, world
<1>2. BuiltInv'
  BY <1>1 DEF WholeInv, BuiltInv, Built, VerifiedMeansLive
<1>3. ReachedInv'
  BY <1>1, ReachTables, Tables DEF ReachedInv
<1>4. LeftInv'
  BY <1>1, ReachTables, Tables DEF WholeInv, LeftInv, RemovalIsComplete
<1>. QED  BY <1>2, <1>3, <1>4 DEF WholeInv

\* The entry of apply, verify, destroy and purge preserves the invariant.
LEMMA CallsKeepWhole ==
  ASSUME SafetyInv, WholeInv,
         \/ ApplyCall \/ DestroyCall \/ PurgeCall
         \/ \E p \in Procs : Verify(p)
  PROVE  WholeInv'
<1>t. disk \in Ec2State
  BY DEF SafetyInv, TypeOK
<1>1. ASSUME NEW p \in Procs, NEW s,
             NEW l \in {"bind_account", "verify_command", "destroy_dns", "purge_volume"},
             Start(p, s, l), l = "verify_command" => "vol" \in s.has
      PROVE  /\ UNCHANGED <<cloud, host>> /\ effect' = None /\ disk' = s
             /\ ReachedInv' /\ at' = l /\ at' \notin NoRecordLeft
             /\ at' \notin {"wait_terminated", "clear_security_group", "clear_key"}
  <2>1. UNCHANGED <<cloud, host>> /\ effect' = None /\ disk' = s /\ at' = l
    BY <1>1 DEF Start, world, SafetyInv, LockInv
  <2>2. ReachedInv'
    BY <1>1, <2>1 DEF ReachedInv, PastKey, PastGroup, PastInstance
  <2>. QED  BY <2>1, <2>2 DEF NoRecordLeft, VolumeKept, NoInstanceLeft, NoGroupLeft, NoKeyLeft
<1>2. ASSUME NEW p \in Procs, NEW l \in {"bind_account", "verify_command", "purge_volume"},
             Start(p, disk, l), l = "purge_volume" => disk.phase # "Verified",
             l = "verify_command" => disk.phase \in {"Installed", "Verified"}
      PROVE  WholeInv'
  <2>0. l = "verify_command" => "vol" \in disk.has
    BY <1>2 DEF WholeInv, BuiltInv
  <2>1. BuiltInv'
    BY <1>1, <1>2, <2>0 DEF WholeInv, BuiltInv, Built, VerifiedMeansLive
  <2>2. LeftInv'
    BY <1>1, <1>2, <2>0, ReachTables DEF WholeInv, LeftInv, RemovalIsComplete
  <2>. QED  BY <1>1, <1>2, <2>0, <2>1, <2>2 DEF WholeInv
<1>3. ASSUME NEW p \in Procs, disk.phase = "Absent",
             Start(p, NewState("Planned"), "bind_account")
      PROVE  WholeInv'
  <2>1. /\ disk'.phase = "Planned" /\ disk'.has = {} /\ UNCHANGED <<cloud, host>>
        /\ at' = "bind_account"
    BY <1>1, <1>3 DEF NewState
  <2>2. cloud.inst = "running" => cloud.vol = "live"
    BY <1>3 DEF WholeInv, BuiltInv
  <2>3. BuiltInv'
    BY <2>1, <2>2 DEF WholeInv, BuiltInv, VerifiedMeansLive
  <2>4. LeftInv'
    BY <1>1, <1>3, <2>1, ReachTables DEF LeftInv, RemovalIsComplete, RemovedPhases
  <2>. QED  BY <1>1, <1>3, <2>3, <2>4 DEF WholeInv
<1>4. ASSUME NEW p \in Procs, NEW caller \in Accounts, Destroy(p, caller)
      PROVE  WholeInv'
  <2> DEFINE s == [disk EXCEPT !.phase = "Destroying"]
  <2>1. s.phase = "Destroying" /\ s.has = disk.has
    BY <1>t DEF Ec2State
  <2>2. disk.phase \in ResumablePhases \cup {"Destroying"} /\ Start(p, s, "destroy_dns")
    BY <1>t, <1>4, PhaseTables DEF Destroy, Ec2State
  <2> HIDE DEF s
  <2>3. /\ UNCHANGED <<cloud, host>> /\ disk'.phase = "Destroying" /\ disk'.has = disk.has
        /\ ReachedInv' /\ at' = "destroy_dns"
    BY <1>1, <2>1, <2>2
  <2>4. BuiltInv'
    BY <2>3, PhaseTables DEF WholeInv, BuiltInv, VerifiedMeansLive, ResumablePhases
  <2>5. "vol" \in disk.has =>
          /\ cloud.key # "foreign" /\ cloud.inst # "none"
          /\ cloud.inst = "running" => "inst" \in disk.has
          /\ cloud.sg # "none" => "sg" \in disk.has
    BY <2>2 DEF WholeInv, BuiltInv, Built, LeftInv
  <2>6. LeftInv'
    BY <1>1, <2>2, <2>3, <2>5, ReachTables DEF LeftInv, RemovalIsComplete, RemovedPhases
  <2>. QED  BY <2>3, <2>4, <2>6 DEF WholeInv
<1>. QED
  BY <1>2, <1>3, <1>4 DEF ApplyCall, DestroyCall, PurgeCall, Apply, Purge, Verify

\* verify claims that the target is live only when it is; purge touches the volume alone.
LEMMA CommandsKeepWhole ==
  ASSUME SafetyInv, WholeInv, VerifyCommand \/ PurgeVolume \/ RecordPurge
  PROVE  WholeInv'
<1>t. disk \in Ec2State
  BY DEF SafetyInv, TypeOK
<1>1. ASSUME disk.phase \in RemovedPhases, disk'.phase \in RemovedPhases,
             UNCHANGED <<cloud, host>>, at' \in {"idle", "record_purge"}
      PROVE  WholeInv'
  <2>1. ReachedInv'
    BY <1>1, ReachTables, Tables DEF ReachedInv
  <2>2. BuiltInv'
    BY <1>1 DEF WholeInv, BuiltInv, VerifiedMeansLive, ResumablePhases, RemovedPhases
  <2>3. LeftInv'
    BY <1>1, ReachTables, Tables, PhaseTables DEF WholeInv, LeftInv, RemovalIsComplete
  <2>. QED  BY <2>1, <2>2, <2>3 DEF WholeInv
<1>2. CASE VerifyCommand
  <2>1. /\ disk.phase \in ResumablePhases /\ "vol" \in disk.has /\ effect = None
        /\ at' = "idle" /\ effect' = None /\ UNCHANGED <<cloud, host>>
    BY <1>2 DEF VerifyCommand, At, Refuse, Return, world, SafetyInv, PlaceInv, WholeInv, ReachedInv
  <2>2. /\ disk'.has = disk.has /\ disk'.eip = disk.eip /\ disk'.dns = disk.dns
        /\ disk' = disk \/ (disk'.phase = "Verified" /\ LiveChecksPass)
    BY <1>t, <1>2 DEF VerifyCommand, Refuse, Return, Ec2State
  <2>3. disk'.phase \in ResumablePhases /\ Built
    BY <2>1, <2>2, PhaseTables DEF WholeInv, BuiltInv
  <2>4. VerifiedMeansLive'
    <3>1. CASE disk' = disk
      BY <2>1, <3>1 DEF WholeInv, BuiltInv, VerifiedMeansLive
    <3>2. CASE LiveChecksPass
      <4>1. disk.dns # "none" /\ disk.eip \in cloud.eips
        BY <3>2 DEF LiveChecksPass, SafetyInv, NamedResourcesAreRecorded, WholeInv, BuiltInv
      <4>. QED  BY <2>1, <2>2, <2>3, <3>2, <4>1 DEF VerifiedMeansLive, Built, LiveChecksPass
    <3>. QED  BY <2>2, <3>1, <3>2
  <2>5. BuiltInv'
    BY <2>1, <2>2, <2>3, <2>4 DEF WholeInv, BuiltInv, Built
  <2>6. ReachedInv'
    BY <2>1, ReachTables, Tables DEF ReachedInv
  <2>7. LeftInv'
    BY <2>1, <2>3, ReachTables, Tables, PhaseTables DEF LeftInv, RemovalIsComplete
  <2>. QED  BY <2>5, <2>6, <2>7 DEF WholeInv
<1>3. CASE PurgeVolume \/ RecordPurge
  <2>1. /\ disk.phase = "InfrastructureRemovedVolumeRetained"
        /\ Purged(disk).phase = "VolumePurged"
        /\ [disk EXCEPT !.pending = PurgeEffect].phase = disk.phase
    BY <1>t, <1>3 DEF PurgeVolume, RecordPurge, At, SafetyInv, PlaceInv, Purged, Ec2State
  <2>2. /\ disk'.phase \in RemovedPhases /\ at' \in {"idle", "record_purge"}
        /\ UNCHANGED <<cloud, host>>
    BY <1>3, <2>1, PhaseTables DEF PurgeVolume, RecordPurge, Refuse, Return, BeforeEffect, world
  <2>. QED  BY <1>1, <2>1, <2>2, PhaseTables
<1>. QED  BY <1>2, <1>3

\* A command that creates: what is there stays, and what was awaited is there.
LEMMA CreatesBuild ==
  ASSUME SafetyInv, WholeInv, RunEffect, AwsCreates, UNCHANGED host
  PROVE  WholeInv'
<1>1. /\ at \in ApplyPoints /\ disk.phase \in ResumablePhases
      /\ disk.phase # "Verified" /\ effect \in CreateEffects
  BY CreatesFacts, EffectPlace, EffectTables DEF SafetyInv, WholeInv, BuiltInv
<1>2. UNCHANGED <<disk, at, effect, host>> /\ ran' /\ cloud \in Cloud
  BY DEF RunEffect, SafetyInv, TypeOK
<1>3. LeftInv'
  BY <1>1, <1>2, Tables, ReachTables, PhaseTables DEF LeftInv, RemovalIsComplete
<1>4. /\ cloud.key = "owned" => cloud'.key = "owned"
      /\ cloud.sg = "open" => cloud'.sg = "open"
      /\ cloud.inst = "running" => cloud'.inst = "running" /\ cloud'.vol = cloud.vol
      /\ cloud'.inst = "running" => cloud.inst = "running" \/ cloud'.vol = "live"
      /\ effect = "import-owned-key-pair" => cloud'.key = "owned"
      /\ effect = "authorize-minimal-ingress" => cloud'.sg = "open"
      /\ effect = "run-owned-instance" => cloud'.inst = "running"
  BY <1>2 DEF AwsCreates, Cloud
<1>5. cloud'.assoc \in cloud'.eips \cup {None}
  BY <1>2 DEF AwsCreates, Cloud, WholeInv, BuiltInv
<1>6. BuiltInv'
  BY <1>1, <1>2, <1>4, <1>5 DEF WholeInv, BuiltInv, Built, VerifiedMeansLive
<1>7. ReachedInv'
  BY <1>2, <1>4 DEF WholeInv, ReachedInv, Awaits
<1>. QED  BY <1>3, <1>6, <1>7 DEF WholeInv

\* A command that removes: nothing else goes, and what was awaited is gone.
LEMMA DestroysLeave ==
  ASSUME SafetyInv, WholeInv, RunEffect, AwsDestroys, UNCHANGED host
  PROVE  WholeInv'
<1>1. /\ effect \in DestroyEffects \cup {PurgeEffect}
      /\ disk.phase \in {"Destroying", "InfrastructureRemovedVolumeRetained"}
      /\ at \in DestroyPoints \cup {"record_purge"}
  BY DestroysFacts, EffectPlace DEF SafetyInv
<1>2. UNCHANGED <<disk, at, effect, host>> /\ ran' /\ cloud \in Cloud
  BY DEF RunEffect, SafetyInv, TypeOK
<1>3. ReachedInv'
  BY <1>1, <1>2, Tables, ReachTables DEF ReachedInv
<1>4. cloud'.assoc \in cloud'.eips \cup {None}
  BY <1>2 DEF AwsDestroys, Cloud, WholeInv, BuiltInv
<1>5. BuiltInv'
  BY <1>1, <1>2, <1>4, PhaseTables DEF BuiltInv, VerifiedMeansLive, ResumablePhases
<1>6. /\ cloud'.key = cloud.key \/ cloud'.key = "none"
      /\ cloud'.sg = cloud.sg \/ cloud'.sg = "none"
      /\ cloud'.dns = cloud.dns \/ cloud'.dns = "none"
      /\ cloud'.inst = cloud.inst \/ cloud'.inst = "terminated"
      /\ effect = "terminate-exact-owned-instance" => cloud'.inst = "terminated"
      /\ effect = "delete-exact-owned-security-group" => cloud'.sg = "none"
      /\ effect = "delete-exact-owned-cloud-key" => cloud'.key = "none"
  BY <1>2 DEF AwsDestroys, Cloud, PurgeEffect
<1>7. disk.phase \in RemovedPhases => cloud'.vol \in {"retained", "deleted"}
  <2>1. disk.phase \in RemovedPhases => effect = PurgeEffect
    BY <1>1, EffectPlace, PhaseTables
  <2>. QED  BY <2>1, DestroysFacts DEF SafetyInv
<1>8. LeftInv'
  <2>1. RemovalIsComplete'
    BY <1>2, <1>6, <1>7 DEF WholeInv, LeftInv, RemovalIsComplete
  <2>. QED  BY <1>2, <1>6, <2>1 DEF WholeInv, LeftInv, Awaits
<1>. QED  BY <1>3, <1>5, <1>8 DEF WholeInv

\* Every outcome of run_effect preserves the invariant.
LEMMA EffectsKeepWhole ==
  ASSUME SafetyInv, WholeInv, EffectStep
  PROVE  WholeInv'
<1>1. CASE RunEffect
  <2>1. CASE UNCHANGED cloud /\ (HostRuns \/ effect \in Waits)
    <3>1. UNCHANGED <<disk, at, effect, cloud>> /\ ran' /\ ~ran /\ host \in Host
      BY <1>1, <2>1 DEF RunEffect, SafetyInv, TypeOK
    <3>2. effect \notin CreateEffects \cup DestroyEffects
      BY <2>1 DEF HostRuns, Waits, CreateEffects, DestroyEffects
    <3>3. host.done \subseteq host'.done
      <4>1. CASE HostRuns
        <5>1. \A f \in {"helpers", "provisioned"} :
                  [host EXCEPT !.done = @ \cup {f}].done = host.done \cup {f}
          BY <3>1 DEF Host
        <5>2. [host EXCEPT !.done = @ \cup {"installed"}, !.inputs = "absent"].done
                  = host.done \cup {"installed"}
          BY <3>1 DEF Host
        <5>3. \A q \in {"ubuntu", "root", "root400"} :
                  [host EXCEPT !.request = q].done = host.done
          BY <3>1 DEF Host
        <5>. QED  BY <4>1, <5>1, <5>2, <5>3 DEF HostRuns
      <4>2. CASE effect \in Waits
        <5>1. UNCHANGED host
          BY <1>1, <3>2, <4>2 DEF RunEffect, HostRuns, Waits
        <5>. QED  BY <5>1
      <4>. QED  BY <2>1, <4>1, <4>2
    <3>4. BuiltInv'
      BY <3>1, <3>3 DEF WholeInv, BuiltInv, Built, VerifiedMeansLive
    <3>5. ReachedInv'
      BY <3>1, <3>2, EffectTables DEF WholeInv, ReachedInv, Awaits, CreateEffects
    <3>6. LeftInv'
      BY <3>1, <3>2 DEF WholeInv, LeftInv, RemovalIsComplete, Awaits, DestroyEffects
    <3>. QED  BY <3>4, <3>5, <3>6 DEF WholeInv
  <2>. QED  BY <1>1, <2>1, CreatesBuild, DestroysLeave DEF RunEffect
<1>2. CASE RunKeygen
  <2>1. UNCHANGED <<disk, at, effect, cloud, host>>
    BY <1>2 DEF RunKeygen
  <2>2. effect \notin CreateEffects \cup DestroyEffects
    BY <1>2 DEF RunKeygen, CreateEffects, DestroyEffects
  <2>3. BuiltInv'
    BY <2>1 DEF WholeInv, BuiltInv, Built, VerifiedMeansLive
  <2>4. ReachedInv'
    BY <2>1, <2>2 DEF WholeInv, ReachedInv, Awaits, CreateEffects
  <2>5. LeftInv'
    BY <2>1, <2>2 DEF WholeInv, LeftInv, RemovalIsComplete, Awaits, DestroyEffects
  <2>. QED  BY <2>3, <2>4, <2>5 DEF WholeInv
<1>3. CASE Fails
  BY <1>3, StopKeepsWhole DEF Fails
<1>4. CASE AfterEffect
  <2> DEFINE t == [disk EXCEPT !.pending = None]
  <2>1. ran /\ disk' = t /\ UNCHANGED <<at, cloud, host>>
        /\ effect' = None /\ effect # None
    BY <1>4 DEF AfterEffect, world
  <2>2. t.phase = disk.phase /\ t.has = disk.has /\ t.eip = disk.eip /\ t.dns = disk.dns
    BY DEF SafetyInv, TypeOK, Ec2State
  <2> HIDE DEF t
  <2>3. BuiltInv'
    BY <2>1, <2>2 DEF WholeInv, BuiltInv, Built, VerifiedMeansLive
  <2>4. ReachedInv'
    BY <2>1, <2>2 DEF WholeInv, ReachedInv, Awaits
  <2>5. LeftInv'
    BY <2>1, <2>2 DEF WholeInv, LeftInv, RemovalIsComplete, Awaits
  <2>. QED  BY <2>3, <2>4, <2>5 DEF WholeInv
<1>5. CASE StageInputs
  <2>1. UNCHANGED <<disk, at, effect, cloud>> /\ host'.done = host.done
    BY <1>5 DEF StageInputs, SafetyInv, TypeOK, Host
  <2>2. effect \notin CreateEffects \cup DestroyEffects
    BY <1>5 DEF StageInputs, CreateEffects, DestroyEffects
  <2>3. BuiltInv'
    BY <2>1 DEF WholeInv, BuiltInv, Built, VerifiedMeansLive
  <2>4. ReachedInv'
    BY <2>1, <2>2 DEF WholeInv, ReachedInv, Awaits, CreateEffects
  <2>5. LeftInv'
    BY <2>1, <2>2 DEF WholeInv, LeftInv, RemovalIsComplete, Awaits, DestroyEffects
  <2>. QED  BY <2>3, <2>4, <2>5 DEF WholeInv
<1>. QED  BY <1>1, <1>2, <1>3, <1>4, <1>5 DEF EffectStep

\* The other actions, and the invariant.
LEMMA NextKeepsWhole ==
  ASSUME SafetyInv, WholeInv, [Next]_vars
  PROVE  WholeInv'
<1>t. disk \in Ec2State /\ cloud \in Cloud
  BY DEF SafetyInv, TypeOK
<1>1. CASE ApplyStep
  BY <1>1, ApplyBuilds
<1>2. CASE DestroyStep
  BY <1>2, DestroyLeaves
<1>3. CASE EffectStep
  BY <1>3, EffectsKeepWhole
<1>4. CASE Abort
  BY <1>4, StopKeepsWhole DEF Abort
<1>5. CASE ZoneEdit
  <2>1. /\ cloud'.dns # "owned" /\ cloud'.vol = cloud.vol /\ cloud'.sg = cloud.sg
        /\ cloud'.inst = cloud.inst /\ cloud'.eips = cloud.eips
        /\ cloud'.key = cloud.key /\ cloud'.assoc = cloud.assoc
        /\ UNCHANGED <<disk, host, at, effect, ran>>
    BY <1>t, <1>5 DEF ZoneEdit, Cloud
  <2>2. BuiltInv'
    BY <2>1 DEF WholeInv, BuiltInv, Built, VerifiedMeansLive
  <2>3. ReachedInv'
    BY <2>1 DEF WholeInv, ReachedInv, Awaits
  <2>4. LeftInv'
    BY <2>1 DEF WholeInv, LeftInv, RemovalIsComplete, Awaits
  <2>. QED  BY <2>2, <2>3, <2>4 DEF WholeInv
<1>6. CASE UNCHANGED vars \/ \E p \in Procs : Resume(p)
  <2>1. UNCHANGED <<disk, cloud, host, at, effect, ran>>
    BY <1>6 DEF vars, Resume, world
  <2>2. BuiltInv'
    BY <2>1 DEF WholeInv, BuiltInv, Built, VerifiedMeansLive
  <2>3. ReachedInv'
    BY <2>1 DEF WholeInv, ReachedInv, Awaits
  <2>4. LeftInv'
    BY <2>1 DEF WholeInv, LeftInv, RemovalIsComplete, Awaits
  <2>. QED  BY <2>2, <2>3, <2>4 DEF WholeInv
<1>7. CASE ApplyCall \/ DestroyCall \/ PurgeCall \/ \E p \in Procs : Verify(p)
  BY <1>7, CallsKeepWhole
<1>8. CASE VerifyCommand \/ PurgeVolume \/ RecordPurge
  BY <1>8, CommandsKeepWhole
<1>. QED
  BY <1>1, <1>2, <1>3, <1>4, <1>5, <1>6, <1>7, <1>8 DEF Next, Step, Finished

\* What apply built and destroy removed is what the state file says.
THEOREM WholeSafety == Spec => []WholeInv
<1>1. Init => WholeInv
  <2> SUFFICES ASSUME Init  PROVE  WholeInv
    OBVIOUS
  <2>1. /\ disk.phase = "Absent" /\ at = "idle" /\ cloud.inst = "none"
        /\ cloud.assoc = None
    BY DEF Init, NewState
  <2>2. BuiltInv
    BY <2>1, PhaseTables DEF BuiltInv, VerifiedMeansLive, ResumablePhases
  <2>3. ReachedInv
    BY <2>1, ReachTables, Tables DEF ReachedInv
  <2>4. LeftInv
    BY <2>1, ReachTables, Tables, PhaseTables DEF LeftInv, RemovalIsComplete
  <2>. QED  BY <2>2, <2>3, <2>4 DEF WholeInv
<1>2. SafetyInv /\ WholeInv /\ [Next]_vars => WholeInv'
  BY NextKeepsWhole
<1>. QED  BY <1>1, <1>2, Safety, PTL DEF Spec

\* Wherever a destroy was interrupted and however the deployment before it was: once the
\* state file says removed, only the tagged volume and an unrecorded address are left.
THEOREM RemovalSafety == Spec => []RemovalIsComplete
<1>1. WholeInv => RemovalIsComplete
  BY DEF WholeInv, LeftInv
<1>. QED  BY <1>1, WholeSafety, PTL

\* A target that is recorded as verified has all that the commands rely on which
\* require the phase, whichever call of apply or verify recorded it.
THEOREM VerifiedIsLive == Spec => []VerifiedMeansLive
<1>1. WholeInv => VerifiedMeansLive
  BY DEF WholeInv, BuiltInv
<1>. QED  BY <1>1, WholeSafety, PTL
=============================================================================
