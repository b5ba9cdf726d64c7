------------------------------ MODULE Ec2Update ------------------------------
(***************************************************************************)
(* The operations on a target whose instance exists (src/aws_ec2/          *)
(* workflow.rs): the installing part of apply, verify, the one admitted    *)
(* update 0.1.1 -> 0.1.4, its rollback, the recovery of a false runtime    *)
(* and its attestation, and the rebinding of the operator's SSH address.   *)
(* HostStaging is what they do on the host, HostInstaller what runs there; *)
(* Ec2Lifecycle is what apply does before and destroy after.               *)
(*                                                                         *)
(* All of them hold the target's lock from the read of the state file to   *)
(* their end, so one runs at a time.  A fault may end it at every point.   *)
(***************************************************************************)
EXTENDS HostStaging, FiniteSets

CONSTANTS
  Base, Bootstrap, Recovery, \* helpers that apply, update and recovery need, in order
  Cidrs,       \* addresses the operator may have
  MaxMoves     \* bound: changes of the operator's address

VARIABLES
  rec,      \* the facts of Ec2State these operations use
  files,    \* artifacts in the state directory
  ingress,  \* addresses the security group lets in on port 22
  addr,     \* the operator's address
  moves,    \* changes of addr so far
  op        \* the operation that holds the lock, or None

vars == <<hvars, rec, files, ingress, addr, moves, op>>
local == <<rec, files>>
cloud == <<ingress, addr, moves>>

-----------------------------------------------------------------------------

UpdatePhases == {"UpdateStaged", "UpdateInstalling", "UpdateVerifying"}
RollbackPhases == {"RollbackStaged", "RollbackInstalling"}
\* HostKeyPinned stands for every phase of apply before the first installation,
\* Installed for those between it and Verified.
Phases == {"HostKeyPinned", "Installed", "Verified", "RolledBack"}
            \cup UpdatePhases \cup RollbackPhases

Record == [phase    : Phases,
           desired  : Releases,
           current  : Releases \cup {None},  receipt         : Receipts,
           previous : Releases \cup {None},  previousReceipt : Receipts,
           cidr     : Cidrs]

\* update-candidate.bundle, update-candidate.request, rollback.request and the
\* sealed recovery helper.
Artifacts == [candidate : Releases \cup {None}, request : Requests \cup {None},
              rollback  : Requests \cup {None}, sealed  : BOOLEAN]

Request(release, receipt) == [rel |-> release, prev |-> receipt]
Reaches(request, state) == Append(request.prev, <<request.rel, state>>)

RecoveryHelpers == {Recovery[k] : k \in DOMAIN Recovery}
Bridge == <<"bridge-r3">>
Authorize == [plain |-> <<"authorize">>, keep |-> <<"authorize-keep-bridge">>]
Revoke == [plain |-> <<"revoke">>, keep |-> <<"revoke-keep-bridge">>]
\* runtime_recovery_pending_effect
RecoveryPending ==
  {<<"run-r2">>, Bridge, <<"recover">>, <<"attest">>} \cup
  {<<p, h>> : p \in {"clear-upload", "stage", "protect", "clear-atomic", "prepare", "activate"},
              h \in RecoveryHelpers}
\* ensure_rebind_pending_effect, and those of its markers that keep the bridge
KeepsBridge == {Bridge, Authorize.keep, Revoke.keep}
RebindPending == {None, Authorize.plain, Revoke.plain} \cup KeepsBridge

Operation == [kind : {"apply", "verify", "update", "rollback", "recover", "attest", "rebind"},
              at   : {"directory", "record", "verify", "bundle", "request", "persist", "capacity",
                      "bootstrap", "installing", "seal", "run", "attest", "read", "authorize", "revoke", "rebound"},
              rel  : Releases,
              to   : Cidrs,
              keep : BOOLEAN]

ASSUME UpdateAssumption ==
  /\ MaxMoves \in Nat
  /\ Base \in Seq(Helpers) /\ Bootstrap \in Seq(Helpers) /\ Recovery \in Seq(Helpers)
  /\ None \notin Operation

NewTarget(cidr, release) ==
  /\ rec = [phase |-> "HostKeyPinned", desired |-> release, current |-> None, receipt |-> <<>>,
            previous |-> None, previousReceipt |-> <<>>, cidr |-> cidr]
  /\ files = [candidate |-> None, request |-> None, rollback |-> None, sealed |-> FALSE]
  /\ current = <<>> /\ history = {} /\ runtime = None /\ proof = None
  /\ pending = None
  /\ helper = [h \in Helpers |-> [place \in Places |-> None]]

\* A target whose recovery r2 an earlier version of the tool began: its program was
\* killed before it did anything, or after it wrote its proof.
FalseRuntime(cidr, candidate) ==
  LET before == <<Installed(Old)>>  after == Append(before, Installed(candidate))
  IN /\ rec = [phase |-> "Verified", desired |-> candidate, current |-> candidate, receipt |-> after,
               previous |-> Old, previousReceipt |-> before, cidr |-> cidr]
     /\ files = [candidate |-> candidate, request |-> Request(candidate, before),
                 rollback |-> None, sealed |-> FALSE]
     /\ current = after /\ history = {before, after}
     /\ \/ runtime = False     /\ proof = None
        \/ runtime = candidate /\ proof = <<"r2", after>>
     /\ pending = <<"run-r2">>
     /\ helper = [h \in Helpers |-> [place \in Places |->
                    IF place = "installed" /\ h \notin RecoveryHelpers THEN Whole("root") ELSE None]]

Init ==
  /\ StagingInit
  /\ \E cidr \in Cidrs :
       /\ ingress = {cidr} /\ addr = cidr
       /\ \/ \E release \in Releases : NewTarget(cidr, release)
          \/ \E candidate \in Candidates : FalseRuntime(cidr, candidate)
  /\ moves = 0
  /\ op = None

Running(kinds, point) == op # None /\ op.kind \in kinds /\ op.at = point /\ job = None
Then(point) == op' = [op EXCEPT !.at = point]
Reach == addr \in ingress

\* The operation takes the lock and has passed the checks of its preamble.
Start(kind, point, release) ==
  /\ op = None
  /\ op' = [kind |-> kind, at |-> point, rel |-> release, to |-> rec.cidr, keep |-> FALSE]
  /\ UNCHANGED <<remote, job, faults, files, cloud>>

\* The operation runs a job on the host, then goes on.
OnHost(left, request, goal, by, point) ==
  /\ Begin(left, request, goal, by) /\ Then(point)
  /\ UNCHANGED <<pending, cloud>>

-----------------------------------------------------------------------------
(* apply, from ensure_host_helpers on *)

\* ensure_apply_resumable_phase, ensure_apply_identity; ensure_security_group
\* refuses a group that lets in anybody but the recorded address.
Apply ==
  /\ rec.phase \in {"HostKeyPinned", "Installed", "Verified"}
  /\ ingress = {rec.cidr}
  /\ Start("apply", "directory", rec.desired)
  /\ UNCHANGED <<pending, rec>>

\* The fixed directory of the helpers; creating it again changes nothing.
EnsureDirectory ==
  /\ Running({"apply"}, "directory") /\ Reach
  /\ \/ /\ LET request == Request(rec.desired, <<>>)
           IN Begin(Base, IF rec.current = None THEN request ELSE None,
                    Reaches(request, "installed"), "retained")
        /\ pending' = None /\ Then("record")
     \/ /\ Interrupted(<<"directory">>) /\ op' = None /\ UNCHANGED remote
  /\ UNCHANGED <<local, cloud>>

\* install_initial after the job; what follows up to Installed is Ec2Lifecycle's.
RecordInstalled ==
  /\ Running({"apply"}, "record")
  /\ Then("verify")
  /\ IF rec.current = None
     THEN rec' = [rec EXCEPT !.current = op.rel,
                             !.receipt = Reaches(Request(op.rel, <<>>), "installed"),
                             !.phase = "Installed"]
     ELSE UNCHANGED rec
  /\ UNCHANGED <<hvars, files, cloud>>

Verify ==
  /\ rec.phase \in {"Installed", "Verified"}
  /\ Start("verify", "verify", rec.desired)
  /\ UNCHANGED <<pending, rec>>

\* verify_live_locked, and the phase its callers persist after it.  verify leaves
\* the marker alone.
VerifyLive ==
  /\ Running({"apply", "verify", "update"}, "verify") /\ Reach
  /\ op' = None
  /\ IF current = rec.receipt
     THEN /\ rec' = [rec EXCEPT !.phase = "Verified"]
          /\ pending' = IF op.kind = "verify" THEN pending ELSE None
     ELSE UNCHANGED <<rec, pending>>
  /\ UNCHANGED <<remote, job, faults, files, cloud>>

-----------------------------------------------------------------------------
(* update *)

Unverified == rec.phase = "UpdateVerifying"
Prior == IF Unverified THEN rec.previous ELSE rec.current
PriorReceipt == IF Unverified THEN rec.previousReceipt ELSE rec.receipt

\* ensure_cross_version_contract: only from 0.1.1 to 0.1.4.
Contract(prior, receipt, candidate) ==
  prior = Old /\ Last(receipt)[1] = prior /\ candidate \in Candidates

\* authenticate_retained_install_evidence: the release to go back to was the first one.
FirstInstalled(release, receipt) == receipt = Reaches(Request(release, <<>>), "installed")

Update(candidate) ==
  /\ rec.phase \in {"Installed", "Verified"} \cup UpdatePhases
  /\ Contract(Prior, PriorReceipt, candidate)
  /\ FirstInstalled(Prior, PriorReceipt)
  /\ rec.phase \in UpdatePhases => rec.desired = candidate
  /\ Start("update", IF rec.phase \in UpdatePhases THEN "capacity" ELSE "bundle", candidate)
  /\ UNCHANGED <<pending, rec>>

WriteBundle ==
  /\ Running({"update"}, "bundle")
  /\ files' = [files EXCEPT !.candidate = op.rel]
  /\ Then("request")
  /\ UNCHANGED <<hvars, rec, cloud>>

WriteRequest ==
  /\ Running({"update"}, "request")
  /\ files' = [files EXCEPT !.request = Request(op.rel, rec.receipt)]
  /\ Then("persist")
  /\ UNCHANGED <<hvars, rec, cloud>>

StageUpdate ==
  /\ Running({"update"}, "persist")
  /\ rec' = [rec EXCEPT !.previous = rec.current, !.previousReceipt = rec.receipt,
                        !.desired = op.rel, !.phase = "UpdateStaged"]
  /\ pending' = None
  /\ Then("capacity")
  /\ UNCHANGED <<remote, job, faults, files, cloud>>

\* authenticate_install_request_artifact: a request in the state directory asks for this
\* release on top of this receipt.
Asks(request, release, predecessor) == request = Request(release, predecessor)

\* authenticate_update_recovery_artifacts and the checks of the request
CandidateIsStaged ==
  /\ FirstInstalled(rec.previous, rec.previousReceipt)
  /\ files.candidate = rec.desired
  /\ Asks(files.request, rec.desired, rec.previousReceipt)
  /\ rec.current = rec.desired => rec.receipt = Reaches(files.request, "installed")

\* ensure_update_capacity reads the free space of the host.
CheckCapacity ==
  /\ Running({"update"}, "capacity") /\ Reach /\ CandidateIsStaged
  /\ Then("bootstrap")
  /\ UNCHANGED <<hvars, local, cloud>>

EnsureBootstrap ==
  /\ Running({"update"}, "bootstrap")
  /\ OnHost(Bootstrap, None, <<>>, "bootstrap", "installing")
  /\ UNCHANGED local

\* Mutant. A phase is skipped.
InstallUpdateVerifying ==
  /\ Running({"update"}, "installing")
  /\ rec' = [rec EXCEPT !.phase = "UpdateVerifying"]
  /\ OnHost(<<>>, files.request, Reaches(files.request, "installed"), "bootstrap", "record")
  /\ UNCHANGED files

\* Mutant. The installation is not announced in the state file.
InstallUpdateUnannounced ==
  /\ Running({"update"}, "installing")
  /\ OnHost(<<>>, files.request, Reaches(files.request, "installed"), "bootstrap", "record")
  /\ UNCHANGED <<rec, files>>

\* UpdateInstalling is persisted whatever the phase was.
InstallUpdate ==
  /\ Running({"update"}, "installing")
  /\ rec' = [rec EXCEPT !.phase = "UpdateInstalling"]
  /\ OnHost(<<>>, files.request, Reaches(files.request, "installed"), "bootstrap", "record")
  /\ UNCHANGED files

RecordUpdate ==
  /\ Running({"update"}, "record")
  /\ rec' = [rec EXCEPT !.current = op.rel, !.receipt = Reaches(files.request, "installed"),
                        !.phase = "UpdateVerifying"]
  /\ Then("verify")
  /\ UNCHANGED <<hvars, files, cloud>>

-----------------------------------------------------------------------------
(* rollback_update *)

\* authenticate_rollback_recovery_artifacts
RollbackIsStaged ==
  /\ FirstInstalled(rec.previous, rec.previousReceipt)
  /\ Asks(files.request, rec.current, rec.previousReceipt)
  /\ rec.receipt = Reaches(files.request, "installed")

RollbackUpdate ==
  /\ rec.phase \in {"UpdateVerifying"} \cup RollbackPhases
  /\ RollbackIsStaged
  /\ Start("rollback", "request", rec.previous)
  /\ UNCHANGED <<pending, rec>>

WriteRollback ==
  /\ Running({"rollback"}, "request")
  /\ files' = [files EXCEPT !.rollback = Request(op.rel, rec.receipt)]
  /\ Then("persist")
  /\ UNCHANGED <<hvars, rec, cloud>>

StageRollback ==
  /\ Running({"rollback"}, "persist")
  /\ rec' = [rec EXCEPT !.phase = "RollbackStaged"]
  /\ Then("installing")
  /\ UNCHANGED <<hvars, files, cloud>>

InstallRollback ==
  /\ Running({"rollback"}, "installing")
  /\ rec' = [rec EXCEPT !.phase = "RollbackInstalling"]
  /\ OnHost(<<>>, files.rollback, Reaches(files.rollback, "rolled_back"), "retained", "record")
  /\ UNCHANGED files

RecordRollback ==
  /\ Running({"rollback"}, "record")
  /\ rec' = [rec EXCEPT !.current = op.rel, !.receipt = Reaches(files.rollback, "rolled_back"),
                        !.phase = "RolledBack"]
  /\ pending' = None
  /\ op' = None
  /\ UNCHANGED <<remote, job, faults, files, cloud>>

-----------------------------------------------------------------------------
(* recover_runtime_011_to_014 and its attestation *)

\* authenticate_runtime_recovery_evidence
RecoveryEvidence ==
  /\ Asks(files.request, rec.current, rec.previousReceipt)
  /\ rec.receipt = Reaches(files.request, "installed")
  /\ CandidateIsStaged

\* admit_runtime_recovery
Recoverable ==
  /\ rec.phase = "Verified"
  /\ rec.current = rec.desired /\ rec.current \in Candidates /\ rec.previous = Old
  /\ Front(rec.receipt) = rec.previousReceipt
  /\ RecoveryEvidence

\* A recovery r2 left by an earlier version is taken over.
Recover ==
  /\ Recoverable
  /\ pending \in {None} \cup RecoveryPending
  /\ Start("recover", "seal", rec.desired)
  /\ pending' = IF pending = <<"run-r2">> THEN Bridge ELSE pending
  /\ UNCHANGED rec

\* seal_runtime_recovery_r3_helper, ensure_runtime_recovery_r3_helpers
SealRecovery ==
  /\ Running({"recover"}, "seal")
  /\ files' = [files EXCEPT !.sealed = TRUE]
  /\ OnHost(Recovery, None, <<>>, "recover", "run")
  /\ UNCHANGED rec

\* A program without inputs: its job begins where the installer is started.
RunProgram(program, point) ==
  /\ Reach
  /\ job' = [at |-> "installer", left |-> <<>>, request |-> None, goal |-> rec.receipt,
             by |-> program]
  /\ Then(point)
  /\ UNCHANGED <<remote, pending, faults, local, cloud>>

RunRecovery == Running({"recover"}, "run") /\ RunProgram("recover", "attest")

\* attest_runtime_011_to_014, which also admits a client binding: no marker may be left.
Attest ==
  /\ Recoverable
  /\ pending = None
  /\ Start("attest", "attest", rec.desired)
  /\ UNCHANGED <<pending, rec>>

\* attest_runtime_011_to_014_locked_inner: a helper that is missing is not installed here.
AttesterInPlace ==
  files.sealed /\ \A h \in RecoveryHelpers : helper[h]["installed"] = Whole("root")

RunAttester ==
  /\ Running({"recover", "attest"}, "attest")
  /\ AttesterInPlace
  /\ RunProgram("attest", "read")

\* The attestation is read and compared with the state; then the marker goes.
ReadAttestation ==
  /\ Running({"recover", "attest"}, "read") /\ Reach
  /\ proof = <<"r3", rec.receipt>>
  /\ op' = None
  /\ pending' = None
  /\ UNCHANGED <<remote, job, faults, local, cloud>>

-----------------------------------------------------------------------------
(* rebind_operator_cidr: it speaks to AWS only, so it works from any address. *)

\* ensure_rebind_phase: no update, rollback or removal is under way.
RebindPhase == rec.phase \in {"HostKeyPinned", "Installed", "Verified"}

\* classify_rebind_ingress: what the group may let in when rec.cidr is to be replaced.
RebindShapes(cidr) == {{rec.cidr}, {rec.cidr, cidr}, {cidr}}

\* Mutant. The old address is revoked before the new one is authorized.
RebindRevokesFirst(cidr) ==
  /\ RebindPhase
  /\ pending \in RebindPending
  /\ cidr # rec.cidr
  /\ ingress \in RebindShapes(cidr)
  /\ op = None
  /\ op' = [kind |-> "rebind", rel |-> rec.desired, to |-> cidr,
            at   |-> IF rec.cidr \in ingress THEN "revoke" ELSE "rebound",
            keep |-> pending \in KeepsBridge]
  /\ UNCHANGED <<hvars, local, cloud>>

\* Mutant. The shape a crash after the revocation leaves is not accepted.
RebindFromOldOnly(cidr) ==
  /\ RebindPhase
  /\ pending \in RebindPending
  /\ cidr # rec.cidr
  /\ ingress \in {{rec.cidr}, {rec.cidr, cidr}}
  /\ op = None
  /\ op' = [kind |-> "rebind", rel |-> rec.desired, to |-> cidr,
            at   |-> IF cidr \in ingress THEN "revoke" ELSE "authorize",
            keep |-> pending \in KeepsBridge]
  /\ UNCHANGED <<hvars, local, cloud>>

\* The operator is let in from the new address before the old one is shut out.
Rebind(cidr) ==
  /\ RebindPhase
  /\ pending \in RebindPending
  /\ cidr # rec.cidr
  /\ ingress \in RebindShapes(cidr)
  /\ op = None
  /\ op' = [kind |-> "rebind", rel |-> rec.desired, to |-> cidr,
            at   |-> CASE ingress = {rec.cidr}       -> "authorize"
                       [] ingress = {rec.cidr, cidr} -> "revoke"
                       [] ingress = {cidr}           -> "rebound",
            keep |-> pending \in KeepsBridge]
  /\ UNCHANGED <<hvars, local, cloud>>

\* run_rebind_effect: a recovery that is bridged stays marked.
RebindEffect(marks, group, point) ==
  /\ \/ /\ ingress' = group
        /\ pending' = IF op.keep THEN Bridge ELSE None
        /\ Then(point) /\ UNCHANGED faults
     \/ /\ faults < MaxFaults /\ faults' = faults + 1
        /\ ingress' \in {ingress, group}
        /\ pending' = IF op.keep THEN marks.keep ELSE marks.plain
        /\ op' = None
  /\ UNCHANGED <<remote, job, local, addr, moves>>

AuthorizeNew ==
  /\ Running({"rebind"}, "authorize")
  /\ RebindEffect(Authorize, ingress \cup {op.to}, "revoke")
RevokeOld ==
  /\ Running({"rebind"}, "revoke")
  /\ RebindEffect(Revoke, ingress \ {rec.cidr}, "rebound")

RecordRebind ==
  /\ Running({"rebind"}, "rebound")
  /\ rec' = [rec EXCEPT !.cidr = op.to]
  /\ pending' = IF op.keep THEN Bridge ELSE None
  /\ op' = None
  /\ UNCHANGED <<remote, job, faults, files, cloud>>

-----------------------------------------------------------------------------

\* A step of the job; when the job ends before it is done, so does the operation.
JobStep ==
  /\ job # None /\ job.at # "done" /\ Reach
  /\ EnsureHelpers \/ StageInstall
  /\ op' = IF job' = None THEN None ELSE op
  /\ UNCHANGED <<local, cloud>>

JobDone ==
  /\ At("done")
  /\ job' = None
  /\ UNCHANGED <<remote, pending, faults, local, cloud, op>>

\* ssh is refused, once the marker of the command is written.
Mark == CASE job # None /\ job.at \in {"clear-upload", "stage", "prepare"} -> <<job.at, Helper>>
          [] job # None /\ job.at = "clear-inputs"                         -> <<job.at>>
          [] job # None /\ job.at = "installer"                            -> <<job.by>>
          [] job = None /\ op.at = "directory"                             -> <<"directory">>
          [] OTHER                                                         -> pending
Unreachable ==
  /\ ~Reach
  /\ \/ job # None /\ job.at # "done"
     \/ job = None /\ op # None /\ op.at \in {"directory", "verify", "capacity", "run", "attest", "read"}
  /\ pending' = Mark
  /\ Abandon /\ op' = None
  /\ UNCHANGED <<faults, local, cloud>>

\* What the operation reads is not what it needs.
Refused ==
  /\ \/ Running({"update"}, "capacity") /\ ~CandidateIsStaged
     \/ Running({"recover", "attest"}, "attest") /\ ~AttesterInPlace
     \/ Running({"recover", "attest"}, "read") /\ proof # <<"r3", rec.receipt>>
  /\ op' = None
  /\ UNCHANGED <<hvars, local, cloud>>

\* The deployer is killed, or a reading command fails.
Fail ==
  /\ op # None
  /\ faults < MaxFaults /\ faults' = faults + 1
  /\ Abandon /\ op' = None
  /\ UNCHANGED <<pending, local, cloud>>

OnlyInstaller == UNCHANGED <<helper, pending, job, local, cloud, op>>
InstallerWorks == InstallerStep /\ OnlyInstaller /\ UNCHANGED faults
InstallerFails ==
  /\ faults < MaxFaults /\ faults' = faults + 1
  /\ InstallerDies \/ ActivateFails
  /\ OnlyInstaller

Move ==
  /\ moves < MaxMoves /\ moves' = moves + 1
  /\ addr' \in Cidrs \ {addr}
  /\ UNCHANGED <<hvars, local, ingress, op>>

Step ==
  \/ EnsureDirectory \/ RecordInstalled \/ VerifyLive
  \/ WriteBundle \/ WriteRequest \/ StageUpdate \/ CheckCapacity
  \/ EnsureBootstrap \/ InstallUpdate \/ RecordUpdate
  \/ WriteRollback \/ StageRollback \/ InstallRollback \/ RecordRollback
  \/ SealRecovery \/ RunRecovery \/ RunAttester \/ ReadAttestation
  \/ AuthorizeNew \/ RevokeOld \/ RecordRebind
  \/ JobStep \/ JobDone \/ Unreachable \/ Refused

Next ==
  \/ Apply \/ Verify \/ RollbackUpdate \/ Recover \/ Attest
  \/ \E candidate \in Candidates : Update(candidate)
  \/ \E cidr \in Cidrs : Rebind(cidr)
  \/ Step \/ InstallerWorks
  \/ Fail \/ InstallerFails \/ Move

Spec == Init /\ [][Next]_vars

\* Commands are repeated until they succeed, a rebind to the address it was begun for
\* before it is tried for the present one; the programs on the host come to an end.
Fairness ==
  /\ WF_vars(Step) /\ WF_vars(InstallerWorks)
  /\ SF_vars(\E candidate \in Candidates : Update(candidate))
  /\ SF_vars(Recover)
  /\ SF_vars(\E cidr \in ingress : Rebind(cidr))
  /\ SF_vars(\E cidr \in Cidrs : cidr = addr /\ Rebind(cidr))

FairSpec == Spec /\ Fairness

-----------------------------------------------------------------------------

TypeOK ==
  /\ input \in [InputNames -> Inputs]
  /\ current \in Receipts /\ history \subseteq Receipts
  /\ runtime \in Releases \cup {False, Mixed, None}
  /\ proof \in {<<kind, r>> : kind \in {"r2", "r3"}, r \in Receipts} \cup {None}
  /\ transition \in BOOLEAN
  /\ work \in Work \cup {None} /\ orphans \subseteq Programs /\ exit \in {"ok", "failed", None}
  /\ helper \in [Helpers -> [Places -> Copies]]
  /\ pending \in Effects \cup RecoveryPending \cup RebindPending \cup {<<"directory">>}
  /\ job \in Job \cup {None}
  /\ rec \in Record /\ files \in Artifacts
  /\ ingress \in SUBSET Cidrs /\ addr \in Cidrs
  /\ faults \in 0..MaxFaults /\ moves \in 0..MaxMoves
  /\ op \in Operation \cup {None}

-----------------------------------------------------------------------------
(* Safety *)

\* An executable in the directory of helpers is whole, however often its upload, copy or
\* move was interrupted (ensure_host_helper).
InstalledHelpersWhole ==
  \A h \in Helpers : helper[h]["installed"] \in {None, Whole("root")}

\* In the phases that claim an end of the work, the host has the receipt the state file
\* records, whatever programs of earlier attempts are still waiting or at work there.
\* Only a rollback may be done once more: a bootstrap that an attempt of the update left
\* waiting, given the uploads of a repeated rollback, installs 0.1.1 again.
RecordFollowsHost ==
  /\ rec.phase \in {"Installed", "Verified", "UpdateStaged", "UpdateVerifying"}
       => current = rec.receipt
  /\ rec.phase = "RolledBack" =>
       LET left == Front(rec.receipt)
       IN /\ rec.receipt = Append(left, RolledBack(Old))
          /\ current \in {rec.receipt, Append(left, Installed(Old))}

\* The release that a program on the host brings up is the one the state file is about
\* to install, also when the program was left behind by an attempt of before.
RunsWhatIsRecorded ==
  [][runtime' # runtime /\ runtime' \in Releases =>
       \/ rec.phase = "HostKeyPinned"      /\ runtime' = rec.desired
       \/ rec.phase = "UpdateInstalling"   /\ runtime' \in {rec.desired, rec.previous}
       \/ rec.phase \in {"RolledBack"} \cup RollbackPhases /\ runtime' = rec.previous
       \/ rec.phase = "Verified"           /\ runtime' = rec.current /\ work.by = "recover"]_vars

\* An attestation that the deployer accepts is true of what runs (client bindings are
\* admitted on its word), and no recovery is half done then.
AcceptedProofIsTrue ==
  [][ReadAttestation => runtime = rec.current /\ ~transition]_vars

\* SSH is open to one address, or while it is replaced to that and its successor, however
\* often a rebind was interrupted and for whichever address it was repeated: never to
\* nobody, and never to an address beside the two (rebind_operator_cidr).
IngressIsBounded ==
  /\ ingress # {} /\ Cardinality(ingress) <= 2
  /\ Cardinality(ingress) = 2 => rec.cidr \in ingress

\* ReleaseChain: the host is at most one activation ahead of the state file.
Path(receipt) == [i \in DOMAIN receipt |-> receipt[i][1]]
Chain == INSTANCE ReleaseChain
           WITH done <- Path(current), known <- Path(rec.receipt), Results <- Releases
ChainSpec == Chain!Spec

-----------------------------------------------------------------------------
(* Liveness *)

\* A repeated attempt in UpdateVerifying that failed, and an activation the host has
\* rolled back, are the two states no update leaves again.
StuckUpdate ==
  rec.phase = "UpdateInstalling" /\ (rec.current # Old \/ Last(current)[2] = "rolled_back")

\* An update that was begun and is repeated ends: it is verified or rolled back.
UpdateSettles ==
  (rec.phase \in UpdatePhases) ~> (rec.phase \notin UpdatePhases \/ StuckUpdate \/ ~Reach)

\* The same without exception.
UpdateResumes ==
  (rec.phase \in UpdatePhases) ~> (rec.phase \notin UpdatePhases \/ ~Reach)

\* An operator who is let in only from an old address gets in again by repeating rebind,
\* unless a command over ssh is pending, an update is under way, or it was rolled back.
RebindConverges ==
  (rec.phase \in {"Installed", "Verified"} /\ pending \in RebindPending /\ ~Reach)
    ~> (Reach \/ pending \notin RebindPending \/ rec.phase \notin {"Installed", "Verified"})
=============================================================================
