----------------------------- MODULE HostStaging -----------------------------
(***************************************************************************)
(* How the deployer works on the host over ssh and scp (src/aws_ec2/       *)
(* workflow.rs): ensure_host_helper, which uploads an executable and moves *)
(* it into place, and stage_install_read_receipt, which stages the two     *)
(* inputs of the installer, runs it and reads the receipt.  A caller asks  *)
(* for one job at a time.                                                  *)
(*                                                                         *)
(* A fault is a kill of the deployer, a lost connection or a deadline that *)
(* passes: the command that runs may have been carried out, not at all, or *)
(* in part, and its marker stays in the state file.                        *)
(***************************************************************************)
EXTENDS HostInstaller

CONSTANTS
  Helpers,    \* executables kept in /usr/local/libexec/dirextalk
  MaxFaults   \* bound: faults in a behaviour

VARIABLES
  helper,   \* the copies of the helpers on the host
  pending,  \* Ec2State.pending_effect: the command that was begun and not acknowledged
  job,      \* what the deployer is doing on the host, or None
  faults    \* faults so far

hvars == <<installer, helper, pending, job, faults>>
remote == <<installer, helper>>

-----------------------------------------------------------------------------

Points == {"helpers", "clear-upload", "stage", "protect", "clear-atomic", "prepare",
           "activate", "receipt", "clear-inputs", "bundle", "request", "installer",
           "waiting", "running", "installed", "done"}
\* The helpers that are left, the request, the receipt it is to end in, the program.
Job == [at : Points, left : Seq(Helpers), request : Requests \cup {None},
        goal : Receipts, by : Programs]
ASSUME StagingAssumption == MaxFaults \in Nat /\ None \notin Helpers \cup Job
Effects == {<<name>> : name \in Points \cup Programs} \cup {<<point, h>> : point \in Points, h \in Helpers}
             \cup {<<point, i>> : point \in {"stage", "protect", "own"}, i \in InputNames}

\* A copy of a helper: whole, or cut off; who may write it.
Copies == [whole : BOOLEAN, mode : Modes] \cup {None}
Whole(mode) == [whole |-> TRUE, mode |-> mode]
CutOff(mode) == [whole |-> FALSE, mode |-> mode]
Places == {"upload", "atomic", "installed"}

StagingInit ==
  /\ InstallerInit
  /\ job = None
  /\ faults = 0

At(point) == job # None /\ job.at = point
Goto(point) == [job EXCEPT !.at = point]

\* A caller starts a job.
Begin(left, request, goal, by) ==
  /\ job = None
  /\ job' = [at |-> "helpers", left |-> left, request |-> request, goal |-> goal, by |-> by]
  /\ UNCHANGED <<remote, faults>>

\* run_effect: the marker is written, the command runs, the marker is erased.  A fault
\* ends the job between any two of the three.
Acknowledged(next) == pending' = None /\ job' = next /\ UNCHANGED faults
Interrupted(id) ==
  /\ faults < MaxFaults /\ faults' = faults + 1
  /\ pending' = id /\ job' = None

\* A command that only reads was refused or disagrees: the operation ends.
Refuse == job' = None /\ UNCHANGED <<remote, pending, faults>>
Proceed(next) == job' = next /\ UNCHANGED <<remote, pending, faults>>

-----------------------------------------------------------------------------
(* ensure_host_helper, for one helper of job.left after the other *)

Helper == Head(job.left)
Copy(place) == helper[Helper][place]
NextHelper == [job EXCEPT !.at = "helpers", !.left = Tail(@)]

HelperEffect(after, torn, next) ==
  /\ \/ helper' = after /\ Acknowledged(next)
     \/ helper' \in {helper, after} \cup torn /\ Interrupted(<<job.at, Helper>>)
  /\ UNCHANGED installer
Put(place, copy) == [helper EXCEPT ![Helper][place] = copy]

\* A helper that is in place is checked and left alone; anything else in its
\* place is refused.
InspectHelper ==
  /\ At("helpers") /\ job.left # <<>>
  /\ \/ Copy("installed") = None /\ Proceed(Goto("clear-upload"))
     \/ Copy("installed") = Whole("root") /\ Proceed(NextHelper)
     \/ Copy("installed") \notin {None, Whole("root")} /\ Refuse

ClearUpload == At("clear-upload") /\ HelperEffect(Put("upload", None), {}, Goto("stage"))

StageHelper ==
  /\ At("stage")
  /\ HelperEffect(Put("upload", Whole("staged")), {Put("upload", CutOff("staged"))},
                  Goto("protect"))

\* The upload is compared with the digest before it is made read-only.
ProtectHelper ==
  /\ At("protect")
  /\ IF Copy("upload") = Whole("staged")
     THEN HelperEffect(Put("upload", Whole("protected")), {}, Goto("clear-atomic"))
     ELSE Refuse

ClearAtomic == At("clear-atomic") /\ HelperEffect(Put("atomic", None), {}, Goto("prepare"))

\* Mutant. The helper is copied to its place.
PrepareInPlace ==
  /\ At("prepare")
  /\ HelperEffect(Put("installed", [Copy("upload") EXCEPT !.mode = "root"]),
                  {Put("installed", CutOff("root"))}, NextHelper)

PrepareAtomic ==
  /\ At("prepare")
  /\ HelperEffect(Put("atomic", [Copy("upload") EXCEPT !.mode = "root"]),
                  {Put("atomic", CutOff("root"))}, Goto("activate"))

\* mv --no-clobber of the checked copy
ActivateHelper ==
  /\ At("activate")
  /\ IF Copy("atomic") = Whole("root") /\ Copy("installed") = None
     THEN HelperEffect([helper EXCEPT ![Helper] = [@ EXCEPT !["installed"] = Copy("atomic"),
                                                             !["atomic"] = None]],
                       {}, NextHelper)
     ELSE Refuse

HelpersReady ==
  /\ At("helpers") /\ job.left = <<>>
  /\ Proceed(Goto(IF job.request = None THEN "done" ELSE "receipt"))

EnsureHelpers == \/ InspectHelper \/ ClearUpload \/ StageHelper \/ ProtectHelper
                 \/ ClearAtomic \/ PrepareAtomic \/ ActivateHelper \/ HelpersReady

-----------------------------------------------------------------------------
(* stage_install_read_receipt *)

\* Mutant. The inputs of an attempt before are not cleared.
ReadReceiptKeepsInputs ==
  /\ At("receipt")
  /\ \/ current = job.goal /\ Proceed(Goto("done"))
     \/ current \in {<<>>, job.request.prev} /\ Proceed(Goto("bundle"))
     \/ current \notin {job.goal, <<>>, job.request.prev} /\ Refuse

\* read_existing_install_receipt, classify_existing_install_receipt: the goal is
\* reached already, or the host still has the receipt the request starts from, or none.
ReadReceipt ==
  /\ At("receipt")
  /\ \/ current = job.goal /\ Proceed(Goto("done"))
     \/ current = <<>> /\ Proceed(Goto("bundle"))
     \/ current = job.request.prev /\ current # <<>> /\ Proceed(Goto("clear-inputs"))
     \/ current \notin {job.goal, <<>>, job.request.prev} /\ Refuse

InputEffect(id, after, torn, next) ==
  /\ \/ input' = after /\ Acknowledged(next)
     \/ input' \in {input, after} \cup torn /\ Interrupted(id)
  /\ UNCHANGED <<helper, current, history, runtime, proof, transition, work, orphans, exit>>

\* clear_remote_install_inputs: one rm of both files; it may stop in between.
ClearInputs ==
  /\ At("clear-inputs")
  /\ InputEffect(<<job.at>>, [i \in InputNames |-> None], {[input EXCEPT !["bundle"] = None]},
                 Goto("bundle"))

\* classify_install_input: a file of another size is refused.  One that was cut off is
\* shorter, and the inputs of two requests differ in size.
Material(name) == IF name = "bundle" THEN <<job.request.rel>> ELSE <<job.request>>
Disposition(name) == CASE input[name] = None                -> "absent"
                       [] input[name] # None /\ input[name].holds = Material(name) -> input[name].mode
                       [] OTHER                             -> "conflict"
AfterInput(name) == IF name = "bundle" THEN "request" ELSE "installer"

\* reconcile_install_input: from whatever state a fault left, by the steps that miss.
ReconcileInput(name) ==
  LET with(mode) == [input EXCEPT ![name] = [holds |-> Material(name), mode |-> mode]]
      torn == [input EXCEPT ![name] = [holds |-> Torn, mode |-> "staged"]]
  IN /\ At(name)
     /\ \/ Disposition(name) = "absent"    /\ InputEffect(<<"stage", name>>, with("staged"), {torn}, job)
        \/ Disposition(name) = "staged"    /\ InputEffect(<<"protect", name>>, with("protected"), {}, job)
        \/ Disposition(name) = "protected" /\ InputEffect(<<"own", name>>, with("root"), {}, job)
        \/ Disposition(name) = "root"      /\ Proceed(Goto(AfterInput(name)))
        \/ Disposition(name) = "conflict"  /\ Refuse

\* The program is started and waits for the lock.
StartInstaller ==
  /\ At("installer")
  /\ pending' = <<job.by>>
  /\ job' = Goto("waiting")
  /\ UNCHANGED <<remote, faults>>

InstallerTakesLock ==
  /\ At("waiting")
  /\ TakeLock(job.by, TRUE)
  /\ exit' = None
  /\ job' = Goto("running")
  /\ UNCHANGED <<input, current, history, runtime, proof, transition, orphans, helper, pending, faults>>

\* The attester's marker stays until its proof has been read.
InstallerEnded ==
  /\ At("running") /\ exit # None
  /\ job' = IF exit = "ok" THEN Goto("installed") ELSE None
  /\ pending' = IF exit = "ok" /\ job.by # "attest" THEN None ELSE pending
  /\ exit' = None
  /\ UNCHANGED <<input, current, history, runtime, proof, transition, work, orphans, helper, faults>>

\* read-authenticated-installed-receipt
ReadInstalled ==
  /\ At("installed")
  /\ IF current = job.goal THEN Proceed(Goto("done")) ELSE Refuse

\* What a deployer that is gone leaves behind: a program that waits for the lock waits
\* on, one that works works on.
Abandon ==
  /\ IF At("waiting") THEN orphans' = orphans \cup {job.by} ELSE UNCHANGED orphans
  /\ work' = IF work = None THEN None ELSE [work EXCEPT !.watched = FALSE]
  /\ exit' = None
  /\ job' = None
  /\ UNCHANGED <<input, current, history, runtime, proof, transition, helper>>

StageInstall ==
  \/ ReadReceipt \/ ClearInputs \/ \E name \in InputNames : ReconcileInput(name)
  \/ StartInstaller \/ InstallerTakesLock \/ InstallerEnded \/ ReadInstalled
=============================================================================
