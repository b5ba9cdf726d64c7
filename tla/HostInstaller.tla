---------------------------- MODULE HostInstaller ----------------------------
(***************************************************************************)
(* The programs that run as root on the host, kept beside the tests with   *)
(* the digests the deployer pins: the bootstrap of the update 0.1.1 ->     *)
(* 0.1.4 (tests/fixtures/legacy/cross-version-install-vnext), and the      *)
(* recovery and the attester of a false runtime (tests/fixtures/           *)
(* runtime-recovery-r3/install-vnext).  They take one lock, so one works   *)
(* and the others wait; each may be killed between any two of its writes,  *)
(* and goes on when the ssh connection that started it is lost.            *)
(*                                                                         *)
(* A receipt is known by how it came about: <<>> is a host without one,    *)
(* then each element is a release and whether it was installed or restored *)
(* by a rollback.  What precedes the last element is the receipt it names  *)
(* as its predecessor.                                                     *)
(***************************************************************************)
EXTENDS Integers, Sequences, SequencesExt

CONSTANTS
  Old,         \* the release 0.1.1
  Candidates,  \* releases 0.1.4
  None

VARIABLES
  input,    \* the two uploads, /home/ubuntu/dirextalk-vnext.bundle and .request
  current,  \* the receipt current.json
  history,  \* receipts kept by their digest
  runtime,  \* what runs: a release, False or Mixed
  proof,    \* runtime-attestation.json
  transition,   \* the r3 transition marker
  work,     \* the program that holds the lock, or None
  orphans,  \* programs that wait for the lock and whose deployer is gone
  exit      \* how the program the deployer waits for has ended, or None

installer == <<input, current, history, runtime, proof, transition, work, orphans, exit>>

-----------------------------------------------------------------------------

Releases == Candidates \cup {Old}
\* The material of the candidate with the images of 0.1.1: the incident r3 repairs.
False == "false"
Mixed == "mixed"

Installed(release) == <<release, "installed">>
RolledBack(release) == <<release, "rolled_back">>
Receipts == {<<>>} \cup {<<Installed(r)>> : r \in Releases}
              \cup {<<Installed(r), RolledBack(r)>> : r \in Releases}
              \cup {<<Installed(Old), Installed(c)>> : c \in Candidates}
              \cup {<<Installed(Old), Installed(c), RolledBack(Old)>> : c \in Candidates}
              \cup {<<Installed(Old), Installed(c), Installed(Old)>> : c \in Candidates}

\* Requests name a bundle and the receipt they start from.
Requests == [rel : Releases, prev : Receipts]
ASSUME InstallerAssumption ==
  /\ Old \notin Candidates
  /\ None \notin Releases \cup Requests \cup {"ok", "failed"}
  /\ False \notin Releases /\ Mixed \notin Releases

\* What a file of the two holds: a bundle's release or a request; cut off, nothing.
Torn == <<>>
Modes == {"staged", "protected", "root"}
InputNames == {"bundle", "request"}
Inputs == [holds : {<<r>> : r \in Releases} \cup {<<q>> : q \in Requests} \cup {Torn},
           mode  : Modes] \cup {None}

Programs == {"bootstrap", "retained", "recover", "attest"}
Steps == {"start", "judge", "activate", "restore", "history", "current", "prove", "clear"}
Work == [by : Programs, at : Steps, watched : BOOLEAN,
         request : Requests \cup {None}, receipt : Receipts]

InstallerInit ==
  /\ input = [i \in InputNames |-> None]
  /\ transition = FALSE
  /\ work = None /\ orphans = {} /\ exit = None

WorkAt(programs, step) == work # None /\ work.by \in programs /\ work.at = step
Continue(step) == work' = [work EXCEPT !.at = step]

\* The program ends; a deployer that still waits for it learns how.
Exit(status) ==
  /\ work' = None
  /\ exit' = IF work.watched THEN status ELSE exit

-----------------------------------------------------------------------------
(* main: flock *)

TakeLock(program, watched) ==
  /\ work = None
  /\ work' = [by |-> program, at |-> "start", watched |-> watched,
              request |-> None, receipt |-> <<>>]

OrphanTakesLock ==
  \E program \in orphans :
    /\ TakeLock(program, FALSE)
    /\ orphans' = orphans \ {program}
    /\ UNCHANGED <<input, current, history, runtime, proof, transition, exit>>

-----------------------------------------------------------------------------
(* install_once *)

Installers == {"bootstrap", "retained"}

Uploaded(i) == input[i] # None /\ input[i].mode = "root"

\* consume_uploads: both are moved into a directory of the program's own, which it
\* removes when it ends; then they are compared with each other.
ConsumeUploads ==
  /\ WorkAt(Installers, "start")
  /\ IF \A i \in InputNames : Uploaded(i)
     THEN /\ input' = [i \in InputNames |-> None]
          /\ LET bundle == input["bundle"].holds[1]
                 request == input["request"].holds[1]
             IN IF request.rel = bundle
                THEN work' = [work EXCEPT !.at = "judge", !.request = request] /\ UNCHANGED exit
                ELSE Exit("failed")
     ELSE Exit("failed") /\ UNCHANGED input
  /\ UNCHANGED <<current, history, runtime, proof, transition, orphans>>

\* request_matches_receipt
Matches(request, receipt) ==
  receipt # <<>> /\ Last(receipt)[1] = request.rel /\ Front(receipt) = request.prev
IsState(receipt, state) == receipt # <<>> /\ Last(receipt)[2] = state

Replay(request) == IsState(current, "installed") /\ Matches(request, current)
\* recovered_rollback: the request a failed activation was rolled back from.
Again(request) == IsState(current, "rolled_back") /\ request.prev = Front(current)
Chained(request) == current = <<>> \/ Again(request) \/ request.prev = current
\* find_candidate_receipt: published to the history before a crash.
Published(request) ==
  {r \in history : IsState(r, "installed") /\ Matches(request, r)
                     /\ (current = <<>> \/ Front(r) = current \/ Again(request))}
\* admitted_cross_version of the bootstrap; the installer of 0.1.1 that is retained on the
\* host is not in the repository: it is the one that rolls back.
Admitted(program, request) ==
  \/ current = <<>> \/ request.rel = Last(current)[1]
  \/ program = "bootstrap" /\ Last(current)[1] = Old /\ request.rel \in Candidates
  \/ program = "retained" /\ Last(current)[1] \in Candidates /\ request.rel = Old

Judge ==
  /\ WorkAt(Installers, "judge")
  /\ UNCHANGED <<input, history, runtime, proof, transition, orphans>>
  /\ LET request == work.request
     IN \/ /\ Replay(request)
           /\ Exit("ok") /\ UNCHANGED current
        \/ /\ ~Replay(request) /\ Published(request) # {}
           /\ current' \in Published(request) /\ Exit("ok")
        \/ /\ ~Replay(request) /\ Published(request) = {}
           /\ IF Chained(request) /\ Admitted(work.by, request)
              THEN Continue("activate") /\ UNCHANGED exit
              ELSE Exit("failed")
           /\ UNCHANGED current

\* The receipt of an activation: it names the receipt the request started from.
Publish(receipt) == work' = [work EXCEPT !.at = "history", !.receipt = receipt]

\* Mutant. The new receipt does not name its predecessor.
ActivateUnchained ==
  /\ WorkAt(Installers, "activate")
  /\ runtime' = work.request.rel
  /\ Publish(<<Installed(work.request.rel)>>)
  /\ UNCHANGED <<input, current, history, proof, transition, orphans, exit>>

\* invoke_fixed_installer.  An update by the bootstrap may leave the old images.
Activate ==
  /\ WorkAt(Installers, "activate")
  /\ LET request == work.request
         rollback == work.by = "retained" /\ current # <<>>
         outcome == IF rollback THEN RolledBack(request.rel) ELSE Installed(request.rel)
         images == current # <<>> /\ ~rollback /\ request.rel \in Candidates
     IN /\ runtime' \in {request.rel} \cup (IF images THEN {False} ELSE {})
        /\ Publish(Append(IF current = <<>> THEN <<>> ELSE request.prev, outcome))
  /\ UNCHANGED <<input, current, history, proof, transition, orphans, exit>>

\* A candidate that does not start is rolled back to the release before it.
ActivateFails ==
  /\ WorkAt(Installers, "activate")
  /\ runtime' = Mixed
  /\ IF work.by = "bootstrap" /\ current # <<>>
     THEN Continue("restore") /\ UNCHANGED exit
     ELSE Exit("failed")
  /\ UNCHANGED <<input, current, history, proof, transition, orphans>>

\* Mutant. The receipt of a restoration names the release that did not start.
RestoreNamesCandidate ==
  /\ WorkAt(Installers, "restore")
  /\ runtime' = Last(current)[1]
  /\ Publish(Append(work.request.prev, RolledBack(work.request.rel)))
  /\ UNCHANGED <<input, current, history, proof, transition, orphans, exit>>

\* install_code_only_rollback
Restore ==
  /\ WorkAt(Installers, "restore")
  /\ runtime' = Last(current)[1]
  /\ Publish(Append(work.request.prev, RolledBack(Last(current)[1])))
  /\ UNCHANGED <<input, current, history, proof, transition, orphans, exit>>

\* publish_receipt writes the history first.
PublishHistory ==
  /\ WorkAt(Installers, "history")
  /\ history' = history \cup {work.receipt}
  /\ Continue("current")
  /\ UNCHANGED <<input, current, runtime, proof, transition, orphans, exit>>

PublishCurrent ==
  /\ WorkAt(Installers, "current")
  /\ current' = work.receipt
  /\ Exit(IF work.by = "bootstrap" /\ IsState(work.receipt, "rolled_back") THEN "failed" ELSE "ok")
  /\ UNCHANGED <<input, history, runtime, proof, transition, orphans>>

-----------------------------------------------------------------------------
(* recover_partial_migration_once and attest_candidate_runtime_once_r3 *)

ExactChain == \E c \in Candidates : current = <<Installed(Old), Installed(c)>>
\* runtime_is_attested_r3 and runtime_is_attested: the proof of the kind, the receipt
\* it names, and what runs now.
Attested(kind) == proof = <<kind, current>> /\ runtime = Last(current)[1]

RecoverAdmits ==
  /\ WorkAt({"recover"}, "start")
  /\ UNCHANGED <<input, current, history, runtime, proof, orphans>>
  /\ \/ /\ ExactChain /\ Attested("r3")
        /\ transition' = FALSE /\ Exit("ok")
     \/ /\ ExactChain /\ ~Attested("r3") /\ transition
        /\ Continue("activate") /\ UNCHANGED <<transition, exit>>
     \/ /\ ExactChain /\ ~transition /\ Attested("r2")
        /\ transition' = TRUE /\ Continue("prove") /\ UNCHANGED exit
     \/ /\ ExactChain /\ ~transition /\ proof = None /\ runtime = False
        /\ transition' = TRUE /\ Continue("activate") /\ UNCHANGED exit
     \/ /\ ~ExactChain \/ (/\ ~transition /\ ~Attested("r3") /\ ~Attested("r2")
                           /\ (proof # None \/ runtime # False))
        /\ Exit("failed") /\ UNCHANGED transition

\* activate_candidate, from the beginning each time
RecoverActivates ==
  /\ WorkAt({"recover"}, "activate")
  /\ \/ runtime' = Last(current)[1] /\ Continue("prove") /\ UNCHANGED exit
     \/ runtime' = Mixed /\ Exit("failed")
  /\ UNCHANGED <<input, current, history, proof, transition, orphans>>

RecoverProves ==
  /\ WorkAt({"recover"}, "prove")
  /\ proof' = <<"r3", current>>
  /\ Continue("clear")
  /\ UNCHANGED <<input, current, history, runtime, transition, orphans, exit>>

ClearTransition ==
  /\ WorkAt({"recover"}, "clear")
  /\ transition' = FALSE
  /\ Exit("ok")
  /\ UNCHANGED <<input, current, history, runtime, proof, orphans>>

\* Mutant. What runs is not proved again.
AttesterTrustsReceipt ==
  /\ WorkAt({"attest"}, "start")
  /\ IF ExactChain /\ ~transition
     THEN proof' = <<"r3", current>> /\ Exit("ok")
     ELSE UNCHANGED proof /\ Exit("failed")
  /\ UNCHANGED <<input, current, history, runtime, transition, orphans>>

\* A transition that is not over blocks the attester.
AttesterProves ==
  /\ WorkAt({"attest"}, "start")
  /\ IF ExactChain /\ ~transition /\ runtime = Last(current)[1]
     THEN proof' = <<"r3", current>> /\ Exit("ok")
     ELSE UNCHANGED proof /\ Exit("failed")
  /\ UNCHANGED <<input, current, history, runtime, transition, orphans>>

-----------------------------------------------------------------------------

\* The program is killed, or the host restarts: of the two uploads the first may have
\* been moved, and an activation may be half done.
InstallerDies ==
  /\ work # None
  /\ runtime' \in {runtime} \cup (IF work.at \in {"activate", "restore"} THEN {Mixed} ELSE {})
  /\ input' \in {input} \cup
       (IF work.by \in Installers /\ work.at = "start" /\ \A i \in InputNames : Uploaded(i)
        THEN {[input EXCEPT !["bundle"] = None]} ELSE {})
  /\ Exit("failed")
  /\ UNCHANGED <<current, history, proof, transition, orphans>>

InstallerStep ==
  \/ OrphanTakesLock \/ ConsumeUploads \/ Judge \/ Activate \/ Restore
  \/ PublishHistory \/ PublishCurrent
  \/ RecoverAdmits \/ RecoverActivates \/ RecoverProves \/ ClearTransition \/ AttesterProves
=============================================================================
