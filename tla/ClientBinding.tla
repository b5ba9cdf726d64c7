---- MODULE ClientBinding ----
(***************************************************************************)
(* client-binding issue for an EC2 target (client_binding.rs).             *)
(*                                                                         *)
(* A call asks a helper on the host for a single-use binding, copies the   *)
(* export to the operator's machine, publishes it as a protected file,     *)
(* records PendingCleanup, has a second helper remove the export, and      *)
(* records Issued.  A call that finds a record never asks for a binding:   *)
(* it finishes the cleanup, or answers from the record.                    *)
(*                                                                         *)
(* The EC2 lock (tried) and the binding lock (waited for) are held for the *)
(* whole call, so a target has one call at a time; what interleaves are    *)
(* kills, lost replies, the clock, the user's own handling of the output   *)
(* and a helper that outlives the ssh connection it was started through.   *)
(* The helpers are external: they are taken to run one at a time on the    *)
(* host, to draw a fresh binding or to export the live one again, and to   *)
(* consume the request or to leave it.                                     *)
(***************************************************************************)
EXTENDS Naturals

CONSTANTS Bindings,     \* identities of bindings; reused when nothing names them
          MaxFaults     \* kills, lost replies, failed commands, edits, expiries

VARIABLES bindCall,     \* [pc, got, fits, edited, answer]: the call, or the last answer
          bindRecord,   \* [binding, phase] or NotBound: client-binding-<op>.json
          bindOutput,   \* what the protected output holds: a binding, NoBinding or Other
          bindRequest,  \* the request file on the host
          bindExport,   \* the import file on the host: a binding or NoBinding
          bindServer,   \* the binding the identity service last issued
          bindExpired,  \* bindings past expires_at_unix_ms
          bindLate,     \* a helper still running after its connection was lost
          bindTerminal, \* the target is Verified, with nothing pending
          bindFaults

bindVars == <<bindCall, bindRecord, bindOutput, bindRequest, bindExport,
              bindServer, bindExpired, bindLate, bindTerminal, bindFaults>>

NoBinding == 0
Other     == 100         \* a file of the user's that is no binding of this target
NotBound  == [binding |-> NoBinding, phase |-> "none"]
Idle(a)   == [pc |-> "idle", got |-> NoBinding, fits |-> FALSE, edited |-> FALSE, answer |-> a]
BindAt(p) == bindCall.pc = p

BindInit ==
    /\ bindCall = Idle("none")
    /\ bindRecord = NotBound
    /\ bindOutput \in {NoBinding, Other}
    /\ bindRequest = "absent"
    /\ bindExport = NoBinding
    /\ bindServer = NoBinding
    /\ bindExpired = {}
    /\ bindLate = "none"
    /\ bindTerminal = TRUE
    /\ bindFaults = 0

BindGoto(p) == bindCall' = [bindCall EXCEPT !.pc = p]
Answer(a)   == bindCall' = Idle(a)

\* What a call may rest on.
Unlocked  == BindAt("idle")
Terminal  == bindTerminal
Read(p)   == bindRecord.phase = p
Fits      == bindOutput = bindRecord.binding
Usable(b) == b # NoBinding /\ b \notin bindExpired

\* A record is written to a new file that is renamed over the old one.
RecordBinding(b, p) == bindRecord' = [binding |-> b, phase |-> p]

Disk   == <<bindRecord, bindOutput>>
Host   == <<bindRequest, bindExport, bindServer, bindLate>>
BindOthers == <<bindExpired, bindTerminal, bindFaults>>

----
\* The call: admission.

\* issue_ec2 takes the locks, requires a Verified target without a pending
\* effect and attests what runs; a target that is not terminal is refused.
BeginBinding ==
    /\ Unlocked
    /\ IF Terminal
       THEN bindCall' = [Idle("none") EXCEPT !.pc = "admitted"]
       ELSE Answer("err")
    /\ UNCHANGED <<Disk, Host, BindOthers>>

\* No record: the helpers on the host are those of the bundle.
VerifyHelpers ==
    /\ BindAt("admitted")
    /\ bindRecord = NotBound
    /\ BindGoto("root")
    /\ UNCHANGED <<Disk, Host, BindOthers>>

\* The directory of the bindings is made when it is missing, and inspected.
ReconcileRoot ==
    /\ BindAt("root")
    /\ BindGoto("request")
    /\ UNCHANGED <<Disk, Host, BindOthers>>

\* Mutant: an output that does not fit is refused before the cleanup.
ResumeChecksFirst ==
    /\ BindAt("admitted")
    /\ Read("pending_cleanup")
    /\ IF Fits
       THEN bindCall' = [bindCall EXCEPT !.pc = "resume_cleanup", !.fits = TRUE]
       ELSE Answer("err")
    /\ UNCHANGED <<Disk, Host, BindOthers>>

\* A record of PendingCleanup: whether the output still fits is found out
\* first and answered last.
ResumePending ==
    /\ BindAt("admitted")
    /\ Read("pending_cleanup")
    /\ bindCall' = [bindCall EXCEPT !.pc = "resume_cleanup", !.fits = Fits]
    /\ UNCHANGED <<Disk, Host, BindOthers>>

\* A record of Issued, answered from the output or turned into Expired.
ResumeIssued ==
    /\ BindAt("admitted")
    /\ Read("issued")
    /\ IF Usable(bindRecord.binding)
       THEN Answer(IF Fits THEN "ok" ELSE "err") /\ UNCHANGED bindRecord
       ELSE Answer("err") /\ RecordBinding(bindRecord.binding, "expired")
    /\ UNCHANGED <<bindOutput, Host, BindOthers>>

\* Expired is final: a binding of this operation is not issued again.
ResumeExpired ==
    /\ BindAt("admitted")
    /\ Read("expired")
    /\ Answer("err")
    /\ UNCHANGED <<Disk, Host, BindOthers>>

----
\* The call: the request.

\* scp of the request, only when the host holds none.  A later failure or kill
\* may leave it torn or still writable.
StageIssueRequest ==
    /\ BindAt("request")
    /\ IF bindRequest = "absent"
       THEN /\ bindRequest' = "plain"
            /\ BindGoto("protect")
       ELSE /\ BindGoto("inspect")
            /\ UNCHANGED bindRequest
    /\ UNCHANGED <<Disk, bindExport, bindServer, bindLate, BindOthers>>

ProtectIssueRequest ==
    /\ BindAt("protect")
    /\ bindRequest' = "protected"
    /\ BindGoto("inspect")
    /\ UNCHANGED <<Disk, bindExport, bindServer, bindLate, BindOthers>>

\* Mode, size and digest must be exact: anything else is a conflict, and no
\* command removes it.
InspectIssueRequest ==
    /\ BindAt("inspect")
    /\ IF bindRequest = "protected" THEN BindGoto("issue") ELSE Answer("err")
    /\ UNCHANGED <<Disk, Host, BindOthers>>

----
\* The helpers on the host.

\* The identity a new binding gets: the first that nothing else has.
Free  == Bindings \ {bindOutput, bindRecord.binding, bindExport, bindServer, bindCall.got}
Fresh == {b \in Free : \A c \in Free : b <= c}

\* client-binding-issue: the live binding once more, or a new one.
HelperIssues ==
    /\ \E b \in Fresh \cup ({bindServer} \ ({NoBinding} \cup bindExpired)) :
        /\ bindServer' = b
        /\ bindExport' = b
        /\ bindExpired' = IF b \in Fresh THEN bindExpired \ {b} ELSE bindExpired
    /\ bindRequest' \in {bindRequest, "absent"}

\* client-binding-export-cleanup.
HelperCleans ==
    /\ bindExport' = NoBinding
    /\ bindRequest' \in {bindRequest, "absent"}
    /\ UNCHANGED <<bindServer, bindExpired>>

\* issue_remote_binding: the helper ran to its end and said nothing.
RunIssue ==
    /\ BindAt("issue")
    /\ bindLate = "none"
    /\ HelperIssues
    /\ BindGoto("pull")
    /\ UNCHANGED <<Disk, bindLate, bindTerminal, bindFaults>>

\* pull_import: the export is copied through a private staging file and must
\* be a binding that has not expired.
PullImport ==
    /\ BindAt("pull")
    /\ IF Usable(bindExport)
       THEN bindCall' = [bindCall EXCEPT !.pc = "publish", !.got = bindExport]
       ELSE BindGoto("undo")
    /\ UNCHANGED <<Disk, Host, BindOthers>>

----
\* The call: publication and cleanup.

\* write_protected_output: an output that holds this binding is accepted,
\* another is a conflict, and a new one appears by a rename that replaces
\* nothing.
PublishOutput ==
    /\ BindAt("publish")
    /\ IF bindOutput \in {NoBinding, bindCall.got}
       THEN /\ bindOutput' = bindCall.got
            /\ BindGoto("record")
       ELSE /\ BindGoto("undo")
            /\ UNCHANGED bindOutput
    /\ UNCHANGED <<bindRecord, Host, BindOthers>>

\* Mutant: the record says Issued before the export is removed.
RecordIssuedFirst ==
    /\ BindAt("record")
    /\ RecordBinding(bindCall.got, "issued")
    /\ BindGoto("cleanup")
    /\ UNCHANGED <<bindOutput, Host, BindOthers>>

RecordPending ==
    /\ BindAt("record")
    /\ RecordBinding(bindCall.got, "pending_cleanup")
    /\ BindGoto("cleanup")
    /\ UNCHANGED <<bindOutput, Host, BindOthers>>

\* The cleanup of a call that goes on, of one that resumes, and the best
\* effort of one that has failed.
RunCleanup ==
    /\ bindCall.pc \in {"cleanup", "resume_cleanup", "undo"}
    /\ bindLate = "none"
    /\ HelperCleans
    /\ CASE BindAt("cleanup")        -> BindGoto("issued")
         [] BindAt("resume_cleanup") -> BindGoto("resumed")
         [] OTHER                -> Answer("err")
    /\ UNCHANGED <<Disk, bindLate, bindTerminal, bindFaults>>

RecordIssued ==
    /\ BindAt("issued")
    /\ RecordBinding(bindRecord.binding, "issued")
    /\ Answer("ok")
    /\ UNCHANGED <<bindOutput, Host, BindOthers>>

RecordResumed ==
    /\ BindAt("resumed")
    /\ IF Usable(bindRecord.binding)
       THEN /\ RecordBinding(bindRecord.binding, "issued")
            /\ Answer(IF bindCall.fits THEN "ok" ELSE "err")
       ELSE RecordBinding(bindRecord.binding, "expired") /\ Answer("err")
    /\ UNCHANGED <<bindOutput, Host, BindOthers>>

----
\* The environment.

Fault == bindFaults < MaxFaults /\ bindFaults' = bindFaults + 1

\* What a command that was cut off may have done on the host.
CutOff ==
    \/ UNCHANGED Host
    \/ /\ BindAt("request") /\ bindRequest = "absent"
       /\ bindRequest' \in {"torn", "plain"}
       /\ UNCHANGED <<bindExport, bindServer, bindLate>>
    \/ /\ BindAt("protect")
       /\ bindRequest' = "protected"
       /\ UNCHANGED <<bindExport, bindServer, bindLate>>
    \/ /\ BindAt("issue") /\ bindLate = "none"
       /\ bindLate' = "issue"
       /\ UNCHANGED <<bindRequest, bindExport, bindServer>>
    \/ /\ bindCall.pc \in {"cleanup", "resume_cleanup", "undo"} /\ bindLate = "none"
       /\ bindLate' = "cleanup"
       /\ UNCHANGED <<bindRequest, bindExport, bindServer>>

\* The process is killed before or inside its next step.
BindKill ==
    /\ ~BindAt("idle")
    /\ Fault
    /\ CutOff
    /\ Answer("none")
    /\ UNCHANGED <<Disk, bindExpired, bindTerminal>>

\* A command fails or its reply is lost, or a local write fails: once the
\* helper was asked and before the record is written, the error is returned
\* after a best-effort cleanup.
BindFail ==
    /\ ~BindAt("idle")
    /\ Fault
    /\ CutOff
    /\ IF bindCall.pc \in {"issue", "pull", "publish", "record"}
       THEN BindGoto("undo")
       ELSE Answer("err")
    /\ UNCHANGED <<Disk, bindExpired, bindTerminal>>

\* A helper whose connection is gone comes to its end.
LateHelper ==
    /\ bindLate # "none"
    /\ IF bindLate = "issue" THEN HelperIssues ELSE HelperCleans
    /\ bindLate' = "none"
    /\ UNCHANGED <<bindCall, Disk, bindTerminal, bindFaults>>

Expire ==
    /\ Fault
    /\ \E b \in {bindServer} \ ({NoBinding} \cup bindExpired) : bindExpired' = bindExpired \cup {b}
    /\ UNCHANGED <<bindCall, Disk, Host, bindTerminal>>

\* The user moves the output away, or puts another file in its place.
UserEdits ==
    /\ Fault
    /\ bindOutput' \in {NoBinding, Other} \ {bindOutput}
    /\ bindCall' = [bindCall EXCEPT !.edited = ~BindAt("idle")]
    /\ UNCHANGED <<bindRecord, Host, bindExpired, bindTerminal>>

\* Another command of the target leaves it with a pending effect, or finishes
\* one; the EC2 lock keeps it out of a call.
OtherCommand ==
    /\ BindAt("idle")
    /\ Fault
    /\ bindTerminal' = ~bindTerminal
    /\ UNCHANGED <<bindCall, Disk, Host, bindExpired>>

BindStep ==
    \/ BeginBinding \/ VerifyHelpers \/ ReconcileRoot
    \/ ResumePending \/ ResumeIssued \/ ResumeExpired
    \/ StageIssueRequest \/ ProtectIssueRequest \/ InspectIssueRequest
    \/ RunIssue \/ PullImport \/ PublishOutput \/ RecordPending
    \/ RunCleanup \/ RecordIssued \/ RecordResumed

BindNext == BindStep \/ BindKill \/ BindFail \/ LateHelper \/ Expire \/ UserEdits \/ OtherCommand

BindSpec == BindInit /\ [][BindNext]_bindVars

----
\* Properties.

\* A call that reports success leaves the recorded binding in the output (when
\* the user did not touch it meanwhile), also when an earlier call was killed
\* or lost its reply; the tool never replaces a file that is already there.
\* And once the record says Issued or Expired, the host holds no export of the
\* secret and nothing is under way that would write one, although the helper
\* of an earlier call may have outlived its connection.
OutputIsHonest ==
    /\ bindCall'.answer = "ok" /\ bindCall' # bindCall =>
          /\ bindRecord'.phase = "issued"
          /\ bindCall.edited \/ bindOutput' = bindRecord'.binding
    /\ bindOutput \in {NoBinding, bindOutput'} \/ UserEdits
NothingLeftBehind ==
    bindRecord'.phase \in {"issued", "expired"} => bindExport' = NoBinding /\ bindLate' # "issue"
BindingIsDelivered == [][OutputIsHonest /\ NothingLeftBehind]_bindVars

\* The user repeats the call until the binding is recorded for good, unless a
\* request that was cut off on the host, an output without a record, or a
\* target that is not terminal stands in the way.
Settled == bindRecord.phase \in {"issued", "expired"}
Blocked ==
    \/ ~bindTerminal
    \/ bindRecord = NotBound /\ (bindRequest \in {"torn", "plain"} \/ bindOutput # NoBinding)
Settles == <>[](Settled \/ Blocked)
====
