------------------------- MODULE ClientBindingProofs -------------------------
(***************************************************************************)
(* A client binding that is reported is in the output, and no export of    *)
(* the secret outlives the record: for any set of bindings and any number  *)
(* of kills, lost replies, edits and expiries.                             *)
(*                                                                         *)
(* A helper that outlived its connection is dangerous only while it may    *)
(* still export a binding; the invariant says that this is so only before  *)
(* anything is recorded, and that no call gets past such a helper.         *)
(***************************************************************************)
EXTENDS ClientBinding, TLAPS

\* The points before anything is recorded, where a call is past the helper that issues,
\* and where it has recorded the binding that it got.
Unrecorded == {"root", "request", "protect", "inspect", "issue", "pull", "publish", "record"}
Exported   == {"pull", "publish", "record"}
Recorded   == {"cleanup", "issued"}
Resumed    == {"resume_cleanup", "resumed"}
Cleaned    == {"issued", "resumed"}

Call(c) ==
    /\ c = [pc |-> c.pc, got |-> c.got, fits |-> c.fits, edited |-> c.edited, answer |-> c.answer]
    /\ c.pc = "idle" => c = Idle(c.answer)
    /\ c.pc # "idle" => c.answer = "none"

\* What a call relies on at each of its points.
Relies(c) ==
    /\ c.pc \in Unrecorded => bindRecord = NotBound
    /\ c.pc \in {"record"} \cup Recorded => c.edited \/ bindOutput = c.got
    /\ c.pc \in Recorded => bindRecord.binding = c.got /\ Read("pending_cleanup")
    /\ c.pc \in Resumed => Read("pending_cleanup") /\ (c.fits => c.edited \/ Fits)
    /\ c.pc \in Cleaned => bindExport = NoBinding /\ bindLate = "none"

\* A helper that may still export a binding runs before anything is recorded.
LateIsEarly == bindLate = "issue" => bindRecord = NotBound /\ bindCall.pc \notin Exported

NoneLeft == bindRecord.phase \in {"issued", "expired"} => bindExport = NoBinding /\ bindLate # "issue"

Inv ==
    /\ bindRecord = [binding |-> bindRecord.binding, phase |-> bindRecord.phase]
    /\ Call(bindCall) /\ Relies(bindCall) /\ LateIsEarly /\ NoneLeft

-----------------------------------------------------------------------------
\* What a step of a call or of its environment has to keep, and to promise.
Kept == Inv' /\ OutputIsHonest

\* A call goes on to another point, or ends with an answer.
LEMMA CallMoves ==
    ASSUME NEW c, Call(c)
    PROVE  /\ \A p : p # "idle" /\ c.pc # "idle" =>
                 LET d == [c EXCEPT !.pc = p] IN
                 Call(d) /\ d.pc = p /\ d.got = c.got /\ d.fits = c.fits /\ d.edited = c.edited
                 /\ d.answer = "none"
           /\ \A a : LET d == Idle(a) IN Call(d) /\ d.pc = "idle" /\ d.answer = a
BY DEF Call, Idle

\* Nothing is recorded and nothing is reported yet.
LEMMA InitInv == BindInit => Inv
BY DEF BindInit, Inv, Call, Relies, LateIsEarly, NoneLeft, Idle, NotBound, Read, Unrecorded, Exported,
       Recorded, Resumed, Cleaned, NoBinding

\* A step that moves neither record, output nor helpers: what the call relies on at its next
\* point is what has to be known.
LEMMA CallOnly ==
    ASSUME Inv, UNCHANGED <<Disk, bindExport, bindLate>>, Call(bindCall'), Relies(bindCall'),
           bindLate = "issue" => bindCall'.pc \notin Exported,
           bindCall'.answer = "ok" /\ bindCall' # bindCall =>
               Read("issued") /\ (bindCall.edited \/ Fits)
    PROVE  Kept
<1>1. UNCHANGED <<bindRecord, bindOutput, bindExport, bindLate>>
  BY DEF Disk
<1>2. OutputIsHonest
  BY <1>1 DEF OutputIsHonest, Read, Fits
<1>3. Relies(bindCall)'
  BY <1>1 DEF Relies, Read, Fits
<1>. QED  BY <1>1, <1>2, <1>3 DEF Kept, Inv, LateIsEarly, NoneLeft, Call

\* A call that ends without success relies on nothing.
LEMMA CallEnds ==
    ASSUME Inv, UNCHANGED <<Disk, bindExport, bindLate>>, NEW a \in {"none", "err"}, Answer(a)
    PROVE  Kept
<1>1. Call(bindCall') /\ bindCall'.pc = "idle" /\ bindCall'.answer = a
  BY DEF Answer, Idle, Call
<1>. QED  BY <1>1, CallOnly DEF Relies, Unrecorded, Recorded, Resumed, Cleaned, Exported

-----------------------------------------------------------------------------
(* The steps of a call.                                                    *)

\* The points are told apart by these tables.
USE DEF Unrecorded, Exported, Recorded, Resumed, Cleaned

\* Admission: what a call does is decided by the record that it finds.
LEMMA AdmissionStep ==
    ASSUME Inv, BeginBinding \/ VerifyHelpers \/ ReconcileRoot \/ ResumePending \/ ResumeIssued \/ ResumeExpired
    PROVE  Kept
<1>0. Call(bindCall) /\ Relies(bindCall) /\ LateIsEarly
  BY DEF Inv
<1>1. CASE BeginBinding
  <2>1. UNCHANGED <<Disk, bindExport, bindLate>>
    BY <1>1 DEF BeginBinding, Host
  <2>2. CASE bindCall' = [Idle("none") EXCEPT !.pc = "admitted"]
    <3>1. Call(bindCall') /\ bindCall'.pc = "admitted" /\ bindCall'.answer = "none"
      BY <2>2 DEF Idle, Call
    <3>. QED  BY <2>1, <3>1, CallOnly DEF Relies
  <2>. QED  BY <1>1, <2>1, <2>2, CallEnds DEF BeginBinding
<1>2. CASE VerifyHelpers
  <2>1. UNCHANGED <<Disk, bindExport, bindLate>> /\ bindRecord = NotBound
        /\ bindCall' = [bindCall EXCEPT !.pc = "root"] /\ bindCall.pc # "idle"
    BY <1>2 DEF VerifyHelpers, Host, BindGoto, BindAt
  <2>2. Call(bindCall') /\ bindCall'.pc = "root" /\ bindCall'.answer = "none"
    BY <1>0, <2>1, CallMoves
  <2>. QED  BY <2>1, <2>2, CallOnly DEF Relies
<1>3. CASE ReconcileRoot
  <2>1. UNCHANGED <<Disk, bindExport, bindLate>> /\ bindRecord = NotBound
        /\ bindCall' = [bindCall EXCEPT !.pc = "request"] /\ bindCall.pc # "idle"
    BY <1>0, <1>3 DEF ReconcileRoot, Host, BindGoto, BindAt, Relies
  <2>2. Call(bindCall') /\ bindCall'.pc = "request" /\ bindCall'.answer = "none"
    BY <1>0, <2>1, CallMoves
  <2>. QED  BY <2>1, <2>2, CallOnly DEF Relies
<1>4. CASE ResumePending
  <2>1. UNCHANGED <<Disk, bindExport, bindLate>> /\ Read("pending_cleanup") /\ bindCall.pc = "admitted"
        /\ bindCall' = [bindCall EXCEPT !.pc = "resume_cleanup", !.fits = Fits]
    BY <1>4 DEF ResumePending, Host, BindAt
  <2>2. Call(bindCall') /\ bindCall'.pc = "resume_cleanup" /\ bindCall'.fits = Fits
        /\ bindCall'.answer = "none"
    BY <1>0, <2>1 DEF Call
  <2>. QED  BY <2>1, <2>2, CallOnly DEF Relies
<1>5. CASE ResumeIssued
  <2>1. /\ UNCHANGED <<bindOutput, bindExport, bindLate>> /\ Read("issued") /\ bindCall.pc = "admitted"
    BY <1>5 DEF ResumeIssued, Host, BindAt
  <2>2. CASE Answer(IF Fits THEN "ok" ELSE "err") /\ UNCHANGED bindRecord
    <3>1. Call(bindCall') /\ bindCall'.pc = "idle" /\ (bindCall'.answer = "ok" => Fits)
      BY <2>2 DEF Answer, Idle, Call
    <3>. QED  BY <2>1, <2>2, <3>1, CallOnly DEF Relies, Disk
  <2>3. CASE Answer("err") /\ RecordBinding(bindRecord.binding, "expired")
    <3>1. Call(bindCall') /\ bindCall'.pc = "idle" /\ bindCall'.answer = "err"
      BY <2>3 DEF Answer, Idle, Call
    <3>2. bindRecord'.phase = "expired" /\ bindExport = NoBinding /\ bindLate # "issue"
          /\ bindRecord' = [binding |-> bindRecord'.binding, phase |-> bindRecord'.phase]
      BY <2>1, <2>3 DEF RecordBinding, Inv, NoneLeft, Read
    <3>. QED  BY <2>1, <3>1, <3>2 DEF Kept, Inv, Relies, LateIsEarly, NoneLeft, OutputIsHonest
  <2>. QED  BY <1>5, <2>2, <2>3 DEF ResumeIssued
<1>6. CASE ResumeExpired
  BY <1>6, CallEnds DEF ResumeExpired, Host
<1>. QED  BY <1>1, <1>2, <1>3, <1>4, <1>5, <1>6

\* The request: nothing is recorded, and no helper is started.
LEMMA RequestStep ==
    ASSUME Inv, StageIssueRequest \/ ProtectIssueRequest \/ InspectIssueRequest
    PROVE  Kept
<1>0. Call(bindCall) /\ Relies(bindCall) /\ LateIsEarly
  BY DEF Inv
<1>1. UNCHANGED <<Disk, bindExport, bindLate>> /\ bindRecord = NotBound /\ bindCall.pc # "idle"
  BY <1>0 DEF StageIssueRequest, ProtectIssueRequest, InspectIssueRequest, Host, BindAt, Relies
<1>2. ASSUME NEW p \in {"protect", "inspect", "issue"}, BindGoto(p)
      PROVE  Kept
  <2>1. Call(bindCall') /\ bindCall'.pc = p /\ bindCall'.answer = "none"
    BY <1>0, <1>1, <1>2, CallMoves DEF BindGoto
  <2>. QED  BY <1>1, <2>1, CallOnly DEF Relies
<1>. QED  BY <1>1, <1>2, CallEnds DEF StageIssueRequest, ProtectIssueRequest, InspectIssueRequest

\* The helper issues and its export is copied, while no other helper runs.
LEMMA IssueStep ==
    ASSUME Inv, RunIssue \/ PullImport
    PROVE  Kept
<1>0. Call(bindCall) /\ Relies(bindCall) /\ LateIsEarly
  BY DEF Inv
<1>1. /\ UNCHANGED <<bindRecord, bindOutput, bindLate>> /\ bindRecord = NotBound
      /\ bindCall.pc \in {"issue", "pull"} /\ bindLate # "issue"
  BY <1>0 DEF RunIssue, PullImport, Disk, Host, BindAt, Relies, LateIsEarly
<1>2. ASSUME Call(bindCall'), bindCall'.pc \in {"pull", "publish", "undo"}
      PROVE  Kept
  <2>1. bindCall'.answer = "none"
    BY <1>2 DEF Call
  <2>2. Relies(bindCall)' /\ NoneLeft' /\ LateIsEarly'
    BY <1>1, <1>2 DEF Relies, NoneLeft, LateIsEarly, NotBound
  <2>. QED  BY <1>1, <1>2, <2>1, <2>2 DEF Kept, Inv, OutputIsHonest, Call
<1>3. CASE RunIssue
  <2>1. bindCall' = [bindCall EXCEPT !.pc = "pull"]
    BY <1>3 DEF RunIssue, BindGoto
  <2>. QED  BY <1>0, <1>1, <1>2, <2>1, CallMoves
<1>4. CASE PullImport
  <2>1. \/ bindCall' = [bindCall EXCEPT !.pc = "publish", !.got = bindExport]
        \/ bindCall' = [bindCall EXCEPT !.pc = "undo"]
    BY <1>4 DEF PullImport, BindGoto
  <2>2. Call(bindCall') /\ bindCall'.pc \in {"publish", "undo"}
    BY <1>0, <1>1, <2>1 DEF Call
  <2>. QED  BY <1>2, <2>2
<1>. QED  BY <1>3, <1>4

\* The output appears and replaces nothing, and then the record.
LEMMA PublicationStep ==
    ASSUME Inv, PublishOutput \/ RecordPending
    PROVE  Kept
<1>0. Call(bindCall) /\ Relies(bindCall) /\ LateIsEarly
  BY DEF Inv
<1>1. CASE PublishOutput
  <2>1. /\ UNCHANGED <<bindRecord, bindExport, bindLate>> /\ bindRecord = NotBound
        /\ bindCall.pc = "publish" /\ bindLate # "issue"
    BY <1>0, <1>1 DEF PublishOutput, Host, BindAt, Relies, LateIsEarly
  <2>2. CASE /\ bindOutput \in {NoBinding, bindCall.got} /\ bindOutput' = bindCall.got
             /\ BindGoto("record")
    <3>1. Call(bindCall') /\ bindCall'.pc = "record" /\ bindCall'.got = bindCall.got
          /\ bindCall'.answer = "none"
      BY <1>0, <2>1, <2>2, CallMoves DEF BindGoto
    <3>2. Relies(bindCall)' /\ NoneLeft' /\ LateIsEarly'
      BY <2>1, <2>2, <3>1 DEF Relies, NoneLeft, LateIsEarly, NotBound
    <3>. QED  BY <2>1, <2>2, <3>1, <3>2 DEF Kept, Inv, OutputIsHonest, Call
  <2>3. CASE BindGoto("undo") /\ UNCHANGED bindOutput
    <3>1. Call(bindCall') /\ bindCall'.pc = "undo" /\ bindCall'.answer = "none"
      BY <1>0, <2>1, <2>3, CallMoves DEF BindGoto
    <3>. QED  BY <2>1, <2>3, <3>1, CallOnly DEF Relies, Disk
  <2>. QED  BY <1>1, <2>2, <2>3 DEF PublishOutput
<1>2. CASE RecordPending
  <2>1. /\ UNCHANGED <<bindOutput, bindExport, bindLate>> /\ bindCall.pc = "record" /\ bindLate # "issue"
        /\ bindCall.edited \/ bindOutput = bindCall.got
        /\ bindRecord' = [binding |-> bindCall.got, phase |-> "pending_cleanup"]
    BY <1>0, <1>2 DEF RecordPending, Host, BindAt, Relies, LateIsEarly, RecordBinding
  <2>2. Call(bindCall') /\ bindCall'.pc = "cleanup" /\ bindCall'.got = bindCall.got
        /\ bindCall'.edited = bindCall.edited /\ bindCall'.answer = "none"
    BY <1>0, <1>2, <2>1, CallMoves DEF RecordPending, BindGoto
  <2>3. Relies(bindCall)' /\ NoneLeft' /\ LateIsEarly'
    BY <2>1, <2>2 DEF Relies, NoneLeft, LateIsEarly, Read
  <2>. QED  BY <2>1, <2>2, <2>3 DEF Kept, Inv, OutputIsHonest, Call
<1>. QED  BY <1>1, <1>2

\* The cleanup runs when no other helper does.
LEMMA CleanupStep ==
    ASSUME Inv, RunCleanup
    PROVE  Kept
<1>0. Call(bindCall) /\ Relies(bindCall)
  BY DEF Inv
<1>1. /\ UNCHANGED <<bindRecord, bindOutput, bindLate>> /\ bindLate = "none" /\ bindExport' = NoBinding
      /\ bindCall.pc \in {"cleanup", "resume_cleanup", "undo"}
  BY DEF RunCleanup, HelperCleans, Disk
<1>2. NoneLeft' /\ LateIsEarly'
  BY <1>1 DEF NoneLeft, LateIsEarly
<1>3. CASE bindCall.pc \in {"cleanup", "resume_cleanup"}
  <2>1. PICK p \in {"issued", "resumed"} :
          /\ BindGoto(p)
          /\ p = "issued" <=> bindCall.pc = "cleanup"
    BY <1>3 DEF RunCleanup, BindAt
  <2>2. /\ Call(bindCall') /\ bindCall'.pc = p /\ bindCall'.got = bindCall.got
        /\ bindCall'.edited = bindCall.edited /\ bindCall'.fits = bindCall.fits
        /\ bindCall'.answer = "none"
    BY <1>0, <1>3, <2>1, CallMoves DEF BindGoto
  <2>3. Relies(bindCall)'
    BY <1>0, <1>1, <1>3, <2>1, <2>2 DEF Relies, Read, Fits
  <2>. QED  BY <1>1, <1>2, <2>2, <2>3 DEF Kept, Inv, OutputIsHonest, Call
<1>4. CASE bindCall.pc = "undo"
  <2>1. Call(bindCall') /\ bindCall'.pc = "idle" /\ bindCall'.answer = "err"
    BY <1>4 DEF RunCleanup, BindAt, Answer, Idle, Call
  <2>. QED  BY <1>1, <1>2, <2>1 DEF Kept, Inv, OutputIsHonest, Call, Relies
<1>. QED  BY <1>1, <1>3, <1>4

\* The end of a call: the export is gone, and a success is in the output.
LEMMA EndStep ==
    ASSUME Inv, RecordIssued \/ RecordResumed
    PROVE  Kept
<1>0. Call(bindCall) /\ Relies(bindCall)
  BY DEF Inv
<1>1. /\ UNCHANGED <<bindOutput, bindExport, bindLate>> /\ bindExport = NoBinding /\ bindLate = "none"
      /\ \E phase \in {"issued", "expired"} :
             bindRecord' = [binding |-> bindRecord.binding, phase |-> phase]
  BY <1>0 DEF RecordIssued, RecordResumed, Host, BindAt, Relies, RecordBinding
<1>2. Call(bindCall') /\ bindCall'.pc = "idle"
  BY DEF RecordIssued, RecordResumed, Answer, Idle, Call
<1>3. bindCall'.answer = "ok" =>
          bindRecord'.phase = "issued" /\ (bindCall.edited \/ bindOutput = bindRecord.binding)
  BY <1>0 DEF RecordIssued, RecordResumed, Answer, Idle, RecordBinding, BindAt, Relies, Fits
<1>4. Relies(bindCall)' /\ NoneLeft' /\ LateIsEarly'
  BY <1>1, <1>2 DEF Relies, NoneLeft, LateIsEarly
<1>5. bindRecord' = [binding |-> bindRecord'.binding, phase |-> bindRecord'.phase]
      /\ bindRecord'.binding = bindRecord.binding
  BY <1>1
<1>. QED  BY <1>1, <1>2, <1>3, <1>4, <1>5 DEF Kept, Inv, OutputIsHonest

-----------------------------------------------------------------------------
(* The environment.                                                        *)

\* A command that is cut off leaves a helper, and no export that was not there.
LEMMA CutOffLeaves ==
    ASSUME Inv, ~BindAt("idle"), CutOff
    PROVE  /\ UNCHANGED bindExport
           /\ bindLate' = "issue" => bindRecord = NotBound
BY DEF CutOff, Host, Inv, Relies, BindAt, LateIsEarly, NoneLeft

\* A call is killed or fails: nothing of it is reported.
LEMMA FaultStep ==
    ASSUME Inv, BindKill \/ BindFail
    PROVE  Kept
<1>0. Call(bindCall) /\ Relies(bindCall) /\ LateIsEarly /\ NoneLeft
  BY DEF Inv
<1>1. UNCHANGED <<bindRecord, bindOutput>> /\ ~BindAt("idle") /\ CutOff
  BY DEF BindKill, BindFail, Disk
<1>2. /\ UNCHANGED bindExport
      /\ bindLate' = "issue" => bindRecord = NotBound
  BY <1>1, CutOffLeaves
<1>3. NoneLeft'
  BY <1>0, <1>1, <1>2 DEF NoneLeft, NotBound
<1>4. Call(bindCall') /\ bindCall'.pc \in {"idle", "undo"} /\ bindCall'.answer \in {"none", "err"}
  <2>1. CASE bindCall' \in {Idle("none"), Idle("err")}
    BY <2>1 DEF Idle, Call
  <2>2. CASE BindGoto("undo")
    BY <1>0, <1>1, <2>2, CallMoves DEF BindGoto, BindAt
  <2>. QED  BY <2>1, <2>2 DEF BindKill, BindFail, Answer
<1>5. Relies(bindCall)' /\ LateIsEarly'
  BY <1>1, <1>2, <1>4 DEF Relies, LateIsEarly
<1>. QED  BY <1>1, <1>3, <1>4, <1>5 DEF Kept, Inv, OutputIsHonest

\* A late helper exports a binding only before anything is recorded.
LEMMA LateStep ==
    ASSUME Inv, LateHelper
    PROVE  Kept
<1>0. Call(bindCall) /\ Relies(bindCall) /\ LateIsEarly /\ NoneLeft
  BY DEF Inv
<1>1. /\ UNCHANGED <<bindCall, bindRecord, bindOutput>> /\ bindLate # "none" /\ bindLate' = "none"
      /\ bindLate = "issue" => bindRecord = NotBound /\ bindCall.pc \notin Exported
      /\ bindLate # "issue" => bindExport' = NoBinding
  BY <1>0 DEF LateHelper, Disk, LateIsEarly, HelperCleans
<1>2. Relies(bindCall)'
  BY <1>0, <1>1 DEF Relies, Read, Fits
<1>3. NoneLeft' /\ LateIsEarly'
  BY <1>1 DEF NoneLeft, LateIsEarly, NotBound
<1>. QED  BY <1>1, <1>2, <1>3 DEF Kept, Inv, OutputIsHonest, Call

\* The clock, the user and the other commands.
LEMMA OutsideStep ==
    ASSUME Inv, Expire \/ UserEdits \/ OtherCommand
    PROVE  Kept
<1>0. Call(bindCall) /\ Relies(bindCall) /\ LateIsEarly /\ NoneLeft
  BY DEF Inv
<1>1. CASE Expire \/ OtherCommand
  <2>1. UNCHANGED <<bindCall, bindRecord, bindOutput, bindExport, bindLate>>
    BY <1>1 DEF Expire, OtherCommand, Disk, Host
  <2>. QED  BY <1>0, <2>1, CallOnly DEF Disk, LateIsEarly
<1>2. CASE UserEdits
  <2>1. /\ UNCHANGED <<bindRecord, bindExport, bindLate>>
        /\ bindCall' = [bindCall EXCEPT !.edited = ~BindAt("idle")]
    BY <1>2 DEF UserEdits, Host
  <2>2. /\ Call(bindCall') /\ bindCall'.pc = bindCall.pc /\ bindCall'.got = bindCall.got
        /\ bindCall'.fits = bindCall.fits /\ bindCall'.answer = bindCall.answer
        /\ bindCall.pc # "idle" => bindCall'.edited
        /\ bindCall.pc = "idle" => bindCall' = bindCall
    <3>1. CASE bindCall.pc = "idle"
      <4>1. bindCall = Idle(bindCall.answer) /\ bindCall' = [bindCall EXCEPT !.edited = FALSE]
        BY <1>0, <2>1, <3>1 DEF Call, BindAt
      <4>2. bindCall' = bindCall
        BY <4>1 DEF Idle
      <4>. QED  BY <1>0, <3>1, <4>2
    <3>2. CASE bindCall.pc # "idle"
      <4>1. bindCall' = [bindCall EXCEPT !.edited = TRUE]
        BY <2>1, <3>2 DEF BindAt
      <4>. QED  BY <1>0, <3>2, <4>1 DEF Call
    <3>. QED  BY <3>1, <3>2
  <2>3. Relies(bindCall)' /\ NoneLeft' /\ LateIsEarly'
    BY <1>0, <2>1, <2>2 DEF Relies, NoneLeft, LateIsEarly, Read
  <2>4. OutputIsHonest
    BY <1>0, <1>2, <2>2 DEF OutputIsHonest, Call
  <2>. QED  BY <2>1, <2>2, <2>3, <2>4 DEF Kept, Inv
<1>. QED  BY <1>1, <1>2

-----------------------------------------------------------------------------
\* Every step keeps the invariant and reports nothing that is not so.
LEMMA NextKeeps == Inv /\ [BindNext]_bindVars => Inv' /\ (OutputIsHonest \/ UNCHANGED bindVars)
<1>1. Inv /\ UNCHANGED bindVars => Inv'
  BY DEF bindVars, Inv, Call, Relies, LateIsEarly, NoneLeft, Read, Fits
<1>. QED
  BY <1>1, AdmissionStep, RequestStep, IssueStep, PublicationStep, CleanupStep, EndStep, FaultStep,
     LateStep, OutsideStep DEF Kept, BindNext, BindStep

\* The invariant holds, for every set of bindings and every bound on faults.
THEOREM BindingInvariant == BindSpec => []Inv
<1>1. Inv /\ [BindNext]_bindVars => Inv'
  BY NextKeeps
<1>. QED  BY <1>1, InitInv, PTL DEF BindSpec

\* issue_ec2: a call that reports success leaves the recorded binding in the output, no output is
\* replaced, and no export is left or still to come once the record is final, whatever was
\* killed, lost, edited or outlived its connection before.
THEOREM BindingSafety == BindSpec => BindingIsDelivered
<1>1. Inv /\ Inv' /\ [BindNext]_bindVars => [OutputIsHonest /\ NothingLeftBehind]_bindVars
  BY NextKeeps DEF Inv, NoneLeft, NothingLeftBehind
<1>. QED  BY <1>1, BindingInvariant, PTL DEF BindSpec, BindingIsDelivered
=============================================================================
