--------------------------- MODULE Ec2UpdateProofs ---------------------------
(***************************************************************************)
(* What holds of a target that is installed, updated, rolled back,         *)
(* recovered and rebound, for every set of candidates, helpers and         *)
(* addresses and any number of faults.                                     *)
(***************************************************************************)
EXTENDS Ec2Update, FiniteSetTheorems, SequenceTheorems, TLAPS

\* The receipts a target can have, by how it came to them.
Fresh(r)   == <<Installed(r)>>
Updated(c) == <<Installed(Old), Installed(c)>>
Restored   == <<Installed(Old), RolledBack(Old)>>
Undone(c)  == <<Installed(Old), Installed(c), RolledBack(Old)>>
Redone(c)  == <<Installed(Old), Installed(c), Installed(Old)>>

-----------------------------------------------------------------------------
(* What the state file says *)

Virgin(r) == /\ r.previous = None /\ r.previousReceipt = <<>>
             /\ r.phase = "HostKeyPinned" /\ r.current = None /\ r.receipt = <<>>
AtOrigin(r) == /\ r.previous = None /\ r.previousReceipt = <<>>
               /\ r.phase \in {"Installed", "Verified"}
               /\ r.current = r.desired /\ r.receipt = Fresh(r.desired)
Beyond(r) == /\ r.previous = Old /\ r.previousReceipt = Fresh(Old) /\ r.desired \in Candidates
Before(r) == /\ Beyond(r) /\ r.phase \in {"UpdateStaged", "UpdateInstalling"}
             /\ r.current = Old /\ r.receipt = Fresh(Old)
After(r) == /\ Beyond(r)
            /\ r.phase \in {"UpdateInstalling", "UpdateVerifying", "Verified"} \cup RollbackPhases
            /\ r.current = r.desired /\ r.receipt = Updated(r.desired)
Back(r) == /\ Beyond(r) /\ r.phase = "RolledBack"
           /\ r.current = Old /\ r.receipt = Undone(r.desired)
\* An update that was verified: nothing but a recovery changes such a target.
Mended(r) == After(r) /\ r.phase = "Verified"
Returning(r) == (After(r) /\ r.phase \in RollbackPhases) \/ Back(r)

\* The requests the target has sent, or is about to.
First(r)  == Request(IF r.previous = None THEN r.desired ELSE Old, <<>>)
Second(r) == Request(r.desired, Fresh(Old))
Third(r)  == Request(Old, Updated(r.desired))
Sent(r) == {q \in Requests : \/ q = First(r)
                             \/ q = Second(r) /\ Beyond(r) /\ r.phase # "UpdateStaged"
                             \/ q = Third(r) /\ Returning(r)}

RecOK(r, f) ==
  /\ r \in Record /\ f \in Artifacts
  /\ Virgin(r) \/ AtOrigin(r) \/ Before(r) \/ After(r) \/ Back(r)
  /\ Beyond(r) => f.candidate = r.desired /\ f.request = Second(r)

\* The receipts the host may have now, and those in its history.
HostOK(r, now, past) ==
  /\ Virgin(r) => now \in {<<>>, Fresh(r.desired)}
  /\ AtOrigin(r) => now = Fresh(r.desired)
  /\ Before(r) /\ r.phase = "UpdateStaged" => now = Fresh(Old)
  /\ Before(r) /\ r.phase = "UpdateInstalling" => now \in {Fresh(Old), Updated(r.desired), Restored}
  /\ After(r) /\ ~Returning(r) => now = Updated(r.desired)
  /\ After(r) /\ Returning(r) => now \in {Updated(r.desired), Undone(r.desired), Redone(r.desired)}
  /\ Back(r) => now \in {Undone(r.desired), Redone(r.desired)}
  /\ \A p \in past :
       \/ (Virgin(r) \/ AtOrigin(r)) /\ p = Fresh(r.desired)
       \/ Beyond(r) /\ p = Fresh(Old)
       \/ Beyond(r) /\ r.phase # "UpdateStaged" /\ p \in {Updated(r.desired), Restored}
       \/ Returning(r) /\ p \in {Undone(r.desired), Redone(r.desired)}

-----------------------------------------------------------------------------
(* What is under way on the host *)

HoldsOK(r, name, file) ==
  \/ file = None
  \/ /\ file \in [holds : {Torn}, mode : {"staged"}]
  \/ /\ file \in [holds : {<<x>> : x \in Releases}, mode : Modes] /\ name = "bundle"
  \/ /\ file \in [holds : {<<q>> : q \in Sent(r)}, mode : Modes] /\ name = "request"
InputOK(r, files2) ==
  /\ files2 \in [InputNames -> Inputs]
  /\ \A i \in InputNames : HoldsOK(r, i, files2[i])

\* What an activation starts from, and what it may publish.
Going(w, now) ==
  LET q == w.request
  IN \/ q.prev = <<>> /\ now = <<>>
     \/ q.prev = Fresh(Old) /\ w.by = "bootstrap" /\ now \in {Fresh(Old), Restored}
     \/ \E c \in Candidates : /\ q.prev = Updated(c)
                              /\ now = Undone(c) \/ (now = Updated(c) /\ w.by = "retained")
Restoring(w, now) ==
  LET q == w.request
  IN /\ w.by = "bootstrap"
     /\ \/ q.prev = Fresh(Old) /\ now \in {Fresh(Old), Restored}
        \/ \E c \in Candidates : q.prev = Updated(c) /\ now = Undone(c)
Ending(w, now) ==
  LET q == w.request
  IN \/ q.prev = <<>> /\ now = <<>> /\ w.receipt = Fresh(q.rel)
     \/ q.prev = Fresh(Old) /\ now \in {Fresh(Old), Restored} /\ w.receipt \in {Updated(q.rel), Restored}
     \/ \E c \in Candidates :
          /\ q.prev = Updated(c)
          /\ \/ now \in {Updated(c), Undone(c)} /\ w.receipt = Undone(c)
             \/ now = Undone(c) /\ w.receipt = Redone(c)

Repairs == {"recover", "attest"}
WorkOK(r, now, w) ==
  w # None =>
    /\ w \in Work
    /\ w.by \in Installers =>
         /\ w.at \in {"start", "judge", "activate", "restore", "history", "current"}
         /\ w.at # "start" => w.request \in Sent(r)
         /\ w.at = "activate" => Going(w, now)
         /\ w.at = "restore" => Restoring(w, now)
         /\ w.at \in {"history", "current"} => Ending(w, now)
    /\ w.by \in Repairs => Mended(r)
    /\ w.by = "recover" => w.at \in {"start", "activate", "prove", "clear"}
    /\ w.by = "attest" => w.at = "start"
OrphansOK(r, left) == left \subseteq Programs /\ (left \cap Repairs # {} => Mended(r))

\* The program the deployer waits for.
WatchOK(w, ended, j) ==
  /\ ended \in {"ok", "failed", None}
  /\ w # None /\ w.watched => j # None /\ j.at = "running" /\ w.by = j.by /\ ended = None

-----------------------------------------------------------------------------
(* What the deployer is doing *)

HelperPoints == {"clear-upload", "stage", "protect", "clear-atomic", "prepare", "activate"}
ProgramPoints == {"installer", "waiting", "running", "installed", "done"}
\* The job of an operation: helpers alone, a program, or an installation.
HelpersOnly(r, j, o) ==
  /\ j.request = None /\ j.by \in {"retained", "bootstrap", "recover"}
  /\ j.at \in HelperPoints \cup {"helpers", "done"}
  /\ \/ o.kind = "apply" /\ o.at = "record" /\ r.current # None
     \/ o.kind = "update" /\ o.at = "installing"
     \/ o.kind = "recover" /\ o.at = "run"
ProgramOnly(r, j, o) ==
  /\ j.request = None /\ j.by \in Repairs /\ j.at \in ProgramPoints
  /\ Mended(r) /\ j.goal = r.receipt
  /\ IF j.by = "recover" THEN o.kind = "recover" /\ o.at = "attest" ELSE o.kind \in Repairs /\ o.at = "read"
Installs(r, j, o) ==
  /\ o.at = "record"
  /\ \/ /\ o.kind = "apply" /\ Virgin(r) /\ j.by = "retained"
        /\ j.request = First(r) /\ j.goal = Fresh(r.desired)
     \/ /\ o.kind = "update" /\ r.phase = "UpdateInstalling" /\ j.by = "bootstrap"
        /\ j.request = Second(r) /\ j.goal = Updated(r.desired)
     \/ /\ o.kind = "rollback" /\ r.phase = "RollbackInstalling" /\ j.by = "retained"
        /\ j.request = Third(r) /\ j.goal = Undone(r.desired)
JobOK(r, now, j, o) ==
  j # None =>
    /\ j \in Job /\ o # None
    /\ j.at \in HelperPoints => j.left # <<>>
    /\ HelpersOnly(r, j, o) \/ ProgramOnly(r, j, o) \/ Installs(r, j, o)
    /\ j.at = "done" /\ Installs(r, j, o) =>
         now = j.goal \/ (o.kind = "rollback" /\ now = Redone(r.desired))

OpOK(r, f, now, j, o, group) ==
  o # None =>
    /\ o \in Operation
    /\ o.kind = "apply" =>
         /\ o.at \in {"directory", "record", "verify"} /\ o.rel = r.desired
         /\ r.phase \in {"HostKeyPinned", "Installed", "Verified"}
         /\ o.at = "record" /\ j = None /\ r.current = None => now = Fresh(r.desired)
         /\ o.at = "verify" => r.current # None
    /\ o.kind = "verify" => o.at = "verify" /\ r.phase \in {"Installed", "Verified"}
    /\ o.kind = "update" =>
         /\ o.at \in {"bundle", "request", "persist", "capacity", "bootstrap", "installing",
                      "record", "verify"}
         /\ o.at \in {"bundle", "request", "persist"} =>
              AtOrigin(r) /\ r.desired = Old /\ o.rel \in Candidates
         /\ o.at \in {"request", "persist"} => f.candidate = o.rel
         /\ o.at = "persist" => f.request = Request(o.rel, Fresh(Old))
         /\ o.at \in {"capacity", "bootstrap", "installing"} => r.phase \in UpdatePhases
         /\ o.at \in {"capacity", "bootstrap", "installing", "record"} => o.rel = r.desired
         /\ o.at = "record" => r.phase = "UpdateInstalling"
         /\ o.at = "record" /\ j = None => now = Updated(r.desired)
         /\ o.at = "verify" => r.phase = "UpdateVerifying"
    /\ o.kind = "rollback" =>
         /\ o.at \in {"request", "persist", "installing", "record"} /\ o.rel = Old
         /\ After(r) /\ r.phase \in {"UpdateVerifying"} \cup RollbackPhases
         /\ o.at # "request" => f.rollback = Third(r)
         /\ o.at = "installing" => r.phase = "RollbackStaged"
         /\ o.at = "record" => r.phase = "RollbackInstalling"
         /\ o.at = "record" /\ j = None => now \in {Undone(r.desired), Redone(r.desired)}
    /\ o.kind = "recover" => o.at \in {"seal", "run", "attest", "read"} /\ Mended(r)
    /\ o.kind = "attest" => o.at \in {"attest", "read"} /\ Mended(r)
    /\ o.kind = "rebind" =>
         /\ o.at \in {"authorize", "revoke", "rebound"} /\ j = None /\ o.to # r.cidr
         /\ o.at = "authorize" => group = {r.cidr}
         /\ o.at = "revoke" => group = {r.cidr, o.to}
         /\ o.at = "rebound" => group = {o.to}

IngressOK(r, group) == \E x \in Cidrs : group \in {{r.cidr}, {r.cidr, x}, {x}}

\* What an attestation says is true, and no program is about to change it.
Sound(now, runs, shown, half, w) ==
  /\ shown = <<"r3", now>> /\ runs = Last(now)[1] /\ ~half
  /\ w # None /\ w.by = "recover" => w.at = "start"
Ready(ended, j, o) ==
  /\ o # None /\ o.at = "read"
  /\ j # None => j.at \in {"installed", "done"} \/ (j.at = "running" /\ ended = "ok")
ProofOK(now, runs, shown, half, w, ended, j, o) ==
  Ready(ended, j, o) => Sound(now, runs, shown, half, w)

-----------------------------------------------------------------------------

CopiesOK(copies) ==
  /\ copies \in [Helpers -> [Places -> Copies]]
  /\ \A h \in Helpers : copies[h]["installed"] \in {None, Whole("root")}
\* Once an upload is protected nothing but the end of the job touches it.
UploadOK(copies, j) ==
  j # None /\ j.at \in {"clear-atomic", "prepare"} =>
    copies[Head(j.left)]["upload"] = Whole("protected")
HelpersOK == CopiesOK(helper) /\ UploadOK(helper, job)

RecInv == RecOK(rec, files)
HostInv == HostOK(rec, current, history)
InputInv == InputOK(rec, input)
WorkInv == WorkOK(rec, current, work)
OrphansInv == OrphansOK(rec, orphans)
WatchInv == WatchOK(work, exit, job)
JobInv == JobOK(rec, current, job, op)
OpInv == OpOK(rec, files, current, job, op, ingress)
IngressInv == IngressOK(rec, ingress)
ProofInv == ProofOK(current, runtime, proof, transition, work, exit, job, op)

PendingOK(p) == p \in Effects \cup RecoveryPending \cup RebindPending \cup {<<"directory">>}
OtherOK ==
  /\ runtime \in Releases \cup {False, Mixed, None}
  /\ proof \in {<<kind, r>> : kind \in {"r2", "r3"}, r \in Receipts} \cup {None}
  /\ transition \in BOOLEAN
  /\ PendingOK(pending)
  /\ addr \in Cidrs
  /\ faults \in 0..MaxFaults /\ moves \in 0..MaxMoves

IInv == /\ RecInv /\ HostInv /\ InputInv /\ WorkInv /\ OrphansInv /\ WatchInv /\ JobInv
        /\ OpInv /\ IngressInv /\ ProofInv /\ HelpersOK /\ OtherOK
-----------------------------------------------------------------------------
(* Receipts and requests *)

\* Receipts are told apart by how they came about.
LEMMA ReceiptsApart ==
  /\ Restored # <<>>
  /\ \A r \in Releases : Fresh(r) # <<>> /\ Fresh(r) # Restored
  /\ \A r, s \in Releases : Fresh(r) = Fresh(s) => r = s
  /\ \A c \in Candidates :
       /\ Updated(c) # <<>> /\ Undone(c) # <<>> /\ Redone(c) # <<>>
       /\ Restored \notin {Updated(c), Undone(c), Redone(c)}
       /\ \A r \in Releases : Fresh(r) \notin {Updated(c), Undone(c), Redone(c)}
  /\ \A c, e \in Candidates :
       /\ Updated(c) # Undone(e) /\ Updated(c) # Redone(e) /\ Undone(c) # Redone(e)
       /\ Updated(c) = Updated(e) => c = e
       /\ Undone(c) = Undone(e) => c = e
       /\ Redone(c) = Redone(e) => c = e
BY InstallerAssumption DEF Fresh, Updated, Restored, Undone, Redone, Installed, RolledBack, Releases

LEMMA ReceiptsTyped ==
  /\ Old \in Releases /\ Candidates \subseteq Releases
  /\ <<>> \in Receipts /\ Restored \in Receipts
  /\ \A r \in Releases : Fresh(r) \in Receipts
  /\ \A c \in Candidates : Updated(c) \in Receipts /\ Undone(c) \in Receipts /\ Redone(c) \in Receipts
BY DEF Fresh, Updated, Restored, Undone, Redone, Receipts, Releases

\* Sequences of two and of three are built and taken apart at the end.
LEMMA Ends ==
  ASSUME NEW a, NEW b, NEW d
  PROVE  /\ Append(<<>>, a) = <<a>> /\ Append(<<a>>, b) = <<a, b>>
         /\ Append(<<a, b>>, d) = <<a, b, d>>
         /\ Front(<<a>>) = <<>> /\ Front(<<a, b>>) = <<a>> /\ Front(<<a, b, d>>) = <<a, b>>
<1>. DEFINE S == {a, b, d}
<1>1. /\ <<>> \in Seq(S) /\ <<a>> \in Seq(S) /\ <<a, b>> \in Seq(S) /\ <<a, b, d>> \in Seq(S)
      /\ Len(<<>>) = 0 /\ Len(<<a>>) = 1 /\ Len(<<a, b>>) = 2 /\ Len(<<a, b, d>>) = 3
  OBVIOUS
<1>2. Append(<<a>>, b) \in Seq(S) /\ Len(Append(<<a>>, b)) = 2
  BY <1>1, AppendProperties
<1>3. Append(<<a>>, b)[1] = a /\ Append(<<a>>, b)[2] = b
  BY <1>1, AppendProperties
<1>4. Append(<<a, b>>, d) \in Seq(S) /\ Len(Append(<<a, b>>, d)) = 3
  BY <1>1, AppendProperties
<1>5. /\ Append(<<a, b>>, d)[1] = a /\ Append(<<a, b>>, d)[2] = b /\ Append(<<a, b>>, d)[3] = d
  BY <1>1, AppendProperties
<1>6. /\ Front(<<a>>) = <<>>
      /\ Front(<<a, b>>) \in Seq(S) /\ Len(Front(<<a, b>>)) = 1 /\ Front(<<a, b>>)[1] = a
  BY <1>1, SubSeqProperties DEF Front
<1>7. /\ Front(<<a, b, d>>) \in Seq(S) /\ Len(Front(<<a, b, d>>)) = 2
      /\ Front(<<a, b, d>>)[1] = a /\ Front(<<a, b, d>>)[2] = b
  BY <1>1, SubSeqProperties DEF Front
<1>8. Append(<<>>, a) = <<a>>
  OBVIOUS
<1>9. Append(<<a>>, b) = <<a, b>>
  <2>1. \A s \in Seq(S) : Len(s) = 2 /\ s[1] = a /\ s[2] = b => s = <<a, b>>
    OBVIOUS
  <2>. QED  BY <1>2, <1>3, <2>1
<1>10. Append(<<a, b>>, d) = <<a, b, d>>
  <2>1. \A s \in Seq(S) : Len(s) = 3 /\ s[1] = a /\ s[2] = b /\ s[3] = d => s = <<a, b, d>>
    OBVIOUS
  <2>. QED  BY <1>4, <1>5, <2>1
<1>11. Front(<<a, b>>) = <<a>>
  BY <1>6
<1>12. Front(<<a, b, d>>) = <<a, b>>
  BY <1>7
<1>. QED  BY <1>6, <1>8, <1>9, <1>10, <1>11, <1>12

\* What is last in a receipt, what precedes it, and what an activation makes of it.
LEMMA Lasts ==
  /\ Last(Restored) = RolledBack(Old)
  /\ \A r \in Releases : Last(Fresh(r)) = Installed(r)
  /\ \A c \in Candidates : /\ Last(Updated(c)) = Installed(c) /\ Last(Undone(c)) = RolledBack(Old)
                            /\ Last(Redone(c)) = Installed(Old)
BY DEF Fresh, Updated, Restored, Undone, Redone, Installed, RolledBack, Last

LEMMA Fronts ==
  /\ Front(Restored) = Fresh(Old)
  /\ \A r \in Releases : Front(Fresh(r)) = <<>>
  /\ \A c \in Candidates : /\ Front(Updated(c)) = Fresh(Old) /\ Front(Undone(c)) = Updated(c)
                            /\ Front(Redone(c)) = Updated(c)
BY Ends DEF Fresh, Updated, Restored, Undone, Redone

LEMMA Appends ==
  /\ Append(Fresh(Old), RolledBack(Old)) = Restored
  /\ \A r \in Releases : Append(<<>>, Installed(r)) = Fresh(r)
  /\ \A c \in Candidates :
       /\ Append(Fresh(Old), Installed(c)) = Updated(c)
       /\ Append(Updated(c), RolledBack(Old)) = Undone(c)
       /\ Append(Updated(c), Installed(Old)) = Redone(c)
BY Ends DEF Fresh, Updated, Restored, Undone, Redone

\* The releases of a receipt.
LEMMA Paths ==
  /\ Path(<<>>) = <<>>
  /\ Path(Restored) = <<Old, Old>>
  /\ \A r \in Releases : Path(Fresh(r)) = <<r>>
  /\ \A c \in Candidates : /\ Path(Updated(c)) = <<Old, c>>
                            /\ Path(Undone(c)) = <<Old, c, Old>> /\ Path(Redone(c)) = <<Old, c, Old>>
<1>1. Path(<<>>) = <<>>
  BY DEF Path
<1>2. Path(Restored) = <<Old, Old>>
  BY DEF Path, Restored, Installed, RolledBack
<1>3. ASSUME NEW r \in Releases PROVE Path(Fresh(r)) = <<r>>
  BY DEF Path, Fresh, Installed
<1>4. ASSUME NEW c \in Candidates PROVE Path(Updated(c)) = <<Old, c>>
  BY DEF Path, Updated, Installed
<1>5. ASSUME NEW c \in Candidates PROVE Path(Undone(c)) = <<Old, c, Old>>
  BY DEF Path, Undone, Installed, RolledBack
<1>6. ASSUME NEW c \in Candidates PROVE Path(Redone(c)) = <<Old, c, Old>>
  BY DEF Path, Redone, Installed
<1>. QED  BY <1>1, <1>2, <1>3, <1>4, <1>5, <1>6

LEMMA PathsGrow ==
  /\ Path(Restored) = Append(Path(Fresh(Old)), Old)
  /\ \A r \in Releases : Path(Fresh(r)) = Append(Path(<<>>), r)
  /\ \A c \in Candidates :
       /\ Path(Updated(c)) = Append(Path(Fresh(Old)), c)
       /\ Path(Undone(c)) = Append(Path(Updated(c)), Old) /\ Path(Redone(c)) = Path(Undone(c))
<1>. Old \in Releases
  BY DEF Releases
<1>1. Path(Restored) = Append(Path(Fresh(Old)), Old)
  BY Paths, Ends
<1>2. ASSUME NEW r \in Releases PROVE Path(Fresh(r)) = Append(Path(<<>>), r)
  BY Paths, Ends
<1>3. ASSUME NEW c \in Candidates PROVE Path(Updated(c)) = Append(Path(Fresh(Old)), c)
  BY Paths, Ends
<1>4. ASSUME NEW c \in Candidates
      PROVE  Path(Undone(c)) = Append(Path(Updated(c)), Old) /\ Path(Redone(c)) = Path(Undone(c))
  BY Paths, Ends
<1>. QED  BY <1>1, <1>2, <1>3, <1>4

\* What the target asks for: its first release, the candidate, or the way back.
Asked(r, q) ==
  \/ q.prev = <<>> /\ ~Beyond(r) /\ q.rel = r.desired
  \/ q.prev = <<>> /\ Beyond(r) /\ q.rel = Old
  \/ q.prev = Fresh(Old) /\ Beyond(r) /\ r.phase # "UpdateStaged" /\ q.rel = r.desired
  \/ q.prev = Updated(r.desired) /\ Returning(r) /\ q.rel = Old

LEMMA SentIsAsked ==
  ASSUME NEW r, NEW f, RecOK(r, f), NEW q \in Sent(r)
  PROVE  q \in Requests /\ Asked(r, q)
BY InstallerAssumption DEF RecOK, Sent, First, Second, Third, Request, Asked, Virgin, AtOrigin, Beyond,
     Before, After, Back, Releases

\* The stages of a target exclude each other.
LEMMA Stages ==
  ASSUME NEW r, NEW f, RecOK(r, f)
  PROVE  /\ r.desired \in Releases
         /\ Virgin(r) => ~AtOrigin(r) /\ ~Beyond(r)
         /\ AtOrigin(r) => ~Beyond(r)
         /\ Beyond(r) => r.desired \in Candidates /\ (Before(r) \/ After(r) \/ Back(r))
         /\ Before(r) => Beyond(r) /\ ~After(r) /\ ~Back(r)
         /\ After(r) => Beyond(r) /\ ~Back(r)
         /\ Back(r) => Beyond(r)
         /\ Mended(r) => After(r) /\ ~Returning(r)
         /\ Returning(r) => Beyond(r) /\ ~Before(r)
BY InstallerAssumption DEF RecOK, Record, Virgin, AtOrigin, Beyond, Before, After, Back, Mended, Returning,
     Releases, RollbackPhases

-----------------------------------------------------------------------------
(* How the receipt of the host moves *)

Advance(r, now, next) ==
  \/ Virgin(r) /\ now = <<>> /\ next = Fresh(r.desired)
  \/ /\ Before(r) /\ r.phase = "UpdateInstalling"
     /\ now \in {Fresh(Old), Restored} /\ next \in {Updated(r.desired), Restored}
  \/ /\ Returning(r)
     /\ now \in {Updated(r.desired), Undone(r.desired)} /\ next \in {Undone(r.desired), Redone(r.desired)}

\* Where the host is tells how far the target is.
LEMMA HostTells ==
  ASSUME RecInv, HostInv
  PROVE  /\ current \in Receipts
         /\ current = <<>> => Virgin(rec)
         /\ current \in {Fresh(Old), Restored} /\ Beyond(rec) => Before(rec)
         /\ current = Restored => Before(rec) /\ rec.phase = "UpdateInstalling"
         /\ \A c \in Candidates : /\ current \in {Undone(c), Redone(c)} => Returning(rec) /\ c = rec.desired
                                  /\ current = Updated(c) => Beyond(rec) /\ c = rec.desired
<1>. DEFINE d == rec.desired
<1>1. /\ rec.desired \in Releases /\ Old \in Releases /\ RecOK(rec, files) /\ HostOK(rec, current, history)
      /\ Beyond(rec) => rec.desired \in Candidates
  BY Stages DEF RecInv, HostInv, Releases
<1>2. CASE Virgin(rec)
  BY <1>1, <1>2, Stages, ReceiptsApart, ReceiptsTyped DEF HostOK
<1>3. CASE AtOrigin(rec)
  BY <1>1, <1>3, Stages, ReceiptsApart, ReceiptsTyped DEF HostOK
<1>4. CASE Before(rec)
  BY <1>1, <1>4, Stages, ReceiptsApart, ReceiptsTyped DEF HostOK, Before
<1>5. CASE After(rec) /\ ~Returning(rec)
  <2>1. current = Updated(d) /\ d \in Candidates /\ Beyond(rec)
    BY <1>1, <1>5, Stages DEF HostOK
  <2>. QED  BY <1>1, <2>1, ReceiptsApart, ReceiptsTyped
<1>6. CASE Returning(rec)
  <2>1. /\ current \in {Updated(d), Undone(d), Redone(d)} /\ d \in Candidates /\ Beyond(rec)
        /\ ~Before(rec)
    BY <1>1, <1>6, Stages DEF HostOK, Returning
  <2>. QED  BY <1>1, <1>6, <2>1, ReceiptsApart, ReceiptsTyped
<1>. QED  BY <1>1, <1>2, <1>3, <1>4, <1>5, <1>6 DEF RecOK, Returning

LEMMA HostHas ==
  ASSUME RecInv, HostInv
  PROVE  \/ ~Beyond(rec) /\ current \in {<<>>, Fresh(rec.desired)}
         \/ /\ Beyond(rec) /\ rec.desired \in Candidates
            /\ current \in {Fresh(Old), Updated(rec.desired), Restored, Undone(rec.desired), Redone(rec.desired)}
<1>1. RecOK(rec, files) /\ HostOK(rec, current, history)
  BY DEF RecInv, HostInv
<1>. QED  BY <1>1, Stages DEF HostOK, RecOK, Before, After, Back

\* What an activation publishes is the next receipt of the host.
LEMMA EndingAdvances ==
  ASSUME RecInv, HostInv, NEW w, w.request \in Sent(rec), Ending(w, current)
  PROVE  w.receipt \in Receipts /\ Advance(rec, current, w.receipt)
<1>. DEFINE q == w.request  d == rec.desired
<1>1. RecOK(rec, files) /\ Asked(rec, q) /\ d \in Releases /\ (Beyond(rec) => d \in Candidates)
  BY SentIsAsked, Stages DEF RecInv
<1>2. CASE q.prev = <<>> /\ current = <<>> /\ w.receipt = Fresh(q.rel)
  <2>1. Virgin(rec) /\ ~Beyond(rec)
    BY <1>1, <1>2, HostTells, Stages
  <2>2. q.rel = d
    BY <1>1, <2>1, Stages DEF Asked
  <2>. QED  BY <1>1, <1>2, <2>1, <2>2, ReceiptsTyped DEF Advance
<1>3. CASE q.prev = Fresh(Old) /\ current \in {Fresh(Old), Restored} /\ w.receipt \in {Updated(q.rel), Restored}
  <2>1. Beyond(rec) /\ rec.phase # "UpdateStaged" /\ q.rel = d
    BY <1>1, <1>3, Stages, ReceiptsApart, ReceiptsTyped DEF Asked
  <2>2. Before(rec)
    BY <1>3, <2>1, HostTells
  <2>. QED  BY <1>1, <1>3, <2>1, <2>2, ReceiptsTyped DEF Advance, Before
<1>4. ASSUME NEW c \in Candidates, q.prev = Updated(c), current \in {Updated(c), Undone(c)},
             w.receipt = Undone(c) \/ (current = Undone(c) /\ w.receipt = Redone(c))
      PROVE  w.receipt \in Receipts /\ Advance(rec, current, w.receipt)
  <2>1. Returning(rec) /\ c = d
    BY <1>1, <1>4, Stages, ReceiptsApart, ReceiptsTyped DEF Asked
  <2>. QED  BY <1>4, <2>1, ReceiptsTyped DEF Advance
<1>. QED  BY <1>2, <1>3, <1>4 DEF Ending

\* What the history answers to a request is such a receipt too.
LEMMA PublishedAdvances ==
  ASSUME RecInv, HostInv, NEW q \in Sent(rec), ~Replay(q), NEW p \in Published(q)
  PROVE  p \in Receipts /\ Advance(rec, current, p)
<1>. DEFINE d == rec.desired
<1>1. /\ RecOK(rec, files) /\ HostOK(rec, current, history)
      /\ Asked(rec, q) /\ d \in Releases /\ (Beyond(rec) => d \in Candidates)
  BY SentIsAsked, Stages DEF RecInv, HostInv
<1>2. /\ p \in history /\ p # <<>> /\ Last(p)[2] = "installed" /\ Last(p)[1] = q.rel /\ Front(p) = q.prev
      /\ current = <<>> \/ Front(p) = current \/ Again(q)
  BY DEF Published, IsState, Matches
<1>3. Again(q) => current # <<>> /\ Last(current)[2] = "rolled_back" /\ q.prev = Front(current)
  BY DEF Again, IsState
<1>4. \A r : Installed(r)[1] = r /\ Installed(r)[2] = "installed" /\ RolledBack(r)[2] = "rolled_back"
  BY DEF Installed, RolledBack
<1>5. p # Restored /\ (Beyond(rec) => p # Undone(d))
  BY <1>1, <1>2, <1>4, Lasts
<1>6. CASE p = Fresh(d) /\ ~Beyond(rec)
  <2>1. Front(p) = <<>> /\ q.prev = <<>>
    BY <1>1, <1>2, <1>6, Fronts
  <2>2. current \in {<<>>, Fresh(d)} /\ (Virgin(rec) \/ current # <<>>)
    BY <1>1, <1>6, HostTells, Stages DEF HostOK, RecOK
  <2>3. current # Fresh(d)
    BY <1>1, <1>2, <1>6, ReceiptsApart DEF Replay, IsState, Matches
  <2>. QED  BY <1>1, <1>6, <2>2, <2>3, ReceiptsTyped DEF Advance
<1>7. CASE p = Fresh(Old) /\ Beyond(rec)
  <2>1. q.prev = <<>> /\ current # <<>> /\ Again(q)
    BY <1>1, <1>2, <1>7, Fronts, HostTells, Stages, ReceiptsTyped
  <2>2. Front(current) = <<>> /\ Last(current)[2] = "rolled_back"
    BY <1>3, <2>1
  <2>3. current \in {Fresh(Old), Updated(d), Restored, Undone(d), Redone(d)}
    BY <1>1, <1>7, Stages DEF HostOK, Before, After, Back
  <2>4. current = Fresh(Old)
    BY <1>1, <1>7, <2>2, <2>3, Fronts, ReceiptsApart, ReceiptsTyped
  <2>. QED  BY <1>4, <2>2, <2>4, Lasts, ReceiptsTyped
<1>8. CASE p = Updated(d) /\ Beyond(rec)
  <2>1. q.prev = Fresh(Old) /\ q.rel = d
    BY <1>1, <1>2, <1>4, <1>8, Fronts, Lasts
  <2>2. rec.phase # "UpdateStaged" /\ current # Updated(d)
    BY <1>1, <1>2, <1>8, <2>1, Fronts, Lasts, ReceiptsApart, ReceiptsTyped DEF Asked, Replay, IsState, Matches
  <2>3. current # <<>> /\ (current = Fresh(Old) \/ Front(current) = Fresh(Old))
    BY <1>1, <1>2, <1>3, <1>8, <2>1, HostTells, Stages
  <2>4. current \in {Fresh(Old), Undone(d), Redone(d), Restored}
    BY <1>1, <1>8, <2>2, Stages DEF HostOK, Before, After, Back
  <2>5. current \in {Fresh(Old), Restored}
    BY <1>1, <1>8, <2>3, <2>4, Fronts, ReceiptsApart, ReceiptsTyped
  <2>. QED  BY <1>1, <1>8, <2>2, <2>5, HostTells, ReceiptsTyped DEF Advance, Before
<1>9. CASE p = Redone(d) /\ Returning(rec)
  <2>1. q.prev = Updated(d) /\ q.rel = Old /\ Beyond(rec)
    BY <1>1, <1>2, <1>4, <1>9, Fronts, Lasts, Stages
  <2>2. current \in {Updated(d), Undone(d), Redone(d)} /\ current # Redone(d)
    BY <1>1, <1>2, <1>9, <2>1, Stages, Fronts, Lasts, ReceiptsApart, ReceiptsTyped
       DEF HostOK, Returning, Replay, IsState, Matches
  <2>. QED  BY <1>1, <1>9, <2>1, <2>2, ReceiptsTyped DEF Advance
<1>. QED  BY <1>1, <1>2, <1>5, <1>6, <1>7, <1>8, <1>9, Stages DEF HostOK, RecOK

\* An advance keeps what is said of the host, of the job and of the operation; the chain of
\* releases takes one step at most.
LEMMA AdvanceKeeps ==
  ASSUME RecInv, HostInv, JobInv, OpInv, UNCHANGED <<rec, files, history, job, op, ingress>>,
         Advance(rec, current, current')
  PROVE  HostInv' /\ JobInv' /\ OpInv' /\ ~Mended(rec)
<1>. DEFINE d == rec.desired
<1>1. /\ RecOK(rec, files) /\ HostOK(rec, current, history) /\ d \in Releases
      /\ (Beyond(rec) => d \in Candidates)
  BY Stages DEF RecInv, HostInv
<1>2. HostOK(rec, current', history) /\ ~Mended(rec)
  <2>1. CASE Virgin(rec) /\ current' = Fresh(d)
    BY <1>1, <2>1, Stages DEF HostOK
  <2>2. CASE Before(rec) /\ rec.phase = "UpdateInstalling" /\ current' \in {Updated(d), Restored}
    BY <1>1, <2>2, Stages DEF HostOK
  <2>3. CASE Returning(rec) /\ current' \in {Undone(d), Redone(d)}
    BY <1>1, <2>3, Stages DEF HostOK
  <2>. QED  BY <2>1, <2>2, <2>3 DEF Advance
<1>3. /\ rec.phase = "UpdateInstalling" => current # Updated(d)
      /\ rec.phase = "RollbackInstalling" => current' \in {Undone(d), Redone(d)}
      /\ rec.current = None => current # Fresh(d)
  <2>1. CASE Virgin(rec) /\ current = <<>>
    BY <1>1, <2>1, ReceiptsApart DEF Virgin
  <2>2. CASE Before(rec) /\ current \in {Fresh(Old), Restored}
    BY <1>1, <2>2, Stages, InstallerAssumption, ReceiptsApart, ReceiptsTyped DEF Before
  <2>3. CASE Returning(rec) /\ current' \in {Undone(d), Redone(d)}
    BY <1>1, <2>3, InstallerAssumption, ReceiptsTyped DEF Returning, RollbackPhases, After, Back
  <2>. QED  BY <2>1, <2>2, <2>3 DEF Advance
<1>4. JobOK(rec, current', job, op)
  <2>1. SUFFICES ASSUME job # None, job.at = "done", Installs(rec, job, op)
                 PROVE  current' = job.goal \/ (op.kind = "rollback" /\ current' = Redone(d))
    BY DEF JobInv, JobOK
  <2>2. current = job.goal \/ (op.kind = "rollback" /\ current = Redone(d))
    BY <2>1 DEF JobInv, JobOK
  <2>. QED  BY <1>3, <2>1, <2>2 DEF Installs, Virgin
<1>5. OpOK(rec, files, current', job, op, ingress)
  BY <1>3 DEF OpInv, OpOK
<1>. QED  BY <1>2, <1>4, <1>5 DEF HostInv, JobInv, OpInv

-----------------------------------------------------------------------------
(* What is claimed of a step *)

RunsClaim ==
  runtime' # runtime /\ runtime' \in Releases =>
    \/ rec.phase = "HostKeyPinned"      /\ runtime' = rec.desired
    \/ rec.phase = "UpdateInstalling"   /\ runtime' \in {rec.desired, rec.previous}
    \/ rec.phase \in {"RolledBack"} \cup RollbackPhases /\ runtime' = rec.previous
    \/ rec.phase = "Verified"           /\ runtime' = rec.current /\ work.by = "recover"
ChainClaim == [Chain!Activate \/ Chain!Record]_<<Path(current), Path(rec.receipt)>>
Owed == IInv' /\ RunsClaim /\ ChainClaim

LEMMA AdvanceChains ==
  ASSUME RecInv, HostInv, UNCHANGED rec, Advance(rec, current, current')
  PROVE  ChainClaim
<1>. DEFINE d == rec.desired
<1>1. /\ RecOK(rec, files) /\ d \in Releases /\ (Beyond(rec) => d \in Candidates)
      /\ Old \in Releases /\ Candidates \subseteq Releases
  BY Stages, ReceiptsTyped DEF RecInv
<1>2. /\ Virgin(rec) => rec.receipt = <<>>
      /\ Before(rec) => rec.receipt = Fresh(Old) /\ d \in Candidates
      /\ After(rec) => rec.receipt = Updated(d) /\ d \in Candidates
      /\ Back(rec) => rec.receipt = Undone(d) /\ d \in Candidates
  BY <1>1, Stages DEF Virgin, Before, After, Back
<1>3. \/ \E r \in Releases : Path(current') = Append(Path(rec.receipt), r)
      \/ Path(current') = Path(current)
  <2>1. Back(rec) => Path(current) = Path(rec.receipt)
    BY <1>1, <1>2, PathsGrow DEF HostInv, HostOK
  <2>. QED  BY <1>1, <1>2, <2>1, PathsGrow DEF Advance, Returning
<1>. QED  BY <1>3 DEF ChainClaim, Chain!Activate, Chain!Record

-----------------------------------------------------------------------------
(* The programs on the host *)

Aside == UNCHANGED <<rec, files, ingress, addr, moves, helper, pending, job, op>> /\ faults' \in 0..MaxFaults
Runtimes == Releases \cup {False, Mixed, None}
Proofs == {<<kind, r>> : kind \in {"r2", "r3"}, r \in Receipts} \cup {None}
SoundInv == Sound(current, runtime, proof, transition, work)
ReadyNow == Ready(exit, job, op)

\* A step of a program keeps the invariant if it keeps what is said of the programs.
LEMMA Besides ==
  ASSUME IInv, Aside,
         HostInv', JobInv', OpInv', InputInv', WorkInv', OrphansInv', WatchInv', ProofInv',
         runtime' \in Runtimes, proof' \in Proofs, transition' \in BOOLEAN
  PROVE  IInv'
<1>1. RecInv' /\ IngressInv' /\ HelpersOK'
  BY DEF Aside, IInv, RecInv, IngressInv, HelpersOK
<1>2. OtherOK'
  BY DEF Aside, IInv, OtherOK, Runtimes, Proofs
<1>. QED  BY <1>1, <1>2 DEF IInv

\* As long as the receipts of the host stay, so does what they mean.
LEMMA SameReceipts ==
  ASSUME IInv, Aside, UNCHANGED <<current, history>>
  PROVE  HostInv' /\ JobInv' /\ OpInv' /\ ChainClaim
<1>1. HostInv' /\ JobInv' /\ OpInv'
  BY DEF Aside, IInv, HostInv, JobInv, OpInv
<1>. QED  BY <1>1 DEF Aside, ChainClaim

\* What is known when an attestation may be read.
LEMMA WhenReady ==
  ASSUME IInv, op # None, op.at = "read"
  PROVE  /\ Mended(rec) /\ rec.desired \in Candidates /\ current = Updated(rec.desired)
         /\ job # None => job.by = "attest" /\ job.at \in ProgramPoints
         /\ work # None /\ work.by \in Installers => work.at \in {"start", "judge"}
<1>. DEFINE d == rec.desired
<1>1. RecOK(rec, files)
  BY DEF IInv, RecInv
<1>2. Mended(rec)
  BY DEF IInv, OpInv, OpOK, Operation
<1>3. d \in Candidates /\ current = Updated(d) /\ ~Returning(rec)
  BY <1>1, <1>2, Stages DEF IInv, HostInv, HostOK
<1>4. job # None => job.by = "attest" /\ job.at \in ProgramPoints
  BY DEF IInv, JobInv, JobOK, HelpersOnly, ProgramOnly, Installs, Repairs
<1>5. ASSUME work # None, work.by \in Installers, work.at \notin {"start", "judge"} PROVE FALSE
  <2>1. work.request \in Sent(rec) /\ (Going(work, current) \/ Restoring(work, current) \/ Ending(work, current))
    BY <1>5 DEF IInv, WorkInv, WorkOK
  <2>2. work.request.prev = <<>> \/ work.request.prev = Fresh(Old)
    BY <1>1, <1>3, <2>1, SentIsAsked DEF Asked
  <2>. QED
    BY <1>3, <2>1, <2>2, ReceiptsApart, ReceiptsTyped DEF Going, Restoring, Ending
<1>. QED  BY <1>2, <1>3, <1>4, <1>5

\* A program ends, and its end makes an attestation ready only if it was the attester.
LEMMA WorkEnds ==
  ASSUME IInv, Aside, work # None, NEW status \in {"ok", "failed"}, Exit(status)
  PROVE  /\ WorkInv' /\ WatchInv'
         /\ ReadyNow' => ReadyNow \/ (work.by = "attest" /\ status = "ok")
<1>1. WorkInv' /\ WatchInv'
  BY DEF IInv, WatchInv, WatchOK, WorkInv, WorkOK, Exit
<1>2. CASE ~work.watched
  BY <1>1, <1>2 DEF Aside, Exit, ReadyNow, Ready
<1>3. CASE work.watched
  <2>1. job # None /\ job.at = "running" /\ work.by = job.by
    BY <1>3 DEF IInv, WatchInv, WatchOK
  <2>2. ReadyNow' => status = "ok" /\ op # None /\ op.at = "read"
    BY <1>3, <2>1 DEF Aside, Exit, ReadyNow, Ready
  <2>. QED  BY <2>1, <2>2, <1>1, WhenReady
<1>. QED  BY <1>1, <1>2, <1>3

\* A program of an installation that goes on keeps what was proved.
LEMMA InstallerGoesOn ==
  ASSUME IInv, Aside, work # None, work.by \in Installers, UNCHANGED <<exit, proof, transition>>,
         work'.by = work.by, work'.watched = work.watched,
         work.at \in {"start", "judge"} => UNCHANGED <<current, runtime>>
  PROVE  WatchInv' /\ ProofInv'
<1>1. WatchInv'
  BY DEF IInv, Aside, WatchInv, WatchOK
<1>2. ASSUME Ready(exit', job', op') PROVE Sound(current', runtime', proof', transition', work')
  <2>1. ReadyNow /\ op # None /\ op.at = "read"
    BY <1>2 DEF Aside, ReadyNow, Ready
  <2>2. SoundInv /\ UNCHANGED <<current, runtime>>
    BY <2>1, WhenReady DEF IInv, ProofInv, ProofOK, ReadyNow, SoundInv
  <2>. QED  BY <2>2 DEF SoundInv, Sound, Installers
<1>. QED  BY <1>1, <1>2 DEF ProofInv, ProofOK

\* A program that waits takes the lock.
LEMMA OrphanStep ==
  ASSUME IInv, OrphanTakesLock, Aside
  PROVE  Owed
<1>1. PICK program \in orphans :
        /\ work = None /\ orphans' = orphans \ {program}
        /\ work' = [by |-> program, at |-> "start", watched |-> FALSE, request |-> None, receipt |-> <<>>]
        /\ UNCHANGED <<input, current, history, runtime, proof, transition, exit>>
  BY DEF OrphanTakesLock, TakeLock
<1>2. program \in Programs /\ (program \in Repairs => Mended(rec))
  BY <1>1 DEF IInv, OrphansInv, OrphansOK
<1>3. WorkInv'
  <2>1. work' \in Work
    BY <1>1, <1>2, ReceiptsTyped DEF Work, Steps
  <2>. QED  BY <1>1, <1>2, <2>1 DEF Aside, WorkInv, WorkOK, Programs, Installers, Repairs
<1>4. OrphansInv' /\ InputInv'
  BY <1>1 DEF IInv, Aside, OrphansInv, OrphansOK, InputInv
<1>5. WatchInv'
  BY <1>1 DEF IInv, WatchInv, WatchOK
<1>6. ProofInv'
  BY <1>1 DEF IInv, Aside, ProofInv, ProofOK, Ready, Sound
<1>7. runtime' \in Runtimes /\ proof' \in Proofs /\ transition' \in BOOLEAN /\ RunsClaim
  BY <1>1 DEF IInv, OtherOK, Runtimes, Proofs, RunsClaim
<1>8. UNCHANGED <<current, history>>
  BY <1>1
<1>. QED  BY <1>3, <1>4, <1>5, <1>6, <1>7, <1>8, SameReceipts, Besides DEF Owed

\* The uploads of a request that was sent are all it can consume.
LEMMA ConsumeStep ==
  ASSUME IInv, ConsumeUploads, Aside
  PROVE  Owed
<1>1. /\ work # None /\ work.by \in Installers /\ work.at = "start"
      /\ UNCHANGED <<current, history, runtime, proof, transition, orphans>>
      /\ input' = input \/ input' = [i \in InputNames |-> None]
  BY DEF ConsumeUploads, WorkAt
<1>2. OrphansInv' /\ InputInv'
  BY <1>1 DEF IInv, Aside, OrphansInv, OrphansOK, InputInv, InputOK, HoldsOK, Inputs
<1>3. runtime' \in Runtimes /\ proof' \in Proofs /\ transition' \in BOOLEAN /\ RunsClaim
  BY <1>1 DEF IInv, OtherOK, Runtimes, Proofs, RunsClaim
<1>4. HostInv' /\ JobInv' /\ OpInv' /\ ChainClaim
  BY <1>1, SameReceipts
<1>5. CASE Exit("failed")
  <2>1. WorkInv' /\ WatchInv' /\ (ReadyNow' => ReadyNow)
    BY <1>1, <1>5, WorkEnds
  <2>2. ProofInv'
    BY <1>1, <1>5, <2>1 DEF IInv, ProofInv, ProofOK, ReadyNow, Sound, Exit
  <2>. QED  BY <1>2, <1>3, <1>4, <2>1, <2>2, Besides DEF Owed
<1>6. CASE /\ \A i \in InputNames : Uploaded(i)
           /\ work' = [work EXCEPT !.at = "judge", !.request = input["request"].holds[1]]
           /\ UNCHANGED exit
  <2>1. input["request"].holds[1] \in Sent(rec)
    <3>1. input["request"] # None /\ input["request"].mode = "root" /\ HoldsOK(rec, "request", input["request"])
      BY <1>6 DEF IInv, InputInv, InputOK, Uploaded, InputNames
    <3>. QED  BY <3>1 DEF HoldsOK
  <2>2. WorkInv'
    <3>1. work \in Work /\ input["request"].holds[1] \in Requests
      BY <1>1, <2>1 DEF IInv, WorkInv, WorkOK, Sent
    <3>2. work' \in Work /\ work'.by = work.by /\ work'.at = "judge" /\ work'.request \in Sent(rec)
      BY <1>6, <2>1, <3>1 DEF Work, Steps
    <3>. QED  BY <1>1, <3>2 DEF Aside, WorkInv, WorkOK, Installers, Repairs
  <2>3. work'.by = work.by /\ work'.watched = work.watched
    BY <1>1, <1>6 DEF IInv, WorkInv, WorkOK, Work
  <2>4. WatchInv' /\ ProofInv'
    BY <1>1, <1>6, <2>3, InstallerGoesOn
  <2>. QED  BY <1>2, <1>3, <1>4, <2>2, <2>4, Besides DEF Owed
<1>. QED  BY <1>5, <1>6 DEF ConsumeUploads

\* What is admitted and chained may be activated.
LEMMA JudgedIsGoing ==
  ASSUME RecInv, HostInv, work \in Work, work.by \in Installers, work.request \in Sent(rec),
         Chained(work.request), Admitted(work.by, work.request)
  PROVE  Going([work EXCEPT !.at = "activate"], current)
<1>. DEFINE q == work.request  d == rec.desired  w == [work EXCEPT !.at = "activate"]
<1>1. w.request = q /\ w.by = work.by
  BY DEF Work
<1>2. /\ Asked(rec, q) /\ RecOK(rec, files) /\ d \in Releases /\ Old \in Releases
      /\ (Beyond(rec) => d \in Candidates /\ d # Old)
  BY SentIsAsked, Stages, InstallerAssumption, ReceiptsTyped DEF RecInv
<1>3. \/ current = <<>> \/ current = q.prev
      \/ current # <<>> /\ Last(current)[2] = "rolled_back" /\ q.prev = Front(current)
  BY DEF Chained, Again, IsState
<1>4. \/ current = <<>> \/ q.rel = Last(current)[1]
      \/ w.by = "bootstrap" /\ Last(current)[1] = Old
      \/ w.by = "retained" /\ Last(current)[1] \in Candidates
  BY <1>1 DEF Admitted
<1>5. \A r : /\ Installed(r)[1] = r /\ Installed(r)[2] = "installed"
             /\ RolledBack(r)[1] = r /\ RolledBack(r)[2] = "rolled_back"
  BY DEF Installed, RolledBack
<1>6. CASE q.prev = <<>>
  <2>1. current = <<>>
    BY <1>2, <1>3, <1>5, <1>6, HostHas, Lasts, Fronts, ReceiptsApart
  <2>. QED  BY <1>1, <1>6, <2>1 DEF Going
<1>7. CASE q.prev = Fresh(Old) /\ Beyond(rec) /\ q.rel = d
  <2>1. current \in {Fresh(Old), Restored}
    BY <1>2, <1>3, <1>5, <1>7, HostHas, HostTells, Lasts, Fronts, ReceiptsApart
  <2>2. Last(current)[1] = Old
    BY <1>2, <1>5, <2>1, Lasts
  <2>3. w.by = "bootstrap"
    BY <1>2, <1>4, <1>7, <2>1, <2>2, ReceiptsApart, InstallerAssumption
  <2>. QED  BY <1>1, <1>7, <2>1, <2>3 DEF Going
<1>8. CASE q.prev = Updated(d) /\ Beyond(rec) /\ q.rel = Old
  <2>1. current \in {Updated(d), Undone(d)}
    BY <1>2, <1>3, <1>5, <1>8, HostHas, HostTells, Lasts, Fronts, ReceiptsApart
  <2>2. current = Updated(d) => w.by = "retained"
    BY <1>2, <1>4, <1>5, <1>8, Lasts, ReceiptsApart
  <2>. QED  BY <1>1, <1>2, <1>8, <2>1, <2>2 DEF Going
<1>. QED  BY <1>2, <1>6, <1>7, <1>8, Stages DEF Asked

\* A request is judged by the receipt the host has.
LEMMA JudgeStep ==
  ASSUME IInv, Judge, Aside
  PROVE  Owed
<1>. DEFINE q == work.request
<1>1. /\ work # None /\ work.by \in Installers /\ work.at = "judge" /\ work \in Work
      /\ q \in Sent(rec) /\ q \in Requests /\ Asked(rec, q)
      /\ UNCHANGED <<input, history, runtime, proof, transition, orphans>>
  BY SentIsAsked DEF IInv, RecInv, Judge, WorkAt, WorkInv, WorkOK
<1>2. OrphansInv' /\ InputInv'
  BY <1>1 DEF IInv, Aside, OrphansInv, InputInv
<1>3. runtime' \in Runtimes /\ proof' \in Proofs /\ transition' \in BOOLEAN /\ RunsClaim
  BY <1>1 DEF IInv, OtherOK, Runtimes, Proofs, RunsClaim
<1>4. ASSUME NEW status \in {"ok", "failed"}, Exit(status), UNCHANGED current
      PROVE  Owed
  <2>1. WorkInv' /\ WatchInv' /\ (ReadyNow' => ReadyNow)
    BY <1>1, <1>4, WorkEnds DEF Installers
  <2>2. ProofInv'
    BY <1>1, <1>4, <2>1 DEF IInv, ProofInv, ProofOK, ReadyNow, Sound, Exit
  <2>. QED  BY <1>1, <1>2, <1>3, <1>4, <2>1, <2>2, SameReceipts, Besides DEF Owed
<1>5. CASE Exit("ok") /\ ~Replay(q) /\ current' \in Published(q)
  <2>1. Advance(rec, current, current')
    BY <1>1, <1>5, PublishedAdvances DEF IInv
  <2>2. HostInv' /\ JobInv' /\ OpInv' /\ ~Mended(rec) /\ ChainClaim
    BY <1>1, <2>1, AdvanceKeeps, AdvanceChains DEF IInv, Aside
  <2>3. WorkInv' /\ WatchInv' /\ (ReadyNow' => ReadyNow)
    BY <1>1, <1>5, WorkEnds DEF Installers
  <2>4. ProofInv'
    BY <2>2, <2>3, WhenReady DEF ProofInv, ProofOK, ReadyNow, Ready
  <2>. QED  BY <1>2, <1>3, <2>2, <2>3, <2>4, Besides DEF Owed
<1>6. CASE /\ ~Replay(q) /\ Published(q) = {} /\ Chained(q) /\ Admitted(work.by, q)
           /\ Continue("activate") /\ UNCHANGED <<current, exit>>
  <2>1. Going([work EXCEPT !.at = "activate"], current)
    BY <1>1, <1>6, JudgedIsGoing DEF IInv
  <2>2. WorkInv'
    <3>1. work' \in Work /\ work'.by = work.by /\ work'.at = "activate" /\ work'.request = q
      BY <1>1, <1>6 DEF Work, Steps, Continue
    <3>. QED  BY <1>1, <1>6, <2>1, <3>1 DEF Aside, WorkInv, WorkOK, Installers, Repairs, Continue
  <2>3. work'.by = work.by /\ work'.watched = work.watched
    BY <1>1, <1>6 DEF Work, Continue
  <2>4. WatchInv' /\ ProofInv'
    BY <1>1, <1>6, <2>3, InstallerGoesOn
  <2>. QED  BY <1>1, <1>2, <1>3, <1>6, <2>2, <2>4, SameReceipts, Besides DEF Owed
<1>. QED  BY <1>4, <1>5, <1>6 DEF Judge

\* What runs of an installation is what its request asks for.
LEMMA GoingTells ==
  ASSUME RecInv, HostInv, NEW w, w.request \in Sent(rec), Going(w, current)
  PROVE  LET q == w.request
         IN /\ q.rel \in Releases
            /\ \/ q.prev = <<>> /\ current = <<>> /\ rec.phase = "HostKeyPinned" /\ q.rel = rec.desired
               \/ /\ q.prev = Fresh(Old) /\ current \in {Fresh(Old), Restored} /\ w.by = "bootstrap"
                  /\ rec.phase = "UpdateInstalling" /\ q.rel = rec.desired /\ q.rel \in Candidates
                  /\ rec.previous = Old
               \/ /\ q.prev = Updated(rec.desired) /\ q.rel = Old /\ rec.desired \in Candidates
                  /\ \/ current = Undone(rec.desired)
                     \/ current = Updated(rec.desired) /\ w.by = "retained"
                  /\ rec.phase \in {"RolledBack"} \cup RollbackPhases /\ rec.previous = Old
<1>. DEFINE q == w.request  d == rec.desired
<1>1. /\ Asked(rec, q) /\ RecOK(rec, files) /\ d \in Releases /\ Old \in Releases /\ q.rel \in Releases
      /\ (Beyond(rec) => d \in Candidates)
  BY SentIsAsked, Stages, ReceiptsTyped DEF RecInv, Requests
<1>2. CASE q.prev = <<>> /\ current = <<>>
  <2>1. Virgin(rec) /\ ~Beyond(rec)
    BY <1>1, <1>2, HostTells, Stages
  <2>2. q.rel = d
    BY <1>1, <2>1, Stages DEF Asked
  <2>. QED  BY <1>1, <1>2, <2>1, <2>2 DEF Virgin
<1>3. CASE q.prev = Fresh(Old) /\ w.by = "bootstrap" /\ current \in {Fresh(Old), Restored}
  <2>1. Beyond(rec) /\ rec.phase # "UpdateStaged" /\ q.rel = d
    BY <1>1, <1>3, Stages, ReceiptsApart DEF Asked
  <2>2. Before(rec)
    BY <1>3, <2>1, HostTells
  <2>. QED  BY <1>1, <1>3, <2>1, <2>2 DEF Before, Beyond
<1>4. ASSUME NEW c \in Candidates, q.prev = Updated(c),
             current = Undone(c) \/ (current = Updated(c) /\ w.by = "retained")
      PROVE  /\ q.prev = Updated(d) /\ q.rel = Old /\ d \in Candidates
             /\ current = Undone(d) \/ (current = Updated(d) /\ w.by = "retained")
             /\ rec.phase \in {"RolledBack"} \cup RollbackPhases /\ rec.previous = Old
  <2>1. Returning(rec) /\ c = d /\ q.rel = Old
    BY <1>1, <1>4, Stages, ReceiptsApart, ReceiptsTyped DEF Asked
  <2>. QED  BY <1>4, <2>1 DEF Returning, Back, After, Beyond
<1>. QED  BY <1>1, <1>2, <1>3, <1>4 DEF Going

\* The program and what it does next.
LEMMA WorkGoesOn ==
  ASSUME IInv, Aside, UNCHANGED current, work # None, work.by \in Installers, work.at # "start",
         NEW step \in {"restore", "history", "current"}, NEW receipt \in Receipts,
         work' = [work EXCEPT !.at = step, !.receipt = receipt],
         step = "restore" => Restoring(work, current),
         step \in {"history", "current"} => Ending([work EXCEPT !.receipt = receipt], current)
  PROVE  WorkInv'
<1>1. work \in Work /\ work.request \in Sent(rec)
  BY DEF IInv, WorkInv, WorkOK
<1>2. /\ work' \in Work /\ work'.by = work.by /\ work'.at = step /\ work'.request = work.request
      /\ work'.receipt = receipt
  BY <1>1 DEF Work, Steps
<1>3. step = "restore" => Restoring(work', current)
  BY <1>2 DEF Restoring
<1>4. step \in {"history", "current"} => Ending(work', current)
  BY <1>1, <1>2 DEF Ending, Work
<1>. QED  BY <1>1, <1>2, <1>3, <1>4 DEF Aside, WorkInv, WorkOK, Installers, Repairs

\* An activation runs what it was asked to run, and its receipt is the next one.
LEMMA ActivateStep ==
  ASSUME IInv, Activate, Aside
  PROVE  Owed
<1>. DEFINE q == work.request  d == rec.desired
            rollback == work.by = "retained" /\ current # <<>>
            receipt == Append(IF current = <<>> THEN <<>> ELSE q.prev,
                              IF rollback THEN RolledBack(q.rel) ELSE Installed(q.rel))
<1>1. /\ work # None /\ work.by \in Installers /\ work.at = "activate" /\ work \in Work
      /\ q \in Sent(rec) /\ Going(work, current) /\ RecInv /\ HostInv
      /\ UNCHANGED <<input, current, history, proof, transition, orphans, exit>>
      /\ runtime' \in {q.rel, False} /\ work' = [work EXCEPT !.at = "history", !.receipt = receipt]
  BY DEF IInv, Activate, WorkAt, WorkInv, WorkOK, Publish
<1>2. /\ q.rel \in Releases
      /\ \/ q.prev = <<>> /\ current = <<>> /\ rec.phase = "HostKeyPinned" /\ q.rel = rec.desired
         \/ /\ q.prev = Fresh(Old) /\ current \in {Fresh(Old), Restored} /\ work.by = "bootstrap"
            /\ rec.phase = "UpdateInstalling" /\ q.rel = d /\ q.rel \in Candidates /\ rec.previous = Old
         \/ /\ q.prev = Updated(d) /\ q.rel = Old /\ d \in Candidates
            /\ current = Undone(d) \/ (current = Updated(d) /\ work.by = "retained")
            /\ rec.phase \in {"RolledBack"} \cup RollbackPhases /\ rec.previous = Old
  BY <1>1, GoingTells
<1>3. receipt \in Receipts /\ Ending([work EXCEPT !.receipt = receipt], current)
  <2>. DEFINE w == [work EXCEPT !.receipt = receipt]
  <2>1. w.request = q /\ w.receipt = receipt
    BY <1>1 DEF Work
  <2>2. CASE q.prev = <<>> /\ current = <<>>
    <3>1. receipt = Fresh(q.rel)
      BY <1>2, <2>2, Appends
    <3>. QED  BY <1>2, <2>1, <2>2, <3>1, ReceiptsTyped DEF Ending
  <2>3. CASE q.prev = Fresh(Old) /\ current \in {Fresh(Old), Restored} /\ work.by = "bootstrap" /\ q.rel \in Candidates
    <3>1. receipt = Updated(q.rel)
      BY <1>2, <2>3, Appends, ReceiptsApart, ReceiptsTyped
    <3>. QED  BY <2>1, <2>3, <3>1, ReceiptsTyped DEF Ending
  <2>4. CASE /\ q.prev = Updated(d) /\ q.rel = Old /\ d \in Candidates
             /\ current = Undone(d) \/ (current = Updated(d) /\ work.by = "retained")
    <3>1. \/ receipt = Undone(d) \/ (current = Undone(d) /\ receipt = Redone(d))
      BY <2>4, Appends, ReceiptsApart
    <3>. QED  BY <2>1, <2>4, <3>1, ReceiptsTyped DEF Ending
  <2>. QED  BY <1>2, <2>2, <2>3, <2>4
<1>4. WorkInv'
  BY <1>1, <1>3, WorkGoesOn
<1>5. work'.by = work.by /\ work'.watched = work.watched
  BY <1>1 DEF Work
<1>6. WatchInv' /\ ProofInv'
  BY <1>1, <1>5, InstallerGoesOn
<1>7. /\ runtime' \in Runtimes /\ proof' \in Proofs /\ transition' \in BOOLEAN
      /\ OrphansInv' /\ InputInv'
  BY <1>1, <1>2 DEF IInv, Aside, OtherOK, Runtimes, Proofs, OrphansInv, InputInv
<1>8. RunsClaim
  BY <1>1, <1>2, InstallerAssumption DEF RunsClaim
<1>. QED  BY <1>1, <1>4, <1>6, <1>7, <1>8, SameReceipts, Besides DEF Owed

\* An activation that fails is undone by the bootstrap.
LEMMA ActivateFailsStep ==
  ASSUME IInv, ActivateFails, Aside
  PROVE  Owed
<1>1. /\ work # None /\ work.by \in Installers /\ work.at = "activate" /\ work \in Work
      /\ work.request \in Sent(rec) /\ Going(work, current) /\ runtime' = Mixed
      /\ UNCHANGED <<input, current, history, proof, transition, orphans>>
  BY DEF IInv, ActivateFails, WorkAt, WorkInv, WorkOK
<1>2. /\ runtime' \in Runtimes /\ proof' \in Proofs /\ transition' \in BOOLEAN
      /\ OrphansInv' /\ InputInv' /\ RunsClaim
  BY <1>1, InstallerAssumption DEF IInv, Aside, OtherOK, Runtimes, Proofs, OrphansInv, InputInv, RunsClaim
<1>3. ~ReadyNow
  BY <1>1, WhenReady DEF ReadyNow, Ready
<1>4. CASE work.by = "bootstrap" /\ current # <<>> /\ Continue("restore") /\ UNCHANGED exit
  <2>1. Restoring(work, current) /\ work.receipt \in Receipts
    BY <1>1, <1>4 DEF Going, Restoring, Work
  <2>2. /\ work' = [work EXCEPT !.at = "restore", !.receipt = work.receipt]
        /\ work'.by = work.by /\ work'.watched = work.watched
    BY <1>1, <1>4 DEF Continue, Work
  <2>3. WorkInv'
    BY <1>1, <2>1, <2>2, WorkGoesOn
  <2>4. WatchInv' /\ ProofInv'
    BY <1>1, <1>4, <2>2, InstallerGoesOn
  <2>. QED  BY <1>1, <1>2, <2>3, <2>4, SameReceipts, Besides DEF Owed
<1>5. CASE Exit("failed")
  <2>1. WorkInv' /\ WatchInv' /\ ~ReadyNow'
    BY <1>1, <1>3, <1>5, WorkEnds
  <2>2. ProofInv'
    BY <2>1 DEF ProofInv, ProofOK, ReadyNow
  <2>. QED  BY <1>1, <1>2, <2>1, <2>2, SameReceipts, Besides DEF Owed
<1>. QED  BY <1>4, <1>5 DEF ActivateFails

\* A restoration brings back 0.1.1.
LEMMA RestoreStep ==
  ASSUME IInv, Restore, Aside
  PROVE  Owed
<1>. DEFINE q == work.request  d == rec.desired
            receipt == Append(q.prev, RolledBack(Last(current)[1]))
<1>1. /\ work # None /\ work.by \in Installers /\ work.at = "restore" /\ work \in Work
      /\ q \in Sent(rec) /\ Restoring(work, current) /\ RecInv /\ HostInv
      /\ UNCHANGED <<input, current, history, proof, transition, orphans, exit>>
      /\ runtime' = Last(current)[1] /\ work' = [work EXCEPT !.at = "history", !.receipt = receipt]
  BY DEF IInv, Restore, WorkAt, WorkInv, WorkOK, Publish
<1>2. Going(work, current)
  BY <1>1 DEF Restoring, Going
<1>3. /\ \/ /\ q.prev = Fresh(Old) /\ current \in {Fresh(Old), Restored}
            /\ rec.phase = "UpdateInstalling"
         \/ /\ q.prev = Updated(d) /\ current = Undone(d) /\ d \in Candidates
            /\ rec.phase \in {"RolledBack"} \cup RollbackPhases
      /\ rec.previous = Old
  <2>1. q.prev # <<>> /\ work.by # "retained"
    BY <1>1, ReceiptsApart, ReceiptsTyped DEF Restoring
  <2>. QED  BY <1>1, <1>2, <2>1, GoingTells
<1>4. Last(current)[1] = Old
  BY <1>3, Lasts, ReceiptsTyped DEF Installed, RolledBack
<1>5. receipt \in Receipts /\ Ending([work EXCEPT !.receipt = receipt], current)
  <2>. DEFINE w == [work EXCEPT !.receipt = receipt]
  <2>1. w.request = q /\ w.receipt = receipt
    BY <1>1 DEF Work
  <2>2. CASE q.prev = Fresh(Old) /\ current \in {Fresh(Old), Restored}
    <3>1. receipt = Restored
      BY <1>4, <2>2, Appends
    <3>. QED  BY <2>1, <2>2, <3>1, ReceiptsTyped DEF Ending
  <2>3. CASE q.prev = Updated(d) /\ current = Undone(d) /\ d \in Candidates
    <3>1. receipt = Undone(d)
      BY <1>4, <2>3, Appends
    <3>. QED  BY <2>1, <2>3, <3>1, ReceiptsTyped DEF Ending
  <2>. QED  BY <1>3, <2>2, <2>3
<1>6. WorkInv'
  BY <1>1, <1>5, WorkGoesOn
<1>7. work'.by = work.by /\ work'.watched = work.watched
  BY <1>1 DEF Work
<1>8. WatchInv' /\ ProofInv'
  BY <1>1, <1>7, InstallerGoesOn
<1>9. /\ runtime' \in Runtimes /\ proof' \in Proofs /\ transition' \in BOOLEAN
      /\ OrphansInv' /\ InputInv' /\ RunsClaim
  BY <1>1, <1>3, <1>4, ReceiptsTyped
     DEF IInv, Aside, OtherOK, Runtimes, Proofs, OrphansInv, InputInv, RunsClaim
<1>. QED  BY <1>1, <1>6, <1>8, <1>9, SameReceipts, Besides DEF Owed

\* The receipt is in the history before it is the current one.
LEMMA PublishHistoryStep ==
  ASSUME IInv, PublishHistory, Aside
  PROVE  Owed
<1>1. /\ work # None /\ work.by \in Installers /\ work.at = "history" /\ work \in Work
      /\ work.request \in Sent(rec) /\ Ending(work, current) /\ RecInv /\ HostInv
      /\ UNCHANGED <<input, current, runtime, proof, transition, orphans, exit>>
      /\ history' = history \cup {work.receipt}
      /\ work' = [work EXCEPT !.at = "current"]
  BY DEF IInv, PublishHistory, WorkAt, WorkInv, WorkOK, Continue
<1>2. Advance(rec, current, work.receipt)
  BY <1>1, EndingAdvances
<1>3. HostInv'
  <2>1. RecOK(rec, files) /\ HostOK(rec, current, history)
    BY <1>1 DEF RecInv, HostInv
  <2>2. HostOK(rec, current, history \cup {work.receipt})
    BY <1>2, <2>1, Stages DEF HostOK, Advance, Before, Returning, After, Back, RollbackPhases
  <2>. QED  BY <1>1, <2>2 DEF Aside, HostInv
<1>4. JobInv' /\ OpInv' /\ ChainClaim
  BY <1>1 DEF IInv, Aside, JobInv, OpInv, ChainClaim
<1>5. WorkInv'
  <2>1. /\ work' = [work EXCEPT !.at = "current", !.receipt = work.receipt]
        /\ Ending([work EXCEPT !.receipt = work.receipt], current)
    BY <1>1 DEF Work, Ending
  <2>. QED  BY <1>1, <2>1, WorkGoesOn DEF Work
<1>6. work'.by = work.by /\ work'.watched = work.watched
  BY <1>1 DEF Work
<1>7. WatchInv' /\ ProofInv'
  BY <1>1, <1>6, InstallerGoesOn
<1>8. /\ runtime' \in Runtimes /\ proof' \in Proofs /\ transition' \in BOOLEAN
      /\ OrphansInv' /\ InputInv' /\ RunsClaim
  BY <1>1 DEF IInv, Aside, OtherOK, Runtimes, Proofs, OrphansInv, InputInv, RunsClaim
<1>. QED  BY <1>3, <1>4, <1>5, <1>7, <1>8, Besides DEF Owed

\* The receipt that is published is the next one.
LEMMA PublishCurrentStep ==
  ASSUME IInv, PublishCurrent, Aside
  PROVE  Owed
<1>1. /\ work # None /\ work.by \in Installers /\ work.at = "current" /\ work \in Work
      /\ work.request \in Sent(rec) /\ Ending(work, current) /\ RecInv /\ HostInv
      /\ UNCHANGED <<input, history, runtime, proof, transition, orphans>>
      /\ current' = work.receipt
  BY DEF IInv, PublishCurrent, WorkAt, WorkInv, WorkOK
<1>2. Advance(rec, current, current')
  BY <1>1, EndingAdvances
<1>3. HostInv' /\ JobInv' /\ OpInv' /\ ChainClaim
  BY <1>1, <1>2, AdvanceKeeps, AdvanceChains DEF IInv, Aside
<1>4. PICK status \in {"ok", "failed"} : Exit(status)
  BY DEF PublishCurrent
<1>5. ~ReadyNow
  BY <1>1, WhenReady DEF ReadyNow, Ready
<1>6. WorkInv' /\ WatchInv' /\ ~ReadyNow'
  BY <1>1, <1>4, <1>5, WorkEnds DEF Installers
<1>7. ProofInv'
  BY <1>6 DEF ProofInv, ProofOK, ReadyNow
<1>8. /\ runtime' \in Runtimes /\ proof' \in Proofs /\ transition' \in BOOLEAN
      /\ OrphansInv' /\ InputInv' /\ RunsClaim
  BY <1>1 DEF IInv, Aside, OtherOK, Runtimes, Proofs, OrphansInv, InputInv, RunsClaim
<1>. QED  BY <1>3, <1>6, <1>7, <1>8, Besides DEF Owed

-----------------------------------------------------------------------------
(* The recovery and the attester *)

\* They work on a target whose update was verified.
LEMMA RepairsHave ==
  ASSUME IInv, work # None, work.by \in Repairs
  PROVE  /\ Mended(rec) /\ rec.desired \in Candidates /\ current = Updated(rec.desired)
         /\ rec.phase = "Verified" /\ rec.current = rec.desired
         /\ Last(current)[1] = rec.desired /\ current \in Receipts /\ work \in Work
         /\ work.by = "recover" => work.at \in {"start", "activate", "prove", "clear"}
         /\ ReadyNow => SoundInv
<1>1. RecOK(rec, files) /\ Mended(rec) /\ work \in Work
      /\ (work.by = "recover" => work.at \in {"start", "activate", "prove", "clear"})
  BY DEF IInv, RecInv, WorkInv, WorkOK
<1>2. rec.desired \in Candidates /\ current = Updated(rec.desired)
  BY <1>1, Stages DEF IInv, HostInv, HostOK
<1>3. Last(current)[1] = rec.desired /\ current \in Receipts
  BY <1>2, Lasts, ReceiptsTyped DEF Installed
<1>4. ReadyNow => SoundInv
  BY DEF IInv, ProofInv, ProofOK, ReadyNow, SoundInv
<1>. QED  BY <1>1, <1>2, <1>3, <1>4 DEF Mended, After

\* The recovery goes on: no attestation is ready that it could spoil.
LEMMA RecoveryGoesOn ==
  ASSUME IInv, Aside, work # None, work.by = "recover", ~ReadyNow, UNCHANGED exit,
         NEW step \in {"activate", "prove", "clear"}, work' = [work EXCEPT !.at = step]
  PROVE  WorkInv' /\ WatchInv' /\ ProofInv'
<1>1. work \in Work /\ Mended(rec)
  BY RepairsHave DEF Repairs
<1>2. work' \in Work /\ work'.by = "recover" /\ work'.at = step /\ work'.watched = work.watched
  BY <1>1 DEF Work, Steps
<1>3. WorkInv'
  BY <1>1, <1>2 DEF Aside, WorkInv, WorkOK, Installers
<1>4. WatchInv'
  BY <1>2 DEF IInv, Aside, WatchInv, WatchOK
<1>5. ProofInv'
  BY DEF Aside, ReadyNow, Ready, ProofInv, ProofOK
<1>. QED  BY <1>3, <1>4, <1>5

\* A program that is not the attester ends, and what was proved stays.
LEMMA EndKeepsProof ==
  ASSUME IInv, Aside, work # None, NEW status \in {"ok", "failed"}, Exit(status),
         work.by # "attest" \/ status = "failed",
         ReadyNow => UNCHANGED <<current, runtime, proof>> /\ ~transition'
  PROVE  WorkInv' /\ WatchInv' /\ ProofInv'
<1>1. WorkInv' /\ WatchInv' /\ (ReadyNow' => ReadyNow)
  BY WorkEnds
<1>2. ProofInv'
  BY <1>1 DEF IInv, ProofInv, ProofOK, ReadyNow, Sound, Exit
<1>. QED  BY <1>1, <1>2

LEMMA RecoverAdmitsStep ==
  ASSUME IInv, RecoverAdmits, Aside
  PROVE  Owed
<1>1. /\ work # None /\ work.by = "recover" /\ work.at = "start" /\ "recover" \in Repairs
      /\ UNCHANGED <<input, current, history, runtime, proof, orphans>>
  BY DEF RecoverAdmits, WorkAt, Repairs
<1>2. runtime' \in Runtimes /\ proof' \in Proofs /\ OrphansInv' /\ InputInv' /\ RunsClaim
  BY <1>1 DEF IInv, Aside, OtherOK, Runtimes, Proofs, OrphansInv, InputInv, RunsClaim
<1>5. transition' \in BOOLEAN
  <2>1. transition' = FALSE \/ transition' = TRUE \/ UNCHANGED transition
    BY Zenon DEF RecoverAdmits
  <2>2. transition \in BOOLEAN
    BY DEF IInv, OtherOK
  <2>. QED  BY <2>1, <2>2, Zenon
<1>3. ReadyNow => /\ proof = <<"r3", current>> /\ runtime = Last(current)[1] /\ ~transition
                  /\ runtime \in Releases
  BY <1>1, RepairsHave, ReceiptsTyped DEF SoundInv, Sound
<1>4. WorkInv' /\ WatchInv' /\ ProofInv'
  <2>1. CASE transition' = FALSE /\ Exit("ok")
    BY <1>1, <1>3, <2>1, EndKeepsProof
  <2>2. CASE ~Attested("r3") /\ transition /\ Continue("activate") /\ UNCHANGED exit
    BY <1>1, <1>3, <2>2, RecoveryGoesOn DEF Continue
  <2>3. CASE Attested("r2") /\ Continue("prove") /\ UNCHANGED exit
    BY <1>1, <1>3, <2>3, RecoveryGoesOn DEF Continue, Attested
  <2>4. CASE proof = None /\ runtime = False /\ Continue("activate") /\ UNCHANGED exit
    BY <1>1, <1>3, <2>4, RecoveryGoesOn, InstallerAssumption DEF Continue
  <2>5. CASE Exit("failed") /\ UNCHANGED transition
    BY <1>1, <1>3, <2>5, EndKeepsProof
  <2>. QED  BY <2>1, <2>2, <2>3, <2>4, <2>5 DEF RecoverAdmits
<1>. QED  BY <1>1, <1>2, <1>4, <1>5, SameReceipts, Besides DEF Owed

\* Past its start the recovery finds no attestation ready.
LEMMA RecoveryAlone ==
  ASSUME IInv, work # None, work.by = "recover", work.at # "start"
  PROVE  ~ReadyNow
BY RepairsHave DEF SoundInv, Sound, Repairs

LEMMA RecoverActivatesStep ==
  ASSUME IInv, RecoverActivates, Aside
  PROVE  Owed
<1>1. /\ work # None /\ work.by = "recover" /\ work.at = "activate" /\ "recover" \in Repairs
      /\ UNCHANGED <<input, current, history, proof, transition, orphans>>
      /\ runtime' \in {Last(current)[1], Mixed}
  BY DEF RecoverActivates, WorkAt, Repairs
<1>2. ~ReadyNow
  BY <1>1, RecoveryAlone
<1>3. runtime' \in {rec.current, Mixed} /\ rec.current \in Releases /\ rec.phase = "Verified"
  BY <1>1, RepairsHave, ReceiptsTyped
<1>4. /\ runtime' \in Runtimes /\ proof' \in Proofs /\ transition' \in BOOLEAN
      /\ OrphansInv' /\ InputInv' /\ RunsClaim
  BY <1>1, <1>3, InstallerAssumption DEF IInv, Aside, OtherOK, Runtimes, Proofs, OrphansInv, InputInv, RunsClaim
<1>5. WorkInv' /\ WatchInv' /\ ProofInv'
  <2>1. CASE Continue("prove") /\ UNCHANGED exit
    BY <1>1, <1>2, <2>1, RecoveryGoesOn DEF Continue
  <2>2. CASE Exit("failed")
    BY <1>1, <1>2, <2>2, EndKeepsProof
  <2>. QED  BY <2>1, <2>2 DEF RecoverActivates
<1>. QED  BY <1>1, <1>4, <1>5, SameReceipts, Besides DEF Owed

LEMMA RecoverProvesStep ==
  ASSUME IInv, RecoverProves, Aside
  PROVE  Owed
<1>1. /\ work # None /\ work.by = "recover" /\ work.at = "prove" /\ "recover" \in Repairs
      /\ UNCHANGED <<input, current, history, runtime, transition, orphans, exit>>
      /\ proof' = <<"r3", current>> /\ work' = [work EXCEPT !.at = "clear"]
  BY DEF RecoverProves, WorkAt, Repairs, Continue
<1>2. WorkInv' /\ WatchInv' /\ ProofInv'
  BY <1>1, RecoveryAlone, RecoveryGoesOn
<1>3. proof' \in Proofs
  BY <1>1, RepairsHave DEF Proofs
<1>4. /\ runtime' \in Runtimes /\ transition' \in BOOLEAN
      /\ OrphansInv' /\ InputInv' /\ RunsClaim
  BY <1>1 DEF IInv, Aside, OtherOK, Runtimes, OrphansInv, InputInv, RunsClaim
<1>. QED  BY <1>1, <1>2, <1>3, <1>4, SameReceipts, Besides DEF Owed

LEMMA ClearTransitionStep ==
  ASSUME IInv, ClearTransition, Aside
  PROVE  Owed
<1>1. /\ work # None /\ work.by = "recover" /\ work.at = "clear"
      /\ UNCHANGED <<input, current, history, runtime, proof, orphans>>
      /\ transition' = FALSE /\ Exit("ok")
  BY DEF ClearTransition, WorkAt
<1>2. WorkInv' /\ WatchInv' /\ ProofInv'
  BY <1>1, EndKeepsProof
<1>3. runtime' \in Runtimes /\ proof' \in Proofs /\ OrphansInv' /\ InputInv' /\ RunsClaim
  BY <1>1 DEF IInv, Aside, OtherOK, Runtimes, Proofs, OrphansInv, InputInv, RunsClaim
<1>4. transition' \in BOOLEAN
  BY <1>1
<1>. QED  BY <1>1, <1>2, <1>3, <1>4, SameReceipts, Besides DEF Owed

\* The attester proves what it has looked at.
LEMMA AttesterStep ==
  ASSUME IInv, AttesterProves, Aside
  PROVE  Owed
<1>1. /\ work # None /\ work.by = "attest" /\ work.by \in Repairs
      /\ UNCHANGED <<input, current, history, runtime, transition, orphans>>
  BY DEF AttesterProves, WorkAt, Repairs
<1>2. CASE Exit("failed") /\ UNCHANGED proof
  <2>1. WorkInv' /\ WatchInv' /\ ProofInv'
    <3>1. ReadyNow => ~transition
      BY <1>1, RepairsHave DEF SoundInv, Sound
    <3>. QED  BY <1>1, <1>2, <3>1, EndKeepsProof
  <2>2. /\ runtime' \in Runtimes /\ proof' \in Proofs /\ transition' \in BOOLEAN
        /\ OrphansInv' /\ InputInv' /\ RunsClaim
    BY <1>1, <1>2 DEF IInv, Aside, OtherOK, Runtimes, Proofs, OrphansInv, InputInv, RunsClaim
  <2>. QED  BY <1>1, <2>1, <2>2, SameReceipts, Besides DEF Owed
<1>3. CASE ~transition /\ runtime = Last(current)[1] /\ proof' = <<"r3", current>> /\ Exit("ok")
  <2>1. WorkInv' /\ WatchInv'
    BY <1>1, <1>3, WorkEnds
  <2>2. ProofInv'
    BY <1>1, <1>3 DEF ProofInv, ProofOK, Sound, Exit
  <2>3. proof' \in Proofs
    BY <1>1, <1>3, RepairsHave DEF Proofs
  <2>4. /\ runtime' \in Runtimes /\ transition' \in BOOLEAN
        /\ OrphansInv' /\ InputInv' /\ RunsClaim
    BY <1>1, <1>3 DEF IInv, Aside, OtherOK, Runtimes, OrphansInv, InputInv, RunsClaim
  <2>. QED  BY <1>1, <2>1, <2>2, <2>3, <2>4, SameReceipts, Besides DEF Owed
<1>. QED  BY <1>2, <1>3 DEF AttesterProves

\* A program that is killed leaves at worst a host that runs neither release.
LEMMA DiesStep ==
  ASSUME IInv, InstallerDies, Aside
  PROVE  Owed
<1>1. /\ work # None /\ UNCHANGED <<current, history, proof, transition, orphans>>
      /\ runtime' \in {runtime} \cup (IF work.at \in {"activate", "restore"} THEN {Mixed} ELSE {})
      /\ input' \in {input, [input EXCEPT !["bundle"] = None]} /\ Exit("failed")
  BY DEF InstallerDies
<1>2. InputInv'
  <2>1. CASE input' = input
    BY <2>1 DEF IInv, Aside, InputInv
  <2>2. CASE input' = [input EXCEPT !["bundle"] = None]
    BY <2>2 DEF IInv, Aside, InputInv, InputOK, HoldsOK, Inputs, InputNames
  <2>. QED  BY <1>1, <2>1, <2>2
<1>3. ReadyNow => UNCHANGED runtime /\ ~transition
  <2>1. ReadyNow => SoundInv /\ op # None /\ op.at = "read"
    BY DEF IInv, ProofInv, ProofOK, ReadyNow, SoundInv, Ready
  <2>2. ReadyNow => work.at \notin {"activate", "restore"}
    BY <1>1, <2>1, WhenReady DEF IInv, WorkInv, WorkOK, Work, Programs, Installers, Repairs, SoundInv, Sound
  <2>. QED  BY <1>1, <2>1, <2>2 DEF SoundInv, Sound
<1>4. WorkInv' /\ WatchInv' /\ ProofInv'
  BY <1>1, <1>3, EndKeepsProof
<1>5. /\ runtime' \in Runtimes /\ proof' \in Proofs /\ transition' \in BOOLEAN
      /\ OrphansInv' /\ RunsClaim
  BY <1>1, InstallerAssumption DEF IInv, Aside, OtherOK, Runtimes, Proofs, OrphansInv, RunsClaim
<1>. QED  BY <1>1, <1>2, <1>4, <1>5, SameReceipts, Besides DEF Owed

\* A step on the host.
LEMMA HostStep ==
  ASSUME IInv, InstallerWorks \/ InstallerFails
  PROVE  Owed
<1>1. Aside
  <2>1. faults' \in 0..MaxFaults
    BY StagingAssumption DEF IInv, OtherOK, InstallerWorks, InstallerFails
  <2>. QED  BY <2>1 DEF Aside, InstallerWorks, InstallerFails, OnlyInstaller, local, cloud
<1>. QED
  BY <1>1, OrphanStep, ConsumeStep, JudgeStep, ActivateStep, RestoreStep, PublishHistoryStep, PublishCurrentStep,
     RecoverAdmitsStep, RecoverActivatesStep, RecoverProvesStep, ClearTransitionStep, AttesterStep,
     DiesStep, ActivateFailsStep DEF InstallerWorks, InstallerFails, InstallerStep

-----------------------------------------------------------------------------
(* The operations of the deployer *)

\* A step of the deployer that leaves the host alone.
LEMMA DeployerKeeps ==
  ASSUME IInv, UNCHANGED <<remote, addr, moves>>, faults' \in 0..MaxFaults,
         RecInv', HostInv', JobInv', OpInv', IngressInv', WatchInv', PendingOK(pending'),
         Sent(rec) \subseteq Sent(rec'), Mended(rec) => Mended(rec'),
         Ready(exit, job', op') => ReadyNow,
         UNCHANGED job \/ job' = None \/ job'.at \in {"helpers", "installer"}
  PROVE  IInv' /\ RunsClaim
<1>1. UNCHANGED <<input, current, history, runtime, proof, transition, work, orphans, exit, helper>>
  BY DEF remote, installer
<1>2. InputInv'
  BY <1>1 DEF IInv, InputInv, InputOK, HoldsOK
<1>3. WorkInv' /\ OrphansInv'
  BY <1>1 DEF IInv, WorkInv, WorkOK, OrphansInv, OrphansOK
<1>4. ProofInv'
  BY <1>1 DEF IInv, ProofInv, ProofOK, ReadyNow
<1>5. OtherOK' /\ RunsClaim
  BY <1>1 DEF IInv, OtherOK, RunsClaim
<1>6. HelpersOK'
  BY <1>1 DEF IInv, HelpersOK, UploadOK
<1>. QED  BY <1>2, <1>3, <1>4, <1>5, <1>6 DEF IInv

\* Between two jobs, what a step records.
LEMMA Records ==
  ASSUME IInv, UNCHANGED <<remote, job, addr, moves>>, job = None, faults' \in 0..MaxFaults,
         RecInv', HostInv', OpInv', IngressInv', PendingOK(pending'),
         Sent(rec) \subseteq Sent(rec'), Mended(rec) => Mended(rec'),
         op' = None \/ op'.at # "read"
  PROVE  IInv' /\ RunsClaim
<1>1. WatchInv' /\ JobInv'
  BY DEF IInv, WatchInv, JobInv, JobOK, remote, installer
<1>2. ~Ready(exit, job', op')
  BY DEF Ready
<1>. QED  BY <1>1, <1>2, DeployerKeeps

\* Between two jobs, a step that leaves the record alone.
LEMMA OnlyOp ==
  ASSUME IInv, UNCHANGED <<remote, job, rec, addr, moves>>, job = None, faults' \in 0..MaxFaults,
         RecOK(rec, files'), OpInv', IngressInv', PendingOK(pending'),
         op' = None \/ op'.at # "read"
  PROVE  Owed
<1>1. RecInv' /\ HostInv' /\ ChainClaim
  BY DEF IInv, RecInv, HostInv, remote, installer, ChainClaim
<1>. QED  BY <1>1, Records DEF Owed

LEMMA Idle ==
  ASSUME IInv
  PROVE  /\ op = None => job = None
         /\ RecOK(rec, files) /\ rec.cidr \in Cidrs /\ rec.desired \in Releases
         /\ faults \in 0..MaxFaults /\ PendingOK(pending) /\ PendingOK(None)
         /\ Beyond(rec) => rec.desired \in Candidates
<1>1. op = None => job = None
  BY DEF IInv, JobInv, JobOK
<1>2. RecOK(rec, files) /\ faults \in 0..MaxFaults /\ PendingOK(pending) /\ PendingOK(None)
  BY DEF IInv, RecInv, OtherOK, PendingOK, RebindPending
<1>. QED  BY <1>1, <1>2, Stages DEF RecOK, Record

LEMMA Started ==
  ASSUME IInv, NEW kind, NEW point, NEW release \in Releases, Start(kind, point, release), UNCHANGED rec,
         PendingOK(pending'), point # "read",
         OpOK(rec, files, current, None,
              [kind |-> kind, at |-> point, rel |-> release, to |-> rec.cidr, keep |-> FALSE], ingress)
  PROVE  Owed
<1>1. /\ job = None /\ UNCHANGED <<remote, job, faults, files, ingress, addr, moves>>
      /\ op' = [kind |-> kind, at |-> point, rel |-> release, to |-> rec.cidr, keep |-> FALSE]
  BY Idle DEF Start, cloud
<1>2. OpInv' /\ IngressInv'
  BY <1>1 DEF IInv, OpInv, IngressInv, remote, installer
<1>. QED  BY <1>1, <1>2, Idle, OnlyOp

LEMMA ApplyStep ==
  ASSUME IInv, Apply  PROVE  Owed
<1>1. OpOK(rec, files, current, None,
           [kind |-> "apply", at |-> "directory", rel |-> rec.desired, to |-> rec.cidr, keep |-> FALSE], ingress)
  BY Idle DEF OpOK, Operation, Apply
<1>. QED  BY <1>1, Idle, Started DEF Apply

LEMMA VerifyStep ==
  ASSUME IInv, Verify  PROVE  Owed
<1>1. OpOK(rec, files, current, None,
           [kind |-> "verify", at |-> "verify", rel |-> rec.desired, to |-> rec.cidr, keep |-> FALSE], ingress)
  BY Idle DEF OpOK, Operation, Verify
<1>. QED  BY <1>1, Idle, Started DEF Verify

\* Only a target that has 0.1.1, as its first release, is updated anew.
LEMMA UpdateStep ==
  ASSUME IInv, NEW candidate \in Candidates, Update(candidate)  PROVE  Owed
<1>. DEFINE point == IF rec.phase \in UpdatePhases THEN "capacity" ELSE "bundle"
<1>1. rec.phase \in UpdatePhases => rec.desired = candidate
  BY DEF Update
<1>2. rec.phase \notin UpdatePhases => AtOrigin(rec) /\ rec.desired = Old
  <2>1. SUFFICES ASSUME rec.phase \notin UpdatePhases  PROVE AtOrigin(rec) /\ rec.desired = Old
    OBVIOUS
  <2>2. rec.phase \in {"Installed", "Verified"} /\ rec.current = Old
    BY <2>1 DEF Update, Contract, Prior, Unverified, UpdatePhases
  <2>3. ~Virgin(rec) /\ ~Before(rec) /\ ~Back(rec)
    BY <2>2 DEF Virgin, Before, Back
  <2>4. ~After(rec)
    BY <2>2, Idle, Stages, InstallerAssumption DEF After
  <2>. QED  BY <2>2, <2>3, <2>4, Idle DEF RecOK, AtOrigin
<1>3. OpOK(rec, files, current, None,
           [kind |-> "update", at |-> point, rel |-> candidate, to |-> rec.cidr, keep |-> FALSE], ingress)
  BY <1>1, <1>2, Idle, ReceiptsTyped DEF OpOK, Operation
<1>. QED  BY <1>3, Idle, Started, ReceiptsTyped DEF Update

LEMMA RollbackStep ==
  ASSUME IInv, RollbackUpdate  PROVE  Owed
<1>1. /\ rec.phase \in {"UpdateVerifying"} \cup RollbackPhases /\ RecOK(rec, files)
      /\ Start("rollback", "request", rec.previous) /\ UNCHANGED <<pending, rec>>
  BY Idle DEF RollbackUpdate
<1>2. After(rec) /\ rec.previous = Old
  BY <1>1 DEF RecOK, Virgin, AtOrigin, Before, After, Back, Beyond, RollbackPhases
<1>3. OpOK(rec, files, current, None,
           [kind |-> "rollback", at |-> "request", rel |-> rec.previous, to |-> rec.cidr, keep |-> FALSE], ingress)
  BY <1>1, <1>2, Idle, ReceiptsTyped DEF OpOK, Operation
<1>. QED  BY <1>1, <1>2, <1>3, Idle, Started, ReceiptsTyped

\* Only a target whose update was verified is recovered or attested.
LEMMA RecoverableIsMended ==
  ASSUME IInv, Recoverable  PROVE  Mended(rec)
BY Idle, InstallerAssumption, ReceiptsTyped DEF Recoverable, RecOK, Virgin, AtOrigin, Before, After, Back, Mended

LEMMA RecoverStep ==
  ASSUME IInv, Recover  PROVE  Owed
<1>1. OpOK(rec, files, current, None,
           [kind |-> "recover", at |-> "seal", rel |-> rec.desired, to |-> rec.cidr, keep |-> FALSE], ingress)
  BY Idle, RecoverableIsMended DEF OpOK, Operation, Recover
<1>2. PendingOK(pending')
  BY Idle DEF Recover, PendingOK, RecoveryPending
<1>. QED  BY <1>1, <1>2, Idle, Started DEF Recover

LEMMA AttestStep ==
  ASSUME IInv, Attest  PROVE  Owed
<1>1. OpOK(rec, files, current, None,
           [kind |-> "attest", at |-> "attest", rel |-> rec.desired, to |-> rec.cidr, keep |-> FALSE], ingress)
  BY Idle, RecoverableIsMended DEF OpOK, Operation, Attest
<1>. QED  BY <1>1, Idle, Started DEF Attest

LEMMA RebindStep ==
  ASSUME IInv, NEW cidr \in Cidrs, Rebind(cidr)  PROVE  Owed
<1>. DEFINE keeps == pending \in KeepsBridge
<1>1. /\ job = None /\ UNCHANGED <<remote, job, faults, rec, files, pending, ingress, addr, moves>>
      /\ cidr # rec.cidr /\ ingress \in {{rec.cidr}, {rec.cidr, cidr}, {cidr}}
  BY Idle DEF Rebind, RebindShapes, hvars, local, cloud, remote
<1>2. PICK point \in {"authorize", "revoke", "rebound"} :
        /\ op' = [kind |-> "rebind", rel |-> rec.desired, to |-> cidr, at |-> point, keep |-> keeps]
        /\ point = "authorize" => ingress = {rec.cidr}
        /\ point = "revoke" => ingress = {rec.cidr, cidr}
        /\ point = "rebound" => ingress = {cidr}
  BY <1>1 DEF Rebind
<1>3. keeps \in BOOLEAN
  BY SMT
<1>4. op' \in Operation
  BY <1>2, <1>3, Idle DEF Operation
<1>5. OpInv' /\ IngressInv'
  BY <1>1, <1>2, <1>4 DEF IInv, OpInv, OpOK, IngressInv, remote, installer
<1>. QED  BY <1>1, <1>2, <1>5, Idle, OnlyOp

\* What an operation between two jobs is at.
LEMMA AtPoint ==
  ASSUME IInv, NEW kinds, NEW point, Running(kinds, point)
  PROVE  /\ op # None /\ job = None /\ op \in Operation /\ op.kind \in kinds /\ op.at = point
         /\ op.rel \in Releases /\ op.to \in Cidrs /\ op.keep \in BOOLEAN
         /\ OpOK(rec, files, current, job, op, ingress)
BY DEF IInv, OpInv, OpOK, Running, Operation

\* The operation goes to its next point.
LEMMA GoesTo ==
  ASSUME op \in Operation, NEW point, Then(point),
         point \in {"record", "verify", "request", "persist", "capacity", "bootstrap", "installing", "run",
                    "attest", "read", "revoke", "rebound"}
  PROVE  /\ op' \in Operation /\ op'.at = point
         /\ op'.kind = op.kind /\ op'.rel = op.rel /\ op'.to = op.to /\ op'.keep = op.keep
BY DEF Operation, Then

LEMMA WriteBundleStep ==
  ASSUME IInv, WriteBundle  PROVE  Owed
<1>1. /\ Running({"update"}, "bundle") /\ files' = [files EXCEPT !.candidate = op.rel] /\ Then("request")
      /\ UNCHANGED <<remote, job, faults, rec, pending, ingress, addr, moves>>
  BY DEF WriteBundle, hvars, remote, cloud
<1>2. AtOrigin(rec) /\ rec.desired = Old /\ op.rel \in Candidates
  BY <1>1, AtPoint DEF OpOK
<1>3. files' \in Artifacts /\ files'.candidate = op.rel
  BY <1>1, <1>2, Idle, AtPoint DEF RecOK, Artifacts
<1>4. RecOK(rec, files')
  BY <1>2, <1>3, Idle, Stages DEF RecOK
<1>5. OpInv' /\ IngressInv'
  BY <1>1, <1>2, <1>3, AtPoint, GoesTo DEF IInv, OpInv, OpOK, IngressInv, remote, installer
<1>. QED  BY <1>1, <1>4, <1>5, Idle, AtPoint, GoesTo, OnlyOp

LEMMA WriteRequestStep ==
  ASSUME IInv, WriteRequest  PROVE  Owed
<1>1. /\ Running({"update"}, "request") /\ files' = [files EXCEPT !.request = Request(op.rel, rec.receipt)]
      /\ Then("persist")
      /\ UNCHANGED <<remote, job, faults, rec, pending, ingress, addr, moves>>
  BY DEF WriteRequest, hvars, remote, cloud
<1>2. AtOrigin(rec) /\ rec.desired = Old /\ op.rel \in Candidates /\ files.candidate = op.rel
  BY <1>1, AtPoint DEF OpOK
<1>3. rec.receipt = Fresh(Old) /\ Request(op.rel, Fresh(Old)) \in Requests
  BY <1>2, ReceiptsTyped DEF AtOrigin, Request, Requests
<1>4. files' \in Artifacts /\ files'.candidate = op.rel /\ files'.request = Request(op.rel, Fresh(Old))
  BY <1>1, <1>2, <1>3, Idle DEF RecOK, Artifacts
<1>5. RecOK(rec, files')
  BY <1>2, <1>4, Idle, Stages DEF RecOK
<1>6. OpInv' /\ IngressInv'
  BY <1>1, <1>2, <1>4, AtPoint, GoesTo DEF IInv, OpInv, OpOK, IngressInv, remote, installer
<1>. QED  BY <1>1, <1>5, <1>6, Idle, AtPoint, GoesTo, OnlyOp

LEMMA CheckCapacityStep ==
  ASSUME IInv, CheckCapacity  PROVE  Owed
<1>1. /\ Running({"update"}, "capacity") /\ Then("bootstrap")
      /\ UNCHANGED <<remote, job, faults, rec, files, pending, ingress, addr, moves>>
  BY DEF CheckCapacity, hvars, remote, local, cloud
<1>2. OpInv' /\ IngressInv'
  BY <1>1, AtPoint, GoesTo DEF IInv, OpInv, OpOK, IngressInv, remote, installer
<1>. QED  BY <1>1, <1>2, Idle, AtPoint, GoesTo, OnlyOp

LEMMA WriteRollbackStep ==
  ASSUME IInv, WriteRollback  PROVE  Owed
<1>1. /\ Running({"rollback"}, "request") /\ files' = [files EXCEPT !.rollback = Request(op.rel, rec.receipt)]
      /\ Then("persist")
      /\ UNCHANGED <<remote, job, faults, rec, pending, ingress, addr, moves>>
  BY DEF WriteRollback, hvars, remote, cloud
<1>2. After(rec) /\ op.rel = Old /\ rec.phase \in {"UpdateVerifying"} \cup RollbackPhases
  BY <1>1, AtPoint DEF OpOK
<1>3. Request(op.rel, rec.receipt) = Third(rec) /\ Third(rec) \in Requests
  BY <1>2, Idle, Stages, ReceiptsTyped DEF After, Third, Request, Requests
<1>4. /\ files' \in Artifacts /\ files'.candidate = files.candidate /\ files'.request = files.request
      /\ files'.rollback = Third(rec)
  BY <1>1, <1>3, Idle DEF RecOK, Artifacts
<1>5. RecOK(rec, files')
  BY <1>4, Idle DEF RecOK
<1>6. OpInv' /\ IngressInv'
  BY <1>1, <1>2, <1>4, AtPoint, GoesTo DEF IInv, OpInv, OpOK, IngressInv, remote, installer
<1>. QED  BY <1>1, <1>5, <1>6, Idle, AtPoint, GoesTo, OnlyOp

\* An operation that ends leaves everything as it is.
LEMMA EndsQuietly ==
  ASSUME IInv, UNCHANGED <<remote, job, rec, files, ingress, addr, moves>>, job = None, faults' \in 0..MaxFaults,
         op' = None, PendingOK(pending')
  PROVE  Owed
<1>1. OpInv' /\ IngressInv'
  BY DEF IInv, OpInv, OpOK, IngressInv
<1>. QED  BY <1>1, Idle, OnlyOp

LEMMA ReadAttestationStep ==
  ASSUME IInv, ReadAttestation  PROVE  Owed /\ runtime = rec.current /\ ~transition
<1>1. /\ Running({"recover", "attest"}, "read") /\ op' = None /\ pending' = None
      /\ UNCHANGED <<remote, job, faults, rec, files, ingress, addr, moves>>
  BY DEF ReadAttestation, local, cloud
<1>2. op # None /\ op.at = "read" /\ job = None
  BY <1>1, AtPoint
<1>3. SoundInv
  BY <1>2 DEF IInv, ProofInv, ProofOK, Ready, SoundInv
<1>4. current = Updated(rec.desired) /\ Mended(rec) /\ rec.desired \in Candidates
  BY <1>2, WhenReady
<1>5. runtime = rec.current /\ ~transition
  BY <1>3, <1>4, Lasts DEF SoundInv, Sound, Installed, Mended, After
<1>. QED  BY <1>1, <1>2, <1>5, Idle, EndsQuietly

LEMMA RefusedStep ==
  ASSUME IInv, Refused  PROVE  Owed
<1>1. /\ job = None /\ op' = None
      /\ UNCHANGED <<remote, job, faults, rec, files, pending, ingress, addr, moves>>
  BY DEF Refused, Running, hvars, remote, local, cloud
<1>. QED  BY <1>1, Idle, EndsQuietly

-----------------------------------------------------------------------------
(* What the operations record *)

LEMMA SentGrows ==
  ASSUME NEW r, NEW s, First(s) = First(r), Beyond(r) => s.desired = r.desired,
         Beyond(r) /\ r.phase # "UpdateStaged" => Beyond(s) /\ s.phase # "UpdateStaged",
         Returning(r) => Beyond(r) /\ Returning(s)
  PROVE  Sent(r) \subseteq Sent(s)
BY DEF Sent, Second, Third

\* A change of the record at most says what the host has.
LEMMA Recorded ==
  ASSUME IInv, UNCHANGED <<remote, job, ingress, addr, moves>>, job = None, faults' \in 0..MaxFaults,
         RecOK(rec', files'), HostOK(rec', current, history), rec'.cidr = rec.cidr,
         OpOK(rec', files', current, job, op', ingress), PendingOK(pending'),
         Sent(rec) \subseteq Sent(rec'), Mended(rec) => Mended(rec'),
         op' = None \/ op'.at # "read",
         rec'.receipt = rec.receipt \/ Path(rec'.receipt) = Path(current)
  PROVE  Owed
<1>1. RecInv' /\ HostInv' /\ OpInv'
  BY DEF RecInv, HostInv, OpInv, remote, installer
<1>2. IngressInv'
  BY DEF IInv, IngressInv, IngressOK
<1>3. ChainClaim
  <2>1. UNCHANGED Path(current)
    BY DEF remote, installer
  <2>2. CASE rec'.receipt = rec.receipt
    <3>1. UNCHANGED Path(rec.receipt)
      BY <2>2
    <3>. QED  BY <2>1, <3>1 DEF ChainClaim
  <2>3. CASE Path(rec'.receipt) = Path(current)
    <3>1. Path(rec.receipt)' = Path(current)
      BY <2>3
    <3>. QED  BY <2>1, <3>1 DEF ChainClaim, Chain!Record
  <2>. QED  BY <2>2, <2>3
<1>. QED  BY <1>1, <1>2, <1>3, Records DEF Owed

LEMMA RecordInstalledStep ==
  ASSUME IInv, RecordInstalled  PROVE  Owed
<1>. DEFINE d == rec.desired
<1>1. /\ Running({"apply"}, "record") /\ Then("verify")
      /\ UNCHANGED <<remote, job, faults, files, pending, ingress, addr, moves>>
  BY DEF RecordInstalled, hvars, remote, cloud
<1>2. /\ op.kind = "apply" /\ op.rel = d /\ rec.phase \in {"HostKeyPinned", "Installed", "Verified"}
      /\ rec.current = None => current = Fresh(d)
  BY <1>1, AtPoint DEF OpOK
<1>3. CASE rec.current # None /\ UNCHANGED rec
  <2>1. OpInv' /\ IngressInv'
    BY <1>1, <1>2, <1>3, AtPoint, GoesTo DEF IInv, OpInv, OpOK, IngressInv, remote, installer
  <2>. QED  BY <1>1, <1>3, <2>1, Idle, AtPoint, GoesTo, OnlyOp
<1>4. CASE /\ rec.current = None
           /\ rec' = [rec EXCEPT !.current = op.rel,
                                 !.receipt = Reaches(Request(op.rel, <<>>), "installed"),
                                 !.phase = "Installed"]
  <2>1. Virgin(rec) /\ ~Beyond(rec) /\ rec \in Record
    <3>1. Virgin(rec) /\ rec \in Record
      BY <1>4, Idle, ReceiptsTyped, InstallerAssumption DEF RecOK, AtOrigin, Before, After, Back, Beyond
    <3>. QED  BY <3>1, Idle, Stages
  <2>2. Reaches(Request(op.rel, <<>>), "installed") = Fresh(d)
    BY <1>2, Idle, Appends DEF Reaches, Request, Installed
  <2>3. /\ rec' \in Record /\ rec'.current = d /\ rec'.receipt = Fresh(d) /\ rec'.phase = "Installed"
        /\ rec'.desired = d /\ rec'.previous = rec.previous /\ rec'.previousReceipt = rec.previousReceipt
        /\ rec'.cidr = rec.cidr
    BY <1>2, <1>4, <2>1, <2>2, Idle, ReceiptsTyped DEF Record, Phases
  <2>4. AtOrigin(rec') /\ ~Beyond(rec')
    BY <2>1, <2>3, InstallerAssumption, ReceiptsTyped DEF Virgin, AtOrigin, Beyond
  <2>5. RecOK(rec', files')
    BY <1>1, <2>3, <2>4, Idle DEF RecOK
  <2>6. HostOK(rec', current, history)
    <3>1. current = Fresh(rec'.desired)
      BY <1>2, <1>4, <2>3
    <3>2. ASSUME NEW p \in history  PROVE p = Fresh(rec'.desired)
      BY <2>1, <2>3, Idle, Stages DEF IInv, HostInv, HostOK, Returning
    <3>3. ~Virgin(rec') /\ ~Before(rec') /\ ~After(rec') /\ ~Back(rec')
      BY <2>4, <2>5, Stages
    <3>. QED  BY <2>4, <3>1, <3>2, <3>3 DEF HostOK
  <2>7. Sent(rec) \subseteq Sent(rec') /\ (Mended(rec) => Mended(rec'))
    <3>1. First(rec') = First(rec)
      BY <2>3 DEF First
    <3>2. ~Returning(rec) /\ ~Mended(rec)
      BY <2>1, Idle, Stages
    <3>. QED  BY <2>1, <3>1, <3>2, SentGrows
  <2>8. OpOK(rec', files', current, job, op', ingress)
    BY <1>1, <1>2, <2>3, <2>4, AtPoint, GoesTo, InstallerAssumption, Idle DEF OpOK
  <2>. QED  BY <1>1, <1>2, <1>4, <2>3, <2>5, <2>6, <2>7, <2>8, AtPoint, GoesTo, Idle, Recorded
<1>. QED  BY <1>2, <1>3, <1>4 DEF RecordInstalled

LEMMA VerifyLiveStep ==
  ASSUME IInv, VerifyLive  PROVE  Owed
<1>1. /\ Running({"apply", "verify", "update"}, "verify") /\ op' = None
      /\ UNCHANGED <<remote, job, faults, files, ingress, addr, moves>>
      /\ \/ rec' = [rec EXCEPT !.phase = "Verified"] /\ pending' \in {None, pending}
         \/ UNCHANGED <<rec, pending>>
  BY DEF VerifyLive, cloud
<1>2. CASE UNCHANGED <<rec, pending>>
  BY <1>1, <1>2, AtPoint, Idle, EndsQuietly
<1>3. CASE rec' = [rec EXCEPT !.phase = "Verified"] /\ pending' \in {None, pending}
  <2>1. AtOrigin(rec) \/ (After(rec) /\ ~Returning(rec))
    <3>1. rec.phase \in {"HostKeyPinned", "Installed", "Verified", "UpdateVerifying"}
      BY <1>1, AtPoint DEF OpOK
    <3>2. rec.phase = "HostKeyPinned" => rec.current # None
      BY <1>1, AtPoint DEF OpOK
    <3>. QED  BY <3>1, <3>2, Idle DEF RecOK, Virgin, Before, After, Back, Returning, RollbackPhases
  <2>2. /\ rec' \in Record /\ rec'.phase = "Verified" /\ rec'.current = rec.current
        /\ rec'.receipt = rec.receipt /\ rec'.desired = rec.desired /\ rec'.previous = rec.previous
        /\ rec'.previousReceipt = rec.previousReceipt /\ rec'.cidr = rec.cidr
    BY <1>3, Idle DEF RecOK, Record, Phases
  <2>3. (Beyond(rec') <=> Beyond(rec)) /\ First(rec') = First(rec) /\ Second(rec') = Second(rec)
    BY <2>2 DEF Beyond, First, Second
  <2>4. /\ AtOrigin(rec) => AtOrigin(rec')
        /\ After(rec) => After(rec') /\ Mended(rec')
    BY <2>2, <2>3 DEF AtOrigin, After, Mended
  <2>5. RecOK(rec', files')
    BY <1>1, <2>1, <2>2, <2>3, <2>4, Idle DEF RecOK
  <2>6. ~Returning(rec) /\ ~Returning(rec')
    BY <2>1, <2>2, <2>5, Idle, Stages DEF Returning, RollbackPhases, Back
  <2>7. HostOK(rec', current, history)
    <3>1. HostOK(rec, current, history)
      BY DEF IInv, HostInv
    <3>2. ~Virgin(rec') /\ ~Before(rec') /\ ~Back(rec')
      BY <2>1, <2>4, <2>5, Stages
    <3>3. AtOrigin(rec') => AtOrigin(rec) /\ ~Beyond(rec)
      BY <2>1, <2>4, <2>5, Idle, Stages
    <3>4. After(rec') => After(rec)
      BY <2>1, <2>4, <2>5, Idle, Stages
    <3>5. /\ AtOrigin(rec') => current = Fresh(rec'.desired)
          /\ After(rec') => current = Updated(rec'.desired)
      BY <2>2, <2>6, <3>1, <3>3, <3>4 DEF HostOK
    <3>6. ASSUME NEW p \in history
          PROVE  \/ AtOrigin(rec') /\ p = Fresh(rec'.desired)
                 \/ Beyond(rec') /\ p \in {Fresh(Old), Updated(rec'.desired), Restored}
      BY <2>1, <2>2, <2>3, <2>4, <2>6, <3>1, Idle, Stages DEF HostOK
    <3>. QED  BY <2>2, <2>6, <3>2, <3>5, <3>6 DEF HostOK
  <2>8. Sent(rec) \subseteq Sent(rec') /\ (Mended(rec) => Mended(rec'))
    <3>1. Mended(rec) => Mended(rec')
      BY <2>4 DEF Mended
    <3>. QED  BY <2>2, <2>3, <2>6, <3>1, SentGrows
  <2>9. OpOK(rec', files', current, job, op', ingress) /\ PendingOK(pending')
    BY <1>1, <1>3, Idle DEF OpOK
  <2>. QED  BY <1>1, <2>2, <2>5, <2>7, <2>8, <2>9, AtPoint, Idle, Recorded
<1>. QED  BY <1>1, <1>2, <1>3

\* The candidate is staged on top of the first release.
LEMMA StageUpdateStep ==
  ASSUME IInv, StageUpdate  PROVE  Owed
<1>1. /\ Running({"update"}, "persist") /\ Then("capacity") /\ pending' = None
      /\ rec' = [rec EXCEPT !.previous = rec.current, !.previousReceipt = rec.receipt,
                            !.desired = op.rel, !.phase = "UpdateStaged"]
      /\ UNCHANGED <<remote, job, faults, files, ingress, addr, moves>>
  BY DEF StageUpdate, cloud
<1>2. /\ op.kind = "update" /\ AtOrigin(rec) /\ rec.desired = Old /\ op.rel \in Candidates
      /\ files.candidate = op.rel /\ files.request = Request(op.rel, Fresh(Old))
  BY <1>1, AtPoint DEF OpOK
<1>3. /\ rec' \in Record /\ rec'.previous = Old /\ rec'.previousReceipt = Fresh(Old)
      /\ rec'.desired = op.rel /\ rec'.phase = "UpdateStaged" /\ rec'.current = Old
      /\ rec'.receipt = Fresh(Old) /\ rec'.receipt = rec.receipt /\ rec'.cidr = rec.cidr
  BY <1>1, <1>2, Idle, ReceiptsTyped DEF RecOK, AtOrigin, Record, Phases, UpdatePhases
<1>4. Before(rec') /\ Beyond(rec') /\ Second(rec') = Request(op.rel, Fresh(Old))
  BY <1>2, <1>3 DEF Before, Beyond, Second
<1>5. RecOK(rec', files')
  BY <1>1, <1>2, <1>3, <1>4, Idle DEF RecOK
<1>6. ~Virgin(rec') /\ ~AtOrigin(rec') /\ ~After(rec') /\ ~Back(rec') /\ ~Returning(rec')
  BY <1>4, <1>5, Stages
<1>7. ~Beyond(rec) /\ ~Returning(rec) /\ ~Mended(rec) /\ ~Virgin(rec)
  BY <1>2, Idle, Stages
<1>8. HostOK(rec', current, history)
  <2>1. current = Fresh(Old) /\ \A p \in history : p = Fresh(Old)
    BY <1>2, <1>7 DEF IInv, HostInv, HostOK
  <2>. QED  BY <1>3, <1>4, <1>6, <2>1 DEF HostOK
<1>9. Sent(rec) \subseteq Sent(rec')
  <2>1. First(rec') = First(rec)
    BY <1>2, <1>3, InstallerAssumption, ReceiptsTyped DEF First, AtOrigin
  <2>. QED  BY <1>7, <2>1, SentGrows
<1>10. OpOK(rec', files', current, job, op', ingress)
  BY <1>1, <1>2, <1>3, AtPoint, GoesTo DEF OpOK, UpdatePhases
<1>. QED  BY <1>1, <1>3, <1>5, <1>7, <1>8, <1>9, <1>10, AtPoint, GoesTo, Idle, Recorded

\* The update is recorded once the host has it.
LEMMA RecordUpdateStep ==
  ASSUME IInv, RecordUpdate  PROVE  Owed
<1>. DEFINE d == rec.desired
<1>1. /\ Running({"update"}, "record") /\ Then("verify")
      /\ rec' = [rec EXCEPT !.current = op.rel, !.receipt = Reaches(files.request, "installed"),
                            !.phase = "UpdateVerifying"]
      /\ UNCHANGED <<remote, job, faults, files, pending, ingress, addr, moves>>
  BY DEF RecordUpdate, hvars, remote, cloud
<1>2. op.kind = "update" /\ op.rel = d /\ rec.phase = "UpdateInstalling" /\ current = Updated(d)
  BY <1>1, AtPoint DEF OpOK
<1>3. Beyond(rec) /\ d \in Candidates /\ files.request = Second(rec) /\ (Before(rec) \/ After(rec))
  BY <1>2, Idle DEF RecOK, Virgin, AtOrigin, Back, Before, After
<1>4. Reaches(files.request, "installed") = Updated(d)
  BY <1>3, Appends DEF Reaches, Second, Request, Installed
<1>5. /\ rec' \in Record /\ rec'.previous = rec.previous /\ rec'.previousReceipt = rec.previousReceipt
      /\ rec'.desired = d /\ rec'.phase = "UpdateVerifying" /\ rec'.current = d
      /\ rec'.receipt = Updated(d) /\ rec'.cidr = rec.cidr
  BY <1>1, <1>2, <1>3, <1>4, Idle, ReceiptsTyped DEF RecOK, Record, Phases, UpdatePhases
<1>6. After(rec') /\ Beyond(rec') /\ Second(rec') = Second(rec) /\ First(rec') = First(rec)
  BY <1>3, <1>5 DEF After, Beyond, Second, First
<1>7. RecOK(rec', files')
  BY <1>1, <1>3, <1>5, <1>6, Idle DEF RecOK
<1>8. /\ ~Virgin(rec') /\ ~AtOrigin(rec') /\ ~Before(rec') /\ ~Back(rec')
      /\ ~Returning(rec') /\ ~Returning(rec) /\ ~Mended(rec)
  BY <1>2, <1>5, <1>6, <1>7, Idle, Stages DEF Returning, RollbackPhases, Back, Mended
<1>9. HostOK(rec', current, history)
  <2>1. \A p \in history : p \in {Fresh(Old), Updated(d), Restored}
    BY <1>3, <1>8, Idle, Stages DEF IInv, HostInv, HostOK
  <2>. QED  BY <1>2, <1>5, <1>6, <1>8, <2>1 DEF HostOK
<1>10. Sent(rec) \subseteq Sent(rec')
  BY <1>5, <1>6, <1>8, SentGrows
<1>11. OpOK(rec', files', current, job, op', ingress)
  BY <1>1, <1>2, <1>5, AtPoint, GoesTo DEF OpOK
<1>. QED  BY <1>1, <1>2, <1>5, <1>7, <1>8, <1>9, <1>10, <1>11, AtPoint, GoesTo, Idle, Recorded

LEMMA StageRollbackStep ==
  ASSUME IInv, StageRollback  PROVE  Owed
<1>. DEFINE d == rec.desired
<1>1. /\ Running({"rollback"}, "persist") /\ Then("installing")
      /\ rec' = [rec EXCEPT !.phase = "RollbackStaged"]
      /\ UNCHANGED <<remote, job, faults, files, pending, ingress, addr, moves>>
  BY DEF StageRollback, hvars, remote, cloud
<1>2. /\ op.kind = "rollback" /\ op.rel = Old /\ After(rec) /\ files.rollback = Third(rec)
      /\ rec.phase \in {"UpdateVerifying"} \cup RollbackPhases
  BY <1>1, AtPoint DEF OpOK
<1>3. /\ rec' \in Record /\ rec'.previous = rec.previous /\ rec'.previousReceipt = rec.previousReceipt
      /\ rec'.desired = d /\ rec'.phase = "RollbackStaged" /\ rec'.current = rec.current
      /\ rec'.receipt = rec.receipt /\ rec'.cidr = rec.cidr
  BY <1>1, Idle DEF RecOK, Record, Phases, RollbackPhases
<1>4. /\ After(rec') /\ Beyond(rec') /\ Beyond(rec) /\ Returning(rec')
      /\ Second(rec') = Second(rec) /\ First(rec') = First(rec) /\ Third(rec') = Third(rec)
  BY <1>2, <1>3 DEF After, Beyond, Second, First, Third, Returning, RollbackPhases
<1>5. RecOK(rec', files')
  BY <1>1, <1>3, <1>4, Idle DEF RecOK
<1>6. ~Virgin(rec') /\ ~AtOrigin(rec') /\ ~Before(rec') /\ ~Back(rec') /\ ~Mended(rec)
  BY <1>2, <1>3, <1>4, <1>5, Idle, Stages DEF Mended, RollbackPhases
<1>7. HostOK(rec', current, history)
  <2>1. current \in {Updated(d), Undone(d), Redone(d)}
    BY <1>2 DEF IInv, HostInv, HostOK
  <2>2. \A p \in history : p \in {Fresh(Old), Updated(d), Restored, Undone(d), Redone(d)}
    BY <1>4, Idle, Stages DEF IInv, HostInv, HostOK
  <2>. QED  BY <1>3, <1>4, <1>6, <2>1, <2>2 DEF HostOK
<1>8. Sent(rec) \subseteq Sent(rec')
  BY <1>3, <1>4, SentGrows
<1>9. OpOK(rec', files', current, job, op', ingress)
  BY <1>1, <1>2, <1>3, <1>4, AtPoint, GoesTo DEF OpOK, RollbackPhases
<1>. QED  BY <1>1, <1>2, <1>3, <1>5, <1>6, <1>7, <1>8, <1>9, AtPoint, GoesTo, Idle, Recorded

\* The way back is recorded once the host has gone it, or has gone it twice.
LEMMA RecordRollbackStep ==
  ASSUME IInv, RecordRollback  PROVE  Owed
<1>. DEFINE d == rec.desired
<1>1. /\ Running({"rollback"}, "record") /\ op' = None /\ pending' = None
      /\ rec' = [rec EXCEPT !.current = op.rel, !.receipt = Reaches(files.rollback, "rolled_back"),
                            !.phase = "RolledBack"]
      /\ UNCHANGED <<remote, job, faults, files, ingress, addr, moves>>
  BY DEF RecordRollback, cloud
<1>2. /\ op.rel = Old /\ After(rec) /\ files.rollback = Third(rec)
      /\ rec.phase = "RollbackInstalling" /\ current \in {Undone(d), Redone(d)} /\ d \in Candidates
  BY <1>1, AtPoint, Idle, Stages DEF OpOK
<1>3. Reaches(files.rollback, "rolled_back") = Undone(d)
  BY <1>2, Appends DEF Reaches, Third, Request, RolledBack
<1>4. /\ rec' \in Record /\ rec'.previous = rec.previous /\ rec'.previousReceipt = rec.previousReceipt
      /\ rec'.desired = d /\ rec'.phase = "RolledBack" /\ rec'.current = Old
      /\ rec'.receipt = Undone(d) /\ rec'.cidr = rec.cidr
  BY <1>1, <1>2, <1>3, Idle, ReceiptsTyped DEF RecOK, Record, Phases
<1>5. /\ Back(rec') /\ Beyond(rec') /\ Beyond(rec) /\ Returning(rec')
      /\ Second(rec') = Second(rec) /\ First(rec') = First(rec) /\ Third(rec') = Third(rec)
  BY <1>2, <1>4 DEF Back, After, Beyond, Second, First, Third, Returning
<1>6. RecOK(rec', files')
  BY <1>1, <1>4, <1>5, Idle DEF RecOK
<1>7. ~Virgin(rec') /\ ~AtOrigin(rec') /\ ~Before(rec') /\ ~After(rec') /\ ~Mended(rec)
  BY <1>2, <1>5, <1>6, Stages DEF Mended
<1>8. HostOK(rec', current, history)
  <2>1. \A p \in history : p \in {Fresh(Old), Updated(d), Restored, Undone(d), Redone(d)}
    BY <1>5, Idle, Stages DEF IInv, HostInv, HostOK
  <2>. QED  BY <1>2, <1>4, <1>5, <1>7, <2>1 DEF HostOK
<1>9. Sent(rec) \subseteq Sent(rec')
  BY <1>4, <1>5, SentGrows
<1>10. OpOK(rec', files', current, job, op', ingress)
  BY <1>1 DEF OpOK
<1>11. Path(rec'.receipt) = Path(current)
  BY <1>2, <1>4, PathsGrow
<1>. QED  BY <1>1, <1>4, <1>6, <1>7, <1>8, <1>9, <1>10, <1>11, AtPoint, Idle, Recorded

\* The address is recorded once the group lets in no other.
LEMMA RecordRebindStep ==
  ASSUME IInv, RecordRebind  PROVE  Owed
<1>1. /\ Running({"rebind"}, "rebound") /\ op' = None /\ rec' = [rec EXCEPT !.cidr = op.to]
      /\ pending' \in {Bridge, None}
      /\ UNCHANGED <<remote, job, faults, files, ingress, addr, moves>>
  BY DEF RecordRebind, cloud
<1>2. ingress = {op.to} /\ op.to \in Cidrs
  BY <1>1, AtPoint DEF OpOK
<1>3. /\ rec' \in Record /\ rec'.previous = rec.previous /\ rec'.previousReceipt = rec.previousReceipt
      /\ rec'.desired = rec.desired /\ rec'.phase = rec.phase /\ rec'.current = rec.current
      /\ rec'.receipt = rec.receipt /\ rec'.cidr = op.to
  BY <1>1, <1>2, Idle DEF RecOK, Record
<1>4. /\ Virgin(rec') <=> Virgin(rec)
      /\ AtOrigin(rec') <=> AtOrigin(rec)
      /\ Beyond(rec') <=> Beyond(rec)
      /\ First(rec') = First(rec) /\ Second(rec') = Second(rec) /\ Third(rec') = Third(rec)
  BY <1>3 DEF Virgin, AtOrigin, Beyond, First, Second, Third
<1>5. /\ Before(rec') <=> Before(rec)
      /\ After(rec') <=> After(rec)
      /\ Back(rec') <=> Back(rec)
  BY <1>3, <1>4 DEF Before, After, Back
<1>6. (Returning(rec') <=> Returning(rec)) /\ (Mended(rec') <=> Mended(rec))
  BY <1>3, <1>5 DEF Returning, Mended
<1>7. RecInv'
  BY <1>1, <1>3, <1>4, <1>5, Idle DEF RecInv, RecOK
<1>8. HostInv'
  <2>1. UNCHANGED <<current, history>>
    BY <1>1 DEF remote, installer
  <2>2. HostOK(rec, current, history)
    BY DEF IInv, HostInv
  <2>3. HostOK(rec', current, history)
    BY <1>3, <1>4, <1>5, <1>6, <2>2 DEF HostOK
  <2>. QED  BY <2>1, <2>3 DEF HostInv
<1>9. Sent(rec) \subseteq Sent(rec')
  BY <1>3, <1>4, <1>6, Idle, Stages, SentGrows
<1>10. OpInv' /\ IngressInv' /\ PendingOK(pending')
  BY <1>1, <1>2, <1>3 DEF OpInv, OpOK, IngressInv, IngressOK, PendingOK, RebindPending, KeepsBridge
<1>11. ChainClaim
  <2>1. UNCHANGED <<Path(current), Path(rec.receipt)>>
    BY <1>1, <1>3 DEF remote, installer
  <2>. QED  BY <2>1 DEF ChainClaim
<1>. QED  BY <1>1, <1>6, <1>7, <1>8, <1>9, <1>10, <1>11, AtPoint, Idle, Records DEF Owed

\* The group lets in the new address before it shuts out the old one.
LEMMA RebindEffectStep ==
  ASSUME IInv, AuthorizeNew \/ RevokeOld  PROVE  Owed
<1>1. /\ job = None /\ op # None /\ op.kind = "rebind" /\ op.to # rec.cidr
      /\ UNCHANGED <<remote, job, rec, files, addr, moves>>
      /\ faults' \in 0..MaxFaults
      /\ OpOK(rec, files, current, job, op, ingress)
  <2>1. faults' \in 0..MaxFaults
    BY Idle, StagingAssumption DEF AuthorizeNew, RevokeOld, RebindEffect
  <2>. QED  BY <2>1, AtPoint DEF AuthorizeNew, RevokeOld, RebindEffect, local, OpOK
<1>2. op \in Operation /\ op.to \in Cidrs
  BY <1>1 DEF OpOK, Operation
<1>3. PendingOK(pending')
  BY DEF AuthorizeNew, RevokeOld, RebindEffect, PendingOK, RebindPending, KeepsBridge, Authorize, Revoke
<1>4. CASE AuthorizeNew
  <2>1. op.at = "authorize" /\ ingress = {rec.cidr}
    BY <1>1, <1>4 DEF AuthorizeNew, Running, OpOK
  <2>2. ingress' \in {{rec.cidr}, {rec.cidr, op.to}}
    BY <1>4, <2>1 DEF AuthorizeNew, RebindEffect
  <2>3. op' = None \/ (Then("revoke") /\ ingress' = {rec.cidr, op.to})
    BY <1>4, <2>1 DEF AuthorizeNew, RebindEffect
  <2>4. OpInv' /\ (op' = None \/ op'.at # "read")
    BY <1>1, <1>2, <2>3, GoesTo DEF OpInv, OpOK
  <2>5. IngressInv'
    BY <1>1, <1>2, <2>2 DEF IngressInv, IngressOK
  <2>. QED  BY <1>1, <1>3, <2>4, <2>5, Idle, OnlyOp
<1>5. CASE RevokeOld
  <2>1. op.at = "revoke" /\ ingress = {rec.cidr, op.to}
    BY <1>1, <1>5 DEF RevokeOld, Running, OpOK
  <2>2. ingress \ {rec.cidr} = {op.to}
    BY <1>1, <2>1
  <2>3. ingress' \in {{rec.cidr, op.to}, {op.to}}
    BY <1>5, <2>1, <2>2 DEF RevokeOld, RebindEffect
  <2>4. op' = None \/ (Then("rebound") /\ ingress' = {op.to})
    BY <1>5, <2>2 DEF RevokeOld, RebindEffect
  <2>5. OpInv' /\ (op' = None \/ op'.at # "read")
    BY <1>1, <1>2, <2>4, GoesTo DEF OpInv, OpOK
  <2>6. IngressInv'
    BY <1>1, <1>2, <2>3 DEF IngressInv, IngressOK
  <2>. QED  BY <1>1, <1>3, <2>5, <2>6, Idle, OnlyOp
<1>. QED  BY <1>4, <1>5

-----------------------------------------------------------------------------
(* The jobs of the deployer *)

\* An operation begins a job.
LEMMA Begun ==
  ASSUME IInv, UNCHANGED <<remote, ingress, addr, moves>>, job = None, faults' \in 0..MaxFaults,
         RecOK(rec', files'), HostOK(rec', current, history),
         rec'.cidr = rec.cidr, rec'.receipt = rec.receipt,
         op' # None, OpOK(rec', files', current, job', op', ingress), PendingOK(pending'),
         Sent(rec) \subseteq Sent(rec'), Mended(rec) => Mended(rec'),
         job' \in Job, job'.at \in {"helpers", "installer"},
         HelpersOnly(rec', job', op') \/ ProgramOnly(rec', job', op') \/ Installs(rec', job', op')
  PROVE  Owed
<1>1. RecInv' /\ HostInv' /\ OpInv'
  BY DEF RecInv, HostInv, OpInv, remote, installer
<1>2. IngressInv'
  BY DEF IInv, IngressInv, IngressOK
<1>3. JobInv'
  BY DEF JobInv, JobOK, HelperPoints
<1>4. WatchInv'
  BY DEF IInv, WatchInv, WatchOK, remote, installer
<1>5. ~Ready(exit, job', op')
  <2>1. job' # None
    BY StagingAssumption
  <2>. QED  BY <2>1 DEF Ready
<1>6. ChainClaim
  <2>1. UNCHANGED <<Path(current), Path(rec.receipt)>>
    BY DEF remote, installer
  <2>. QED  BY <2>1 DEF ChainClaim
<1>. QED  BY <1>1, <1>2, <1>3, <1>4, <1>5, <1>6, DeployerKeeps DEF Owed

\* The job that an operation begins.
LEMMA BeginsJob ==
  ASSUME NEW left \in Seq(Helpers), NEW request \in Requests \cup {None}, NEW goal \in Receipts,
         NEW by \in Programs, Begin(left, request, goal, by)
  PROVE  /\ job' \in Job /\ job'.at = "helpers" /\ job'.request = request /\ job'.goal = goal
         /\ job'.by = by
BY DEF Begin, Job, Points

LEMMA EnsureDirectoryStep ==
  ASSUME IInv, EnsureDirectory  PROVE  Owed
<1>. DEFINE d == rec.desired  request == Request(d, <<>>)
<1>1. /\ Running({"apply"}, "directory") /\ UNCHANGED <<rec, files, ingress, addr, moves>>
  BY DEF EnsureDirectory, local, cloud
<1>2. /\ op.kind = "apply" /\ op.rel = d /\ rec.phase \in {"HostKeyPinned", "Installed", "Verified"}
      /\ job = None
  BY <1>1, AtPoint DEF OpOK
<1>3. CASE Interrupted(<<"directory">>) /\ op' = None /\ UNCHANGED remote
  <2>1. faults' \in 0..MaxFaults /\ pending' = <<"directory">> /\ job' = None
    BY <1>3, Idle, StagingAssumption DEF Interrupted
  <2>2. PendingOK(pending')
    BY <2>1 DEF PendingOK
  <2>. QED  BY <1>1, <1>2, <1>3, <2>1, <2>2, EndsQuietly
<1>4. CASE /\ Begin(Base, IF rec.current = None THEN request ELSE None, Reaches(request, "installed"), "retained")
           /\ pending' = None /\ Then("record")
  <2>1. Reaches(request, "installed") = Fresh(d) /\ Fresh(d) \in Receipts /\ request \in Requests
    BY Idle, Appends, ReceiptsTyped DEF Reaches, Request, Requests, Installed
  <2>2. /\ job' \in Job /\ job'.at = "helpers" /\ job'.goal = Fresh(d) /\ job'.by = "retained"
        /\ job'.request = IF rec.current = None THEN request ELSE None
    BY <1>4, <2>1, BeginsJob, UpdateAssumption DEF Programs
  <2>3. op' \in Operation /\ op'.kind = "apply" /\ op'.at = "record" /\ op'.rel = d
    BY <1>1, <1>2, <1>4, AtPoint, GoesTo
  <2>4. rec.current = None => Virgin(rec) /\ First(rec) = request
    BY Idle, ReceiptsTyped, InstallerAssumption DEF RecOK, Virgin, AtOrigin, Before, After, Back, Beyond, First
  <2>5. HelpersOnly(rec, job', op') \/ Installs(rec, job', op')
    BY <2>2, <2>3, <2>4 DEF HelpersOnly, Installs
  <2>6. OpOK(rec, files, current, job', op', ingress)
    BY <1>2, <2>2, <2>3, StagingAssumption DEF OpOK
  <2>7. HostOK(rec, current, history) /\ UNCHANGED <<remote, faults>> /\ op' # None
    BY <1>4, <2>3, UpdateAssumption DEF IInv, HostInv, Begin
  <2>. QED  BY <1>1, <1>2, <1>4, <2>2, <2>5, <2>6, <2>7, Idle, Begun
<1>. QED  BY <1>3, <1>4 DEF EnsureDirectory

LEMMA EnsureBootstrapStep ==
  ASSUME IInv, EnsureBootstrap  PROVE  Owed
<1>1. /\ Running({"update"}, "bootstrap") /\ Begin(Bootstrap, None, <<>>, "bootstrap") /\ Then("installing")
      /\ UNCHANGED <<remote, faults, rec, files, pending, ingress, addr, moves>>
  BY DEF EnsureBootstrap, OnHost, Begin, local, cloud
<1>2. job' \in Job /\ job'.at = "helpers" /\ job'.request = None /\ job'.by = "bootstrap"
  BY <1>1, BeginsJob, UpdateAssumption, ReceiptsTyped DEF Programs
<1>3. /\ op' \in Operation /\ op'.kind = "update" /\ op'.at = "installing" /\ op'.rel = rec.desired
      /\ rec.phase \in UpdatePhases /\ job = None /\ op' # None
  BY <1>1, AtPoint, GoesTo, UpdateAssumption DEF OpOK
<1>4. HelpersOnly(rec, job', op')
  BY <1>2, <1>3 DEF HelpersOnly
<1>5. OpOK(rec, files, current, job', op', ingress)
  BY <1>3 DEF OpOK
<1>6. HostOK(rec, current, history)
  BY DEF IInv, HostInv
<1>. QED  BY <1>1, <1>2, <1>3, <1>4, <1>5, <1>6, Idle, Begun

\* The installation is announced before it begins.
LEMMA InstallUpdateStep ==
  ASSUME IInv, InstallUpdate  PROVE  Owed
<1>. DEFINE d == rec.desired
<1>1. /\ Running({"update"}, "installing") /\ rec' = [rec EXCEPT !.phase = "UpdateInstalling"]
      /\ Begin(<<>>, files.request, Reaches(files.request, "installed"), "bootstrap") /\ Then("record")
      /\ UNCHANGED <<remote, faults, files, pending, ingress, addr, moves>>
  BY DEF InstallUpdate, OnHost, Begin, cloud
<1>2. /\ op' \in Operation /\ op'.kind = "update" /\ op'.at = "record" /\ op'.rel = d
      /\ rec.phase \in UpdatePhases /\ job = None /\ op' # None
  BY <1>1, AtPoint, GoesTo, UpdateAssumption DEF OpOK
<1>3. Beyond(rec) /\ d \in Candidates /\ files.request = Second(rec) /\ (Before(rec) \/ After(rec))
  BY <1>2, Idle DEF RecOK, Virgin, AtOrigin, Back, Before, After, UpdatePhases
<1>4. Reaches(files.request, "installed") = Updated(d) /\ Updated(d) \in Receipts /\ Second(rec) \in Requests
  BY <1>3, Appends, ReceiptsTyped DEF Reaches, Second, Request, Requests, Installed
<1>5. /\ job' \in Job /\ job'.at = "helpers" /\ job'.request = Second(rec) /\ job'.goal = Updated(d)
      /\ job'.by = "bootstrap"
  <2>1. <<>> \in Seq(Helpers)
    OBVIOUS
  <2>. QED  BY <1>1, <1>3, <1>4, <2>1, BeginsJob DEF Programs
<1>6. /\ rec' \in Record /\ rec'.previous = rec.previous /\ rec'.previousReceipt = rec.previousReceipt
      /\ rec'.desired = d /\ rec'.phase = "UpdateInstalling" /\ rec'.current = rec.current
      /\ rec'.receipt = rec.receipt /\ rec'.cidr = rec.cidr
  BY <1>1, Idle DEF RecOK, Record, Phases, UpdatePhases
<1>7. Beyond(rec') /\ First(rec') = First(rec) /\ Second(rec') = Second(rec)
  BY <1>3, <1>6 DEF Beyond, First, Second
<1>8. (Before(rec) => Before(rec')) /\ (After(rec) => After(rec'))
  BY <1>6, <1>7 DEF Before, After
<1>9. RecOK(rec', files')
  BY <1>1, <1>3, <1>6, <1>7, <1>8, Idle DEF RecOK
<1>10. /\ ~Virgin(rec') /\ ~AtOrigin(rec') /\ ~Back(rec') /\ ~Returning(rec')
       /\ ~Returning(rec) /\ ~Mended(rec)
  BY <1>2, <1>3, <1>6, <1>7, <1>8, <1>9, Idle, Stages DEF Returning, RollbackPhases, Mended, UpdatePhases, Back
<1>11. HostOK(rec', current, history)
  <2>1. /\ Before(rec) => current \in {Fresh(Old), Updated(d), Restored}
        /\ After(rec) => current = Updated(d)
    BY <1>10 DEF IInv, HostInv, HostOK, Before
  <2>2. \A p \in history : p \in {Fresh(Old), Updated(d), Restored}
    BY <1>3, <1>10, Idle, Stages DEF IInv, HostInv, HostOK
  <2>3. (After(rec') => After(rec)) /\ (Before(rec') => ~After(rec'))
    BY <1>3, <1>8, <1>9, Stages
  <2>4. /\ Before(rec') => current \in {Fresh(Old), Updated(d), Restored}
        /\ After(rec') => current = Updated(d)
    BY <1>3, <1>8, <2>1, <2>3
  <2>. QED  BY <1>6, <1>7, <1>10, <2>2, <2>4 DEF HostOK
<1>12. Sent(rec) \subseteq Sent(rec')
  BY <1>6, <1>7, <1>10, SentGrows
<1>13. OpOK(rec', files', current, job', op', ingress)
  BY <1>2, <1>5, <1>6, StagingAssumption DEF OpOK
<1>14. Installs(rec', job', op')
  BY <1>2, <1>5, <1>6, <1>7 DEF Installs
<1>. QED  BY <1>1, <1>2, <1>5, <1>6, <1>9, <1>10, <1>11, <1>12, <1>13, <1>14, Idle, Begun

LEMMA InstallRollbackStep ==
  ASSUME IInv, InstallRollback  PROVE  Owed
<1>. DEFINE d == rec.desired
<1>1. /\ Running({"rollback"}, "installing") /\ rec' = [rec EXCEPT !.phase = "RollbackInstalling"]
      /\ Begin(<<>>, files.rollback, Reaches(files.rollback, "rolled_back"), "retained") /\ Then("record")
      /\ UNCHANGED <<remote, faults, files, pending, ingress, addr, moves>>
  BY DEF InstallRollback, OnHost, Begin, cloud
<1>2. /\ op' \in Operation /\ op'.kind = "rollback" /\ op'.at = "record" /\ op'.rel = Old
      /\ rec.phase = "RollbackStaged" /\ job = None /\ op' # None
      /\ After(rec) /\ files.rollback = Third(rec)
  BY <1>1, AtPoint, GoesTo, UpdateAssumption DEF OpOK
<1>3. Beyond(rec) /\ Returning(rec) /\ d \in Candidates
  BY <1>2, Idle, Stages DEF Returning, RollbackPhases
<1>4. /\ Reaches(files.rollback, "rolled_back") = Undone(d) /\ Undone(d) \in Receipts
      /\ Third(rec) \in Requests
  BY <1>2, <1>3, Appends, ReceiptsTyped DEF Reaches, Third, Request, Requests, RolledBack
<1>5. /\ job' \in Job /\ job'.at = "helpers" /\ job'.request = Third(rec) /\ job'.goal = Undone(d)
      /\ job'.by = "retained"
  <2>1. <<>> \in Seq(Helpers)
    OBVIOUS
  <2>. QED  BY <1>1, <1>2, <1>4, <2>1, BeginsJob DEF Programs
<1>6. /\ rec' \in Record /\ rec'.previous = rec.previous /\ rec'.previousReceipt = rec.previousReceipt
      /\ rec'.desired = d /\ rec'.phase = "RollbackInstalling" /\ rec'.current = rec.current
      /\ rec'.receipt = rec.receipt /\ rec'.cidr = rec.cidr
  BY <1>1, Idle DEF RecOK, Record, Phases, RollbackPhases
<1>7. /\ Beyond(rec') /\ First(rec') = First(rec) /\ Second(rec') = Second(rec) /\ Third(rec') = Third(rec)
  BY <1>3, <1>6 DEF Beyond, First, Second, Third
<1>8. After(rec') /\ Returning(rec')
  BY <1>2, <1>6, <1>7 DEF After, Returning, RollbackPhases
<1>9. RecOK(rec', files')
  BY <1>1, <1>3, <1>6, <1>7, <1>8, Idle DEF RecOK
<1>10. ~Virgin(rec') /\ ~AtOrigin(rec') /\ ~Before(rec') /\ ~Back(rec') /\ ~Mended(rec)
  BY <1>2, <1>3, <1>7, <1>8, <1>9, Idle, Stages
<1>11. HostOK(rec', current, history)
  <2>1. current \in {Updated(d), Undone(d), Redone(d)}
    BY <1>2, <1>3 DEF IInv, HostInv, HostOK
  <2>2. \A p \in history : p \in {Fresh(Old), Updated(d), Restored, Undone(d), Redone(d)}
    BY <1>3, Idle, Stages DEF IInv, HostInv, HostOK
  <2>. QED  BY <1>6, <1>7, <1>8, <1>10, <2>1, <2>2 DEF HostOK
<1>12. Sent(rec) \subseteq Sent(rec')
  BY <1>3, <1>6, <1>7, <1>8, SentGrows
<1>13. OpOK(rec', files', current, job', op', ingress)
  BY <1>1, <1>2, <1>5, <1>6, <1>7, <1>8, StagingAssumption DEF OpOK, RollbackPhases
<1>14. Installs(rec', job', op')
  BY <1>2, <1>5, <1>6, <1>7 DEF Installs
<1>. QED  BY <1>1, <1>2, <1>5, <1>6, <1>9, <1>10, <1>11, <1>12, <1>13, <1>14, Idle, Begun

LEMMA SealRecoveryStep ==
  ASSUME IInv, SealRecovery  PROVE  Owed
<1>1. /\ Running({"recover"}, "seal") /\ files' = [files EXCEPT !.sealed = TRUE]
      /\ Begin(Recovery, None, <<>>, "recover") /\ Then("run")
      /\ UNCHANGED <<remote, faults, rec, pending, ingress, addr, moves>>
  BY DEF SealRecovery, OnHost, Begin, cloud
<1>2. job' \in Job /\ job'.at = "helpers" /\ job'.request = None /\ job'.by = "recover"
  BY <1>1, BeginsJob, UpdateAssumption, ReceiptsTyped DEF Programs
<1>3. /\ op' \in Operation /\ op'.kind = "recover" /\ op'.at = "run" /\ Mended(rec) /\ job = None /\ op' # None
  BY <1>1, AtPoint, GoesTo, UpdateAssumption DEF OpOK
<1>4. HelpersOnly(rec, job', op')
  BY <1>2, <1>3 DEF HelpersOnly
<1>5. OpOK(rec, files', current, job', op', ingress)
  BY <1>3 DEF OpOK
<1>6. HostOK(rec, current, history)
  BY DEF IInv, HostInv
<1>7. RecOK(rec, files')
  <2>1. files' \in Artifacts /\ files'.candidate = files.candidate /\ files'.request = files.request
    BY <1>1, Idle DEF RecOK, Artifacts
  <2>. QED  BY <2>1, Idle DEF RecOK
<1>. QED  BY <1>1, <1>2, <1>3, <1>4, <1>5, <1>6, <1>7, Idle, Begun

LEMMA RunProgramStep ==
  ASSUME IInv, RunRecovery \/ RunAttester  PROVE  Owed
<1>1. PICK program \in Repairs, point \in {"attest", "read"} :
        /\ RunProgram(program, point)
        /\ IF program = "recover" THEN Running({"recover"}, "run") /\ point = "attest"
                                  ELSE Running({"recover", "attest"}, "attest") /\ point = "read"
  BY DEF RunRecovery, RunAttester, Repairs
<1>2. /\ UNCHANGED <<remote, faults, rec, files, pending, ingress, addr, moves>> /\ Then(point)
      /\ job' = [at |-> "installer", left |-> <<>>, request |-> None, goal |-> rec.receipt, by |-> program]
  BY <1>1 DEF RunProgram, local, cloud
<1>3. /\ job = None /\ op' \in Operation /\ op' # None /\ op'.kind = op.kind /\ op'.at = point
      /\ op.kind \in Repairs /\ (program = "recover" => op.kind = "recover") /\ Mended(rec)
  BY <1>1, <1>2, AtPoint, GoesTo, UpdateAssumption DEF OpOK, Repairs
<1>4. job' \in Job /\ job'.at = "installer"
  <2>1. rec.receipt \in Receipts /\ <<>> \in Seq(Helpers) /\ program \in Programs
    BY Idle DEF RecOK, Record, Repairs, Programs
  <2>. QED  BY <1>2, <2>1 DEF Job, Points
<1>5. ProgramOnly(rec, job', op')
  BY <1>1, <1>2, <1>3 DEF ProgramOnly, ProgramPoints, Repairs
<1>6. OpOK(rec, files, current, job', op', ingress)
  BY <1>1, <1>3 DEF OpOK, Repairs
<1>7. HostOK(rec, current, history)
  BY DEF IInv, HostInv
<1>. QED  BY <1>2, <1>3, <1>4, <1>5, <1>6, <1>7, Idle, Begun

\* What a step of a job leaves alone.
Around == UNCHANGED <<rec, files, ingress, addr, moves>> /\ op' = IF job' = None THEN None ELSE op
Still == UNCHANGED <<current, history, runtime, proof, transition, orphans>>

\* A job that waits for no program goes on or ends.
LEMMA JobGoes ==
  ASSUME IInv, job # None, job.at # "running", Around, Still, UNCHANGED <<work, exit>>,
         faults' \in 0..MaxFaults, PendingOK(pending'), InputInv', HelpersOK',
         \/ job' = None
         \/ /\ job' \in Job /\ (job'.at \in HelperPoints => job'.left # <<>>)
            /\ job'.request = job.request /\ job'.goal = job.goal /\ job'.by = job.by
            /\ HelpersOnly(rec, job, op) => job'.at \in HelperPoints \cup {"helpers", "done"}
            /\ ProgramOnly(rec, job, op) => job'.at \in ProgramPoints
            /\ job'.at = "done" /\ Installs(rec, job, op) => current = job.goal
            /\ Ready(exit, job', op) => ReadyNow
  PROVE  Owed
<1>1. RecInv' /\ HostInv' /\ WorkInv' /\ OrphansInv' /\ IngressInv' /\ OtherOK' /\ RunsClaim
  BY DEF IInv, Around, Still, RecInv, HostInv, WorkInv, OrphansInv, IngressInv, OtherOK, RunsClaim
<1>2. WatchInv'
  BY DEF IInv, WatchInv, WatchOK
<1>3. ChainClaim
  <2>1. UNCHANGED <<Path(current), Path(rec.receipt)>>
    BY DEF Around, Still
  <2>. QED  BY <2>1 DEF ChainClaim
<1>4. CASE job' = None
  BY <1>1, <1>2, <1>3, <1>4 DEF Owed, IInv, Around, JobInv, JobOK, OpInv, OpOK, ProofInv, ProofOK, Ready
<1>5. CASE job' # None
  <2>1. op # None /\ op' = op
    BY <1>5 DEF IInv, JobInv, JobOK, Around
  <2>2. JobInv'
    <3>1. HelpersOnly(rec, job', op) \/ ProgramOnly(rec, job', op) \/ Installs(rec, job', op)
      BY <1>5 DEF IInv, JobInv, JobOK, HelpersOnly, ProgramOnly, Installs
    <3>2. Installs(rec, job', op) => Installs(rec, job, op)
      BY <1>5 DEF Installs
    <3>. QED  BY <1>5, <2>1, <3>1, <3>2 DEF Around, Still, JobInv, JobOK
  <2>3. OpInv'
    <3>1. OpOK(rec, files, current, job', op, ingress)
      BY <1>5 DEF IInv, OpInv, OpOK
    <3>. QED  BY <2>1, <3>1 DEF Around, Still, OpInv
  <2>4. ProofInv'
    BY <1>5, <2>1 DEF IInv, Still, ProofInv, ProofOK, ReadyNow
  <2>. QED  BY <1>1, <1>2, <1>3, <2>2, <2>3, <2>4 DEF Owed, IInv
<1>. QED  BY <1>4, <1>5

\* The job goes to its next point.
LEMMA JobHas ==
  ASSUME IInv, job # None
  PROVE  /\ job \in Job /\ op # None
         /\ job.at \in HelperPoints => Helper \in Helpers /\ Tail(job.left) \in Seq(Helpers)
         /\ \A point \in Points :
              /\ Goto(point) \in Job /\ Goto(point).at = point /\ Goto(point).left = job.left
              /\ Goto(point).request = job.request /\ Goto(point).goal = job.goal
              /\ Goto(point).by = job.by
         /\ faults \in 0..MaxFaults /\ PendingOK(pending) /\ PendingOK(None)
         /\ InputInv /\ HelpersOK
<1>1. job \in Job /\ op # None /\ (job.at \in HelperPoints => job.left # <<>>)
  BY DEF IInv, JobInv, JobOK
<1>2. job.at \in HelperPoints => Helper \in Helpers /\ Tail(job.left) \in Seq(Helpers)
  BY <1>1 DEF Job, Helper
<1>. QED  BY <1>1, <1>2, Idle DEF IInv, Goto, Job

\* A command on a helper, carried out, not at all, or in part.
LEMMA HelperEffectStep ==
  ASSUME IInv, job # None, job.at \in HelperPoints, Around, NEW after, NEW torn, NEW next,
         HelperEffect(after, torn, next),
         \A copies \in {after} \cup torn : CopiesOK(copies), UploadOK(after, next),
         next = NextHelper \/ \E point \in HelperPoints : next = Goto(point)
  PROVE  Owed
<1>1. Still /\ UNCHANGED <<input, work, exit>>
  BY DEF HelperEffect, installer, Still
<1>2. faults' \in 0..MaxFaults /\ PendingOK(pending')
  <2>1. <<job.at, Helper>> \in Effects
    BY JobHas DEF Effects, Job
  <2>. QED
    BY <2>1, JobHas, StagingAssumption DEF HelperEffect, Acknowledged, Interrupted, PendingOK
<1>3. /\ CopiesOK(helper') /\ UploadOK(helper', job')
      /\ job' = None \/ (job' = next /\ helper' = after)
  BY JobHas DEF HelperEffect, Acknowledged, Interrupted, HelpersOK, UploadOK
<1>4. next \in Job /\ next.at \in HelperPoints \cup {"helpers"} /\ (next.at \in HelperPoints => next.left # <<>>)
      /\ next.request = job.request /\ next.goal = job.goal /\ next.by = job.by
  <2>1. CASE next = NextHelper
    BY <2>1, JobHas DEF NextHelper, Job, Points, HelperPoints
  <2>2. ASSUME NEW point \in HelperPoints, next = Goto(point)
        PROVE  /\ next \in Job /\ next.at = point /\ next.left # <<>>
               /\ next.request = job.request /\ next.goal = job.goal /\ next.by = job.by
    <3>1. point \in Points
      BY DEF HelperPoints, Points
    <3>. QED  BY <2>2, <3>1, JobHas DEF IInv, JobInv, JobOK
  <2>. QED  BY <2>1, <2>2
<1>5. InputInv' /\ HelpersOK'
  BY <1>1, <1>3, JobHas DEF Around, InputInv, HelpersOK
<1>6. /\ ~ProgramOnly(rec, job, op) /\ ~Ready(exit, next, op) /\ next.at # "done"
      /\ job.at # "running"
  BY <1>4, JobHas, StagingAssumption DEF ProgramOnly, ProgramPoints, HelperPoints, Ready
<1>. QED  BY <1>1, <1>2, <1>3, <1>4, <1>5, <1>6, JobGoes

\* A copy that is put in its place.
LEMMA CopyPut ==
  ASSUME IInv, job # None, job.at \in HelperPoints, NEW place \in Places, NEW copy \in Copies,
         place = "installed" => copy = Whole("root")
  PROVE  /\ CopiesOK(Put(place, copy))
         /\ Put(place, copy)[Helper]["upload"] = IF place = "upload" THEN copy ELSE Copy("upload")
<1>1. /\ helper \in [Helpers -> [Places -> Copies]] /\ Helper \in Helpers
      /\ \A h \in Helpers : helper[h]["installed"] \in {None, Whole("root")}
  BY JobHas DEF HelpersOK, CopiesOK
<1>2. Put(place, copy) = [helper EXCEPT ![Helper] = [helper[Helper] EXCEPT ![place] = copy]]
  BY <1>1 DEF Put
<1>3. Put(place, copy) \in [Helpers -> [Places -> Copies]]
  BY <1>1, <1>2
<1>4. \A h \in Helpers : Put(place, copy)[h]["installed"] \in {None, Whole("root")}
  BY <1>1, <1>2 DEF Places
<1>5. Put(place, copy)[Helper]["upload"] = IF place = "upload" THEN copy ELSE Copy("upload")
  BY <1>1, <1>2 DEF Copy, Places
<1>. QED  BY <1>3, <1>4, <1>5 DEF CopiesOK

\* A step that only reads.
LEMMA JobReads ==
  ASSUME IInv, job # None, job.at # "running", Around, Refuse \/ Proceed(job'),
         \/ job' = None
         \/ /\ job' \in Job /\ (job'.at \in HelperPoints => job'.left # <<>>)
            /\ job'.request = job.request /\ job'.goal = job.goal /\ job'.by = job.by
            /\ HelpersOnly(rec, job, op) => job'.at \in HelperPoints \cup {"helpers", "done"}
            /\ ProgramOnly(rec, job, op) => job'.at \in ProgramPoints
            /\ job'.at = "done" /\ Installs(rec, job, op) => current = job.goal
            /\ Ready(exit, job', op) => ReadyNow
            /\ job'.at \notin {"clear-atomic", "prepare"}
  PROVE  Owed
<1>1. /\ Still /\ UNCHANGED <<input, work, exit, helper, faults, pending>>
  BY DEF Refuse, Proceed, remote, installer, Still
<1>2. HelpersOK' /\ InputInv'
  BY <1>1, JobHas DEF Around, HelpersOK, UploadOK, InputInv
<1>. QED  BY <1>1, <1>2, JobHas, JobGoes

LEMMA InspectHelperStep ==
  ASSUME IInv, InspectHelper, Around  PROVE  Owed
<1>1. /\ job # None /\ job.at = "helpers" /\ job.left # <<>>
      /\ Refuse \/ Proceed(job')
      /\ job' \in {None, Goto("clear-upload"), NextHelper}
  BY DEF InspectHelper, At, Refuse, Proceed
<1>2. /\ ~ProgramOnly(rec, job, op)
  BY <1>1 DEF ProgramOnly, ProgramPoints
<1>3. CASE job' = None
  BY <1>1, <1>3, JobReads
<1>4. CASE job' = Goto("clear-upload")
  <2>1. "clear-upload" \in Points /\ "clear-upload" \in HelperPoints
    BY DEF Points, HelperPoints
  <2>. QED  BY <1>1, <1>2, <1>4, <2>1, JobHas, JobReads, StagingAssumption DEF Ready
<1>5. CASE job' = NextHelper
  <2>1. /\ job' \in Job /\ job'.at = "helpers" /\ job'.request = job.request /\ job'.goal = job.goal
        /\ job'.by = job.by
    <3>1. job \in Job /\ job.left \in Seq(Helpers) /\ Tail(job.left) \in Seq(Helpers)
      BY <1>1, JobHas DEF Job
    <3>. QED  BY <1>5, <3>1 DEF NextHelper, Job, Points
  <2>2. "helpers" \notin HelperPoints
    BY DEF HelperPoints
  <2>. QED  BY <1>1, <1>2, <1>5, <2>1, <2>2, JobReads, StagingAssumption DEF Ready
<1>. QED  BY <1>1, <1>3, <1>4, <1>5

LEMMA HelpersReadyStep ==
  ASSUME IInv, HelpersReady, Around  PROVE  Owed
<1>. DEFINE point == IF job.request = None THEN "done" ELSE "receipt"
<1>1. job # None /\ job.at = "helpers" /\ Proceed(Goto(point)) /\ job' = Goto(point) /\ point \in Points
  BY DEF HelpersReady, At, Proceed, Points
<1>2. ~ProgramOnly(rec, job, op) /\ point \notin HelperPoints
  BY <1>1 DEF ProgramOnly, ProgramPoints, HelperPoints
<1>3. HelpersOnly(rec, job, op) => point = "done"
  BY DEF HelpersOnly
<1>4. Installs(rec, job, op) => point = "receipt"
  <2>1. Installs(rec, job, op) => job.request \in {First(rec), Second(rec), Third(rec)}
    BY DEF Installs
  <2>2. job.request = None => ~Installs(rec, job, op)
    <3>1. Installs(rec, job, op) => job.request \in Requests
      BY Idle, Stages, ReceiptsTyped DEF Installs, First, Second, Third, Request, Requests,
         RecOK, Virgin, AtOrigin, Beyond, Before, After, Back
    <3>. QED  BY <3>1, InstallerAssumption
  <2>. QED  BY <2>2
<1>5. Ready(exit, job', op) => FALSE
  <2>1. HelpersOnly(rec, job, op) => op.at # "read"
    BY DEF HelpersOnly
  <2>2. Installs(rec, job, op) => op.at # "read"
    BY DEF Installs
  <2>. QED  BY <1>1, <1>2, <2>1, <2>2 DEF Ready, IInv, JobInv, JobOK
<1>. QED  BY <1>1, <1>2, <1>3, <1>4, <1>5, JobHas, JobReads

\* Every command on a helper leaves a whole executable in place, or none.
LEMMA CommandStep ==
  ASSUME IInv, Around,
         ClearUpload \/ StageHelper \/ ProtectHelper \/ ClearAtomic \/ PrepareAtomic \/ ActivateHelper
  PROVE  Owed
<1>1. /\ job # None /\ job.at \in HelperPoints /\ None \in Copies
      /\ \A mode \in Modes : Whole(mode) \in Copies /\ CutOff(mode) \in Copies
  BY DEF ClearUpload, StageHelper, ProtectHelper, ClearAtomic, PrepareAtomic, ActivateHelper, At, HelperPoints,
     Copies, Whole, CutOff
<1>2. \A point \in HelperPoints : point \in Points
  BY DEF HelperPoints, Points
<1>3. /\ "upload" \in Places /\ "atomic" \in Places /\ "installed" \in Places
      /\ "staged" \in Modes /\ "protected" \in Modes /\ "root" \in Modes
      /\ {"clear-upload", "stage", "protect", "clear-atomic", "prepare", "activate"} = HelperPoints
  BY DEF Places, Modes, HelperPoints
<1>4. ASSUME Refuse  PROVE Owed
  <2>1. job' = None
    BY <1>4 DEF Refuse
  <2>2. job.at # "running"
    BY <1>1 DEF HelperPoints
  <2>. QED  BY <1>1, <1>4, <2>1, <2>2, JobReads
<1>5. CASE ClearUpload
  <2>1. HelperEffect(Put("upload", None), {}, Goto("stage"))
    BY <1>5 DEF ClearUpload
  <2>2. CopiesOK(Put("upload", None))
    BY <1>1, <1>3, CopyPut
  <2>3. UploadOK(Put("upload", None), Goto("stage"))
    BY <1>2, <1>3, <1>1, JobHas DEF UploadOK
  <2>. QED  BY <1>1, <1>3, <2>1, <2>2, <2>3, HelperEffectStep
<1>6. CASE StageHelper
  <2>1. HelperEffect(Put("upload", Whole("staged")), {Put("upload", CutOff("staged"))}, Goto("protect"))
    BY <1>6 DEF StageHelper
  <2>2. CopiesOK(Put("upload", Whole("staged"))) /\ CopiesOK(Put("upload", CutOff("staged")))
    BY <1>1, <1>3, CopyPut
  <2>3. UploadOK(Put("upload", Whole("staged")), Goto("protect"))
    BY <1>2, <1>3, <1>1, JobHas DEF UploadOK
  <2>. QED  BY <1>1, <1>3, <2>1, <2>2, <2>3, HelperEffectStep
<1>7. CASE ProtectHelper /\ Copy("upload") = Whole("staged")
  <2>1. HelperEffect(Put("upload", Whole("protected")), {}, Goto("clear-atomic"))
    BY <1>7 DEF ProtectHelper
  <2>2. /\ CopiesOK(Put("upload", Whole("protected")))
        /\ Put("upload", Whole("protected"))[Helper]["upload"] = Whole("protected")
    BY <1>1, <1>3, CopyPut
  <2>3. UploadOK(Put("upload", Whole("protected")), Goto("clear-atomic"))
    BY <1>2, <1>3, <1>1, <2>2, JobHas DEF UploadOK, Helper
  <2>. QED  BY <1>1, <1>3, <2>1, <2>2, <2>3, HelperEffectStep
<1>8. CASE ClearAtomic
  <2>1. HelperEffect(Put("atomic", None), {}, Goto("prepare")) /\ job.at = "clear-atomic"
    BY <1>8 DEF ClearAtomic, At
  <2>2. Copy("upload") = Whole("protected")
    BY <1>1, <2>1, JobHas DEF HelpersOK, UploadOK, Copy, Helper
  <2>3. CopiesOK(Put("atomic", None)) /\ Put("atomic", None)[Helper]["upload"] = Whole("protected")
    BY <1>1, <1>3, <2>2, CopyPut
  <2>4. UploadOK(Put("atomic", None), Goto("prepare"))
    BY <1>2, <1>3, <1>1, <2>3, JobHas DEF UploadOK, Helper
  <2>. QED  BY <1>1, <1>3, <2>1, <2>3, <2>4, HelperEffectStep
<1>9. CASE PrepareAtomic
  <2>. DEFINE copied == [Copy("upload") EXCEPT !.mode = "root"]
  <2>1. /\ HelperEffect(Put("atomic", copied), {Put("atomic", CutOff("root"))}, Goto("activate"))
        /\ job.at = "prepare"
    BY <1>9 DEF PrepareAtomic, At
  <2>2. Copy("upload") = Whole("protected")
    BY <1>1, <2>1, JobHas DEF HelpersOK, UploadOK, Copy, Helper
  <2>3. copied = Whole("root")
    <3>. DEFINE Files == [whole : BOOLEAN, mode : Modes]
    <3>1. Copy("upload") \in Files /\ Copy("upload").whole = TRUE
      <4>1. Whole("protected") \in Files /\ Whole("protected").whole = TRUE
        BY DEF Whole, Modes
      <4>. QED  BY <2>2, <4>1
    <3>2. copied \in Files /\ copied.whole = TRUE /\ copied.mode = "root"
      BY <3>1 DEF Modes
    <3>3. \A x \in Files : x.whole = TRUE /\ x.mode = "root" => x = Whole("root")
      BY DEF Whole
    <3>. QED  BY <3>2, <3>3
  <2>4. CopiesOK(Put("atomic", copied)) /\ CopiesOK(Put("atomic", CutOff("root")))
    BY <1>1, <1>3, <2>3, CopyPut
  <2>5. UploadOK(Put("atomic", copied), Goto("activate"))
    BY <1>2, <1>3, <1>1, JobHas DEF UploadOK
  <2>. QED  BY <1>1, <1>3, <2>1, <2>4, <2>5, HelperEffectStep
<1>10. CASE ActivateHelper /\ Copy("atomic") = Whole("root")
  <2>. DEFINE after == [helper EXCEPT ![Helper] = [@ EXCEPT !["installed"] = Copy("atomic"), !["atomic"] = None]]
  <2>1. HelperEffect(after, {}, NextHelper) \/ Refuse
    BY <1>10 DEF ActivateHelper
  <2>2. CopiesOK(after)
    <3>1. /\ helper \in [Helpers -> [Places -> Copies]] /\ Helper \in Helpers
          /\ \A h \in Helpers : helper[h]["installed"] \in {None, Whole("root")}
      BY <1>1, JobHas DEF HelpersOK, CopiesOK
    <3>2. /\ after \in [Helpers -> [Places -> Copies]]
          /\ \A h \in Helpers : after[h]["installed"] \in {None, Whole("root")}
      BY <1>1, <1>3, <1>10, <3>1 DEF Places
    <3>. QED  BY <3>2 DEF CopiesOK
  <2>3. NextHelper.at = "helpers"
    BY <1>1, JobHas DEF NextHelper, Job
  <2>4. UploadOK(after, NextHelper)
    BY <2>3 DEF UploadOK
  <2>. QED  BY <1>1, <1>4, <2>1, <2>2, <2>4, HelperEffectStep
<1>. QED
  BY <1>4, <1>5, <1>6, <1>7, <1>8, <1>9, <1>10 DEF ProtectHelper, ActivateHelper

\* A job that looks after the inputs of the installer asks for what the target has sent.
LEMMA InputJob ==
  ASSUME IInv, job # None, job.at \in {"receipt", "clear-inputs", "bundle", "request"}
  PROVE  /\ Installs(rec, job, op) /\ ~HelpersOnly(rec, job, op) /\ ~ProgramOnly(rec, job, op)
         /\ op.at = "record" /\ job.request \in Sent(rec) /\ job.request \in Requests /\ job.request.rel \in Releases
<1>1. Installs(rec, job, op) /\ ~HelpersOnly(rec, job, op) /\ ~ProgramOnly(rec, job, op)
  BY DEF IInv, JobInv, JobOK, HelpersOnly, ProgramOnly, HelperPoints, ProgramPoints
<1>2. rec.phase = "UpdateInstalling" => Beyond(rec)
  BY Idle DEF RecOK, Virgin, AtOrigin, Back, Before, After
<1>3. rec.phase = "RollbackInstalling" => Beyond(rec) /\ Returning(rec)
  BY Idle DEF RecOK, Virgin, AtOrigin, Back, Before, After, Returning, RollbackPhases
<1>4. \A release \in Releases, receipt \in Receipts :
        Request(release, receipt) \in Requests /\ Request(release, receipt).rel \in Releases
  BY DEF Request, Requests
<1>5. job.request \in Requests /\ job.request.rel \in Releases
  <2>1. First(rec) \in Requests /\ First(rec).rel \in Releases
    BY <1>4, Idle, ReceiptsTyped DEF First
  <2>2. Beyond(rec) => Second(rec) \in Requests /\ Second(rec).rel \in Releases
    BY <1>4, Idle, ReceiptsTyped DEF Second
  <2>3. Beyond(rec) => Third(rec) \in Requests /\ Third(rec).rel \in Releases
    BY <1>4, Idle, ReceiptsTyped DEF Third
  <2>. QED  BY <1>1, <1>2, <1>3, <2>1, <2>2, <2>3 DEF Installs
<1>6. job.request \in Sent(rec)
  BY <1>1, <1>2, <1>3, <1>5 DEF Installs, Sent
<1>. QED  BY <1>1, <1>5, <1>6 DEF Installs

LEMMA ReadReceiptStep ==
  ASSUME IInv, ReadReceipt, Around  PROVE  Owed
<1>1. /\ job # None /\ job.at = "receipt"
      /\ Refuse \/ Proceed(job')
      /\ job' \in {None, Goto("bundle"), Goto("clear-inputs")} \/ (job' = Goto("done") /\ current = job.goal)
  BY DEF ReadReceipt, At, Refuse, Proceed
<1>2. {"done", "bundle", "clear-inputs"} \subseteq Points \ HelperPoints
  BY DEF Points, HelperPoints
<1>3. Installs(rec, job, op) /\ ~HelpersOnly(rec, job, op) /\ ~ProgramOnly(rec, job, op) /\ op.at = "record"
  BY <1>1, InputJob
<1>4. ~Ready(exit, job', op)
  BY <1>3 DEF Ready
<1>5. CASE job' = None
  BY <1>1, <1>5, JobReads
<1>6. ASSUME NEW point \in {"bundle", "clear-inputs", "done"}, job' = Goto(point),
             point = "done" => current = job.goal
      PROVE  Owed
  <2>1. /\ job' \in Job /\ job'.at = point /\ point \notin HelperPoints
        /\ job'.request = job.request /\ job'.goal = job.goal /\ job'.by = job.by
    BY <1>1, <1>2, <1>6, JobHas
  <2>. QED  BY <1>1, <1>3, <1>4, <1>6, <2>1, JobReads
<1>. QED  BY <1>1, <1>5, <1>6

\* A command on the inputs, carried out, not at all, or in part.
LEMMA InputEffectStep ==
  ASSUME IInv, job # None, job.at \in {"clear-inputs", "bundle", "request"}, Around, NEW id \in Effects,
         NEW after, NEW torn, NEW next \in {job, Goto("bundle")}, InputEffect(id, after, torn, next),
         \A files2 \in {after} \cup torn : InputOK(rec, files2)
  PROVE  Owed
<1>1. Still /\ UNCHANGED <<helper, work, exit>>
  BY DEF InputEffect, Still
<1>2. faults' \in 0..MaxFaults /\ PendingOK(pending')
  BY JobHas, StagingAssumption DEF InputEffect, Acknowledged, Interrupted, PendingOK
<1>3. InputOK(rec, input') /\ job' \in {None, next}
  BY JobHas DEF InputEffect, Acknowledged, Interrupted, InputInv
<1>4. /\ next \in Job /\ next.at \in {"clear-inputs", "bundle", "request"}
      /\ next.request = job.request /\ next.goal = job.goal /\ next.by = job.by
  <2>1. "bundle" \in Points
    BY DEF Points
  <2>. QED  BY <2>1, JobHas
<1>5. InputInv' /\ HelpersOK'
  BY <1>1, <1>3, <1>4, JobHas DEF Around, InputInv, HelpersOK, UploadOK
<1>6. next.at \notin HelperPoints /\ ~Ready(exit, next, op) /\ job.at # "running" /\ next.at # "done"
  BY <1>4, InputJob DEF HelperPoints, Ready
<1>. QED  BY <1>1, <1>2, <1>3, <1>4, <1>5, <1>6, InputJob, JobGoes

LEMMA ClearInputsStep ==
  ASSUME IInv, ClearInputs, Around  PROVE  Owed
<1>1. /\ job # None /\ job.at = "clear-inputs"
      /\ InputEffect(<<"clear-inputs">>, [i \in InputNames |-> None], {[input EXCEPT !["bundle"] = None]}, Goto("bundle"))
  BY DEF ClearInputs, At
<1>2. <<"clear-inputs">> \in Effects
  BY DEF Effects, Points
<1>3. InputOK(rec, [i \in InputNames |-> None]) /\ InputOK(rec, [input EXCEPT !["bundle"] = None])
  BY <1>1, JobHas DEF InputInv, InputOK, HoldsOK, Inputs, InputNames
<1>. QED  BY <1>1, <1>2, <1>3, InputEffectStep

\* A file of the two that is written for the request of the job.
LEMMA InputPut ==
  ASSUME IInv, job # None, NEW name \in InputNames, job.at = name, NEW mode \in Modes
  PROVE  /\ InputOK(rec, [input EXCEPT ![name] = [holds |-> Material(name), mode |-> mode]])
         /\ InputOK(rec, [input EXCEPT ![name] = [holds |-> Torn, mode |-> "staged"]])
<1>1. job.at \in {"receipt", "clear-inputs", "bundle", "request"}
  BY DEF InputNames
<1>2. /\ input \in [InputNames -> Inputs] /\ \A i \in InputNames : HoldsOK(rec, i, input[i])
      /\ job.request \in Sent(rec) /\ job.request \in Requests /\ job.request.rel \in Releases
      /\ "staged" \in Modes
  BY <1>1, InputJob, JobHas DEF InputInv, InputOK, Modes
<1>3. ASSUME NEW file \in Inputs, HoldsOK(rec, name, file)
      PROVE  InputOK(rec, [input EXCEPT ![name] = file])
  BY <1>2, <1>3 DEF InputOK
<1>4. [holds |-> Torn, mode |-> "staged"] \in Inputs /\ HoldsOK(rec, name, [holds |-> Torn, mode |-> "staged"])
  BY <1>2 DEF Inputs, HoldsOK
<1>5. CASE name = "bundle"
  <2>1. Material(name) = <<job.request.rel>>
    BY <1>5 DEF Material
  <2>2. [holds |-> Material(name), mode |-> mode] \in [holds : {<<x>> : x \in Releases}, mode : Modes]
    BY <1>2, <2>1
  <2>3. [holds |-> Material(name), mode |-> mode] \in Inputs
    BY <1>2, <2>1 DEF Inputs
  <2>. QED  BY <1>3, <1>4, <1>5, <2>2, <2>3 DEF HoldsOK
<1>6. CASE name = "request"
  <2>1. Material(name) = <<job.request>>
    BY <1>6 DEF Material
  <2>2. [holds |-> Material(name), mode |-> mode] \in [holds : {<<q>> : q \in Sent(rec)}, mode : Modes]
    BY <1>2, <2>1
  <2>3. [holds |-> Material(name), mode |-> mode] \in Inputs
    BY <1>2, <2>1 DEF Inputs
  <2>. QED  BY <1>3, <1>4, <1>6, <2>2, <2>3 DEF HoldsOK
<1>. QED  BY <1>5, <1>6 DEF InputNames

LEMMA ReconcileInputStep ==
  ASSUME IInv, NEW name \in InputNames, ReconcileInput(name), Around  PROVE  Owed
<1>. DEFINE with(mode) == [input EXCEPT ![name] = [holds |-> Material(name), mode |-> mode]]
            torn == [input EXCEPT ![name] = [holds |-> Torn, mode |-> "staged"]]
<1>1. job # None /\ job.at = name /\ job.at \in {"receipt", "clear-inputs", "bundle", "request"}
  BY DEF ReconcileInput, At, InputNames
<1>2. /\ <<"stage", name>> \in Effects /\ <<"protect", name>> \in Effects /\ <<"own", name>> \in Effects
      /\ "staged" \in Modes /\ "protected" \in Modes /\ "root" \in Modes
  BY DEF Effects, Modes
<1>3. InputOK(rec, torn) /\ \A mode \in Modes : InputOK(rec, with(mode))
  BY <1>1, <1>2, InputPut
<1>4. CASE InputEffect(<<"stage", name>>, with("staged"), {torn}, job)
  <2>1. \A files2 \in {with("staged")} \cup {torn} : InputOK(rec, files2)
    BY <1>2, <1>3
  <2>2. job.at \in {"clear-inputs", "bundle", "request"}
    BY <1>1 DEF InputNames
  <2>. HIDE DEF with, torn
  <2>. QED  BY <1>1, <1>2, <1>4, <2>1, <2>2, InputEffectStep
<1>5. CASE InputEffect(<<"protect", name>>, with("protected"), {}, job)
  BY <1>1, <1>2, <1>3, <1>5, InputEffectStep DEF InputNames
<1>6. CASE InputEffect(<<"own", name>>, with("root"), {}, job)
  BY <1>1, <1>2, <1>3, <1>6, InputEffectStep DEF InputNames
<1>7. CASE Proceed(Goto(AfterInput(name)))
  <2>1. AfterInput(name) \in Points /\ AfterInput(name) \notin HelperPoints /\ AfterInput(name) # "done"
    BY DEF AfterInput, Points, HelperPoints
  <2>2. job' = Goto(AfterInput(name)) /\ AfterInput(name) \notin {"clear-atomic", "prepare"}
    BY <1>7 DEF Proceed, AfterInput
  <2>3. /\ ~Ready(exit, job', op) /\ job.at # "running"
        /\ Installs(rec, job, op) /\ ~HelpersOnly(rec, job, op) /\ ~ProgramOnly(rec, job, op)
    BY <1>1, InputJob DEF Ready
  <2>4. Proceed(job')
    BY <1>7, <2>2
  <2>5. /\ job' \in Job /\ job'.at = AfterInput(name)
        /\ job'.request = job.request /\ job'.goal = job.goal /\ job'.by = job.by
    BY <1>1, <2>1, <2>2, JobHas
  <2>. QED  BY <1>1, <2>1, <2>2, <2>3, <2>4, <2>5, JobReads
<1>8. CASE Refuse
  <2>1. job' = None /\ job.at # "running"
    BY <1>1, <1>8 DEF Refuse
  <2>. QED  BY <1>1, <1>8, <2>1, JobReads
<1>9. \/ InputEffect(<<"stage", name>>, with("staged"), {torn}, job)
      \/ InputEffect(<<"protect", name>>, with("protected"), {}, job)
      \/ InputEffect(<<"own", name>>, with("root"), {}, job)
      \/ Proceed(Goto(AfterInput(name)))
      \/ Refuse
  BY Zenon DEF ReconcileInput
<1>. QED  BY <1>4, <1>5, <1>6, <1>7, <1>8, <1>9

LEMMA StartInstallerStep ==
  ASSUME IInv, StartInstaller, Around  PROVE  Owed
<1>1. /\ job # None /\ job.at = "installer" /\ job' = Goto("waiting") /\ pending' = <<job.by>>
      /\ Still /\ UNCHANGED <<input, helper, work, exit, faults>>
  BY DEF StartInstaller, At, remote, installer, Still
<1>2. "waiting" \in Points /\ "waiting" \notin HelperPoints /\ "waiting" \in ProgramPoints
  BY DEF Points, HelperPoints, ProgramPoints
<1>3. /\ job' \in Job /\ job'.at = "waiting" /\ job'.request = job.request /\ job'.goal = job.goal
      /\ job'.by = job.by
  BY <1>1, <1>2, JobHas
<1>4. ~HelpersOnly(rec, job, op)
  BY <1>1 DEF HelpersOnly, HelperPoints
<1>5. PendingOK(pending')
  BY <1>1, JobHas DEF PendingOK, Effects, Job
<1>6. InputInv' /\ HelpersOK'
  BY <1>1, <1>3, JobHas DEF Around, InputInv, HelpersOK, UploadOK
<1>7. ~Ready(exit, job', op)
  BY <1>3, StagingAssumption DEF Ready
<1>. QED  BY <1>1, <1>2, <1>3, <1>4, <1>5, <1>6, <1>7, JobHas, JobGoes

LEMMA ReadInstalledStep ==
  ASSUME IInv, ReadInstalled, Around  PROVE  Owed
<1>1. /\ job # None /\ job.at = "installed"
      /\ Refuse \/ Proceed(job')
      /\ job' = None \/ (job' = Goto("done") /\ current = job.goal)
  BY DEF ReadInstalled, At, Refuse, Proceed
<1>2. "done" \in Points /\ "done" \notin HelperPoints /\ "done" \in ProgramPoints
  BY DEF Points, HelperPoints, ProgramPoints
<1>3. CASE job' = None
  BY <1>1, <1>3, JobReads
<1>4. CASE job' = Goto("done") /\ current = job.goal
  <2>1. /\ job' \in Job /\ job'.at = "done" /\ job'.request = job.request /\ job'.goal = job.goal
        /\ job'.by = job.by
    BY <1>2, <1>4, <1>1, JobHas
  <2>2. Ready(exit, job', op) => ReadyNow
    BY <1>1 DEF Ready, ReadyNow
  <2>. QED  BY <1>1, <1>2, <1>4, <2>1, <2>2, JobReads
<1>. QED  BY <1>1, <1>3, <1>4

\* The program of the job takes the lock: what it may prove is not read before it ends.
LEMMA TakesLockStep ==
  ASSUME IInv, InstallerTakesLock, Around  PROVE  Owed
<1>1. /\ job # None /\ job.at = "waiting" /\ job' = Goto("running") /\ exit' = None /\ work = None
      /\ work' = [by |-> job.by, at |-> "start", watched |-> TRUE, request |-> None, receipt |-> <<>>]
      /\ Still /\ UNCHANGED <<input, helper, pending, faults>>
  BY DEF InstallerTakesLock, TakeLock, At, Still
<1>2. "running" \in Points /\ "running" \notin HelperPoints /\ "running" \in ProgramPoints
  BY DEF Points, HelperPoints, ProgramPoints
<1>3. /\ job' \in Job /\ job'.at = "running" /\ job'.request = job.request /\ job'.goal = job.goal
      /\ job'.by = job.by /\ job' # None /\ op' = op /\ op # None /\ job.by \in Programs
  BY <1>1, <1>2, JobHas, StagingAssumption DEF Around, Job
<1>4. job.by \in Repairs => Mended(rec)
  BY <1>1 DEF IInv, JobInv, JobOK, HelpersOnly, HelperPoints, ProgramOnly, Installs, Repairs
<1>5. WorkInv'
  <2>1. work' \in Work
    BY <1>1, <1>3, ReceiptsTyped DEF Work, Steps
  <2>. QED  BY <1>1, <1>3, <1>4, <2>1 DEF Around, WorkInv, WorkOK, Installers, Repairs
<1>6. WatchInv'
  BY <1>1, <1>3 DEF WatchInv, WatchOK
<1>7. JobInv'
  <2>1. HelpersOnly(rec, job', op) \/ ProgramOnly(rec, job', op) \/ Installs(rec, job', op)
    BY <1>1, <1>2, <1>3 DEF IInv, JobInv, JobOK, HelpersOnly, HelperPoints, ProgramOnly, Installs
  <2>. QED  BY <1>2, <1>3, <2>1 DEF Around, JobInv, JobOK
<1>8. OpInv'
  BY <1>1, <1>3 DEF IInv, Around, Still, OpInv, OpOK
<1>9. ProofInv'
  BY <1>1, <1>3, InstallerAssumption DEF ProofInv, ProofOK, Ready
<1>10. RecInv' /\ HostInv' /\ InputInv' /\ OrphansInv' /\ IngressInv' /\ OtherOK' /\ RunsClaim
  BY <1>1 DEF IInv, Around, Still, RecInv, HostInv, InputInv, OrphansInv, IngressInv, OtherOK, RunsClaim
<1>11. HelpersOK'
  BY <1>1, <1>3 DEF IInv, HelpersOK, UploadOK
<1>12. ChainClaim
  <2>1. UNCHANGED <<Path(current), Path(rec.receipt)>>
    BY <1>1 DEF Around, Still
  <2>. QED  BY <2>1 DEF ChainClaim
<1>. QED  BY <1>5, <1>6, <1>7, <1>8, <1>9, <1>10, <1>11, <1>12 DEF Owed, IInv

\* The deployer learns how its program has ended.
LEMMA EndedStep ==
  ASSUME IInv, InstallerEnded, Around  PROVE  Owed
<1>1. /\ job # None /\ job.at = "running" /\ exit # None /\ exit' = None
      /\ job' = IF exit = "ok" THEN Goto("installed") ELSE None
      /\ pending' \in {None, pending}
      /\ Still /\ UNCHANGED <<input, helper, work, faults>>
  BY DEF InstallerEnded, At, Still
<1>2. "installed" \in Points /\ "installed" \notin HelperPoints /\ "installed" \in ProgramPoints
  BY DEF Points, HelperPoints, ProgramPoints
<1>3. work # None => ~work.watched
  BY <1>1 DEF IInv, WatchInv, WatchOK
<1>4. RecInv' /\ HostInv' /\ InputInv' /\ WorkInv' /\ OrphansInv' /\ IngressInv' /\ RunsClaim
  BY <1>1 DEF IInv, Around, Still, RecInv, HostInv, InputInv, WorkInv, OrphansInv, IngressInv, RunsClaim
<1>5. OtherOK' /\ WatchInv'
  BY <1>1, <1>3, Idle DEF IInv, Around, Still, OtherOK, WatchInv, WatchOK
<1>6. ChainClaim
  <2>1. UNCHANGED <<Path(current), Path(rec.receipt)>>
    BY <1>1 DEF Around, Still
  <2>. QED  BY <2>1 DEF ChainClaim
<1>7. CASE job' = None
  <2>1. op' = None
    BY <1>7 DEF Around
  <2>2. JobInv' /\ OpInv' /\ ProofInv' /\ HelpersOK'
    BY <1>1, <1>7, <2>1, JobHas DEF JobInv, JobOK, OpInv, OpOK, ProofInv, ProofOK, Ready, HelpersOK, UploadOK
  <2>. QED  BY <1>4, <1>5, <1>6, <2>2 DEF Owed, IInv
<1>8. CASE job' = Goto("installed") /\ exit = "ok"
  <2>1. /\ job' \in Job /\ job'.at = "installed" /\ job'.request = job.request /\ job'.goal = job.goal
        /\ job'.by = job.by /\ job' # None /\ op' = op /\ op # None
    BY <1>1, <1>2, <1>8, JobHas, StagingAssumption DEF Around
  <2>2. JobInv'
    <3>1. HelpersOnly(rec, job', op) \/ ProgramOnly(rec, job', op) \/ Installs(rec, job', op)
      BY <1>1, <1>2, <2>1 DEF IInv, JobInv, JobOK, HelpersOnly, HelperPoints, ProgramOnly, Installs
    <3>. QED  BY <1>2, <2>1, <3>1 DEF Around, JobInv, JobOK
  <2>3. OpInv'
    BY <1>1, <2>1 DEF IInv, Around, Still, OpInv, OpOK
  <2>4. ProofInv'
    <3>1. Ready(exit', job', op') => ReadyNow
      BY <1>1, <1>8, <2>1 DEF Ready, ReadyNow
    <3>2. ReadyNow => SoundInv
      BY DEF IInv, ProofInv, ProofOK, ReadyNow, SoundInv
    <3>. QED  BY <1>1, <3>1, <3>2 DEF Still, ProofInv, ProofOK, SoundInv
  <2>5. HelpersOK'
    BY <1>1, <2>1, JobHas DEF HelpersOK, UploadOK
  <2>. QED  BY <1>4, <1>5, <1>6, <2>2, <2>3, <2>4, <2>5 DEF Owed, IInv
<1>. QED  BY <1>1, <1>7, <1>8

LEMMA JobStepStep ==
  ASSUME IInv, JobStep  PROVE  Owed
<1>1. Around
  BY DEF JobStep, Around, local, cloud
<1>. QED
  BY <1>1, InspectHelperStep, CommandStep, HelpersReadyStep, ReadReceiptStep, ClearInputsStep, ReconcileInputStep,
     StartInstallerStep, TakesLockStep, EndedStep, ReadInstalledStep
     DEF JobStep, EnsureHelpers, StageInstall

\* A job that is done gives the operation what it asked for.
LEMMA JobDoneStep ==
  ASSUME IInv, JobDone  PROVE  Owed
<1>1. /\ job # None /\ job.at = "done" /\ job' = None /\ UNCHANGED op
      /\ UNCHANGED <<remote, pending, faults, rec, files, ingress, addr, moves>>
  BY DEF JobDone, At, local, cloud
<1>2. UNCHANGED <<current, history, runtime, proof, transition, work, exit>>
  BY <1>1 DEF remote, installer
<1>3. RecInv' /\ HostInv' /\ IngressInv' /\ JobInv'
  BY <1>1, <1>2 DEF IInv, RecInv, HostInv, IngressInv, JobInv, JobOK
<1>4. WatchInv'
  BY <1>1, <1>2 DEF IInv, WatchInv, WatchOK
<1>5. OpInv'
  <2>1. /\ op.kind = "apply" /\ op.at = "record" /\ rec.current = None => current = Fresh(rec.desired)
        /\ op.kind = "update" /\ op.at = "record" => current = Updated(rec.desired)
        /\ op.kind = "rollback" /\ op.at = "record" => current \in {Undone(rec.desired), Redone(rec.desired)}
    BY <1>1 DEF IInv, JobInv, JobOK, HelpersOnly, ProgramOnly, Installs, Repairs
  <2>. QED  BY <1>1, <1>2, <2>1 DEF IInv, OpInv, OpOK
<1>6. Ready(exit, job', op') => ReadyNow
  BY <1>1 DEF Ready, ReadyNow
<1>7. ChainClaim
  <2>1. UNCHANGED <<Path(current), Path(rec.receipt)>>
    BY <1>1, <1>2
  <2>. QED  BY <2>1 DEF ChainClaim
<1>. QED  BY <1>1, <1>3, <1>4, <1>5, <1>6, <1>7, Idle, DeployerKeeps DEF Owed

\* A deployer that is gone leaves its programs behind.
LEMMA AbandonStep ==
  ASSUME IInv, Abandon, op' = None, UNCHANGED <<rec, files, ingress, addr, moves>>,
         faults' \in 0..MaxFaults, PendingOK(pending')
  PROVE  Owed
<1>1. job' = None /\ exit' = None
  BY DEF Abandon
<1>2. /\ UNCHANGED <<input, current, history, runtime, proof, transition, helper>>
      /\ work' = IF work = None THEN None ELSE [work EXCEPT !.watched = FALSE]
      /\ orphans' = orphans \/ (At("waiting") /\ orphans' = orphans \cup {job.by})
  BY DEF Abandon
<1>3. WorkInv'
  <2>1. CASE work = None
    BY <1>2, <2>1 DEF WorkInv, WorkOK
  <2>2. CASE work # None
    <3>1. work \in Work
      BY <2>2 DEF IInv, WorkInv, WorkOK
    <3>2. /\ work' \in Work /\ work'.by = work.by /\ work'.at = work.at /\ work'.request = work.request
          /\ work'.receipt = work.receipt
      BY <1>2, <2>2, <3>1 DEF Work
    <3>. QED  BY <1>2, <2>2, <3>2 DEF IInv, WorkInv, WorkOK, Going, Restoring, Ending
  <2>. QED  BY <2>1, <2>2
<1>4. OrphansInv'
  <2>1. job # None /\ job.at = "waiting" => job.by \in Programs /\ (job.by \in Repairs => Mended(rec))
    BY DEF IInv, JobInv, JobOK, HelpersOnly, HelperPoints, ProgramOnly, Installs, Repairs, Job
  <2>. QED  BY <1>2, <2>1 DEF IInv, OrphansInv, OrphansOK, At
<1>5. WatchInv'
  BY <1>1, <1>2 DEF IInv, WatchInv, WatchOK, WorkInv, WorkOK, Work, Abandon
<1>6. RecInv' /\ HostInv' /\ InputInv' /\ IngressInv' /\ RunsClaim
  BY <1>2 DEF IInv, RecInv, HostInv, InputInv, IngressInv, RunsClaim
<1>7. JobInv' /\ OpInv' /\ ProofInv' /\ HelpersOK'
  BY <1>2, JobHas DEF Abandon, IInv, JobInv, JobOK, OpInv, OpOK, ProofInv, ProofOK, Ready, HelpersOK, UploadOK
<1>8. OtherOK'
  BY <1>2 DEF IInv, OtherOK
<1>9. ChainClaim
  <2>1. UNCHANGED <<Path(current), Path(rec.receipt)>>
    BY <1>2
  <2>. QED  BY <2>1 DEF ChainClaim
<1>. QED  BY <1>3, <1>4, <1>5, <1>6, <1>7, <1>8, <1>9 DEF Owed, IInv

LEMMA FailStep ==
  ASSUME IInv, Fail \/ Unreachable  PROVE  Owed
<1>1. Abandon /\ op' = None /\ UNCHANGED <<rec, files, ingress, addr, moves>>
  BY DEF Fail, Unreachable, local, cloud
<1>2. faults' \in 0..MaxFaults
  BY Idle, StagingAssumption DEF Fail, Unreachable
<1>3. PendingOK(pending')
  <2>1. CASE UNCHANGED pending
    BY <2>1, Idle
  <2>2. ASSUME job # None, job.at \in {"clear-upload", "stage", "prepare"}, pending' = <<job.at, Helper>>
        PROVE  PendingOK(pending')
    BY <2>2, JobHas DEF PendingOK, Effects, HelperPoints, Points
  <2>3. ASSUME job # None, pending' \in {<<job.at>>, <<job.by>>}  PROVE PendingOK(pending')
    BY <2>3, JobHas DEF PendingOK, Effects, Job
  <2>4. CASE pending' = <<"directory">>
    BY <2>4 DEF PendingOK
  <2>. QED  BY <2>1, <2>2, <2>3, <2>4 DEF Fail, Unreachable, Mark
<1>. QED  BY <1>1, <1>2, <1>3, AbandonStep

LEMMA MoveStep ==
  ASSUME IInv, Move  PROVE  Owed
<1>1. /\ UNCHANGED <<input, current, history, runtime, proof, transition, work, orphans, exit, helper,
                     pending, job, faults, rec, files, ingress, op>>
      /\ addr' \in Cidrs
  BY DEF Move, hvars, installer, local
<1>2. moves' \in 0..MaxMoves
  BY UpdateAssumption DEF Move, IInv, OtherOK
<1>3. /\ RecInv' /\ HostInv' /\ InputInv' /\ WorkInv' /\ OrphansInv' /\ WatchInv' /\ JobInv' /\ OpInv'
      /\ IngressInv' /\ ProofInv' /\ HelpersOK' /\ RunsClaim
  BY <1>1 DEF IInv, RecInv, HostInv, InputInv, WorkInv, OrphansInv, WatchInv, JobInv, OpInv, IngressInv,
     ProofInv, HelpersOK, RunsClaim
<1>4. OtherOK'
  BY <1>1, <1>2 DEF IInv, OtherOK
<1>5. ChainClaim
  <2>1. UNCHANGED <<Path(current), Path(rec.receipt)>>
    BY <1>1
  <2>. QED  BY <2>1 DEF ChainClaim
<1>. QED  BY <1>3, <1>4, <1>5 DEF Owed, IInv

-----------------------------------------------------------------------------
(* The invariant *)

\* A target that is new, and one whose update an earlier version of the tool has half
\* recovered, are as the invariant says.
LEMMA NewTargetOK ==
  ASSUME NEW cidr \in Cidrs, NEW release \in Releases, NewTarget(cidr, release)
  PROVE  /\ RecInv /\ HostInv /\ CopiesOK(helper) /\ rec.cidr = cidr /\ Path(current) = Path(rec.receipt)
         /\ runtime \in Runtimes /\ proof \in Proofs /\ PendingOK(pending)
<1>1. /\ rec.phase = "HostKeyPinned" /\ rec.desired = release /\ rec.current = None /\ rec.receipt = <<>>
      /\ rec.previous = None /\ rec.previousReceipt = <<>> /\ rec.cidr = cidr
      /\ rec \in Record /\ files \in Artifacts
      /\ current = <<>> /\ history = {} /\ runtime = None /\ proof = None /\ pending = None
  BY ReceiptsTyped DEF NewTarget, Record, Phases, Artifacts
<1>2. Virgin(rec) /\ ~Beyond(rec)
  BY <1>1, ReceiptsTyped, InstallerAssumption DEF Virgin, Beyond
<1>3. RecInv
  BY <1>1, <1>2 DEF RecInv, RecOK
<1>4. HostInv
  BY <1>1, <1>2, <1>3, Stages DEF RecInv, HostInv, HostOK, Returning
<1>5. CopiesOK(helper)
  BY DEF NewTarget, CopiesOK, Copies, Places
<1>. QED  BY <1>1, <1>3, <1>4, <1>5 DEF Runtimes, Proofs, PendingOK, RebindPending

LEMMA FalseRuntimeOK ==
  ASSUME NEW cidr \in Cidrs, NEW candidate \in Candidates, FalseRuntime(cidr, candidate)
  PROVE  /\ RecInv /\ HostInv /\ CopiesOK(helper) /\ rec.cidr = cidr /\ Path(current) = Path(rec.receipt)
         /\ runtime \in Runtimes /\ proof \in Proofs /\ PendingOK(pending)
<1>1. <<Installed(Old)>> = Fresh(Old) /\ Append(<<Installed(Old)>>, Installed(candidate)) = Updated(candidate)
  BY Appends DEF Fresh
<1>2. /\ rec = [phase |-> "Verified", desired |-> candidate, current |-> candidate,
                receipt |-> Updated(candidate), previous |-> Old, previousReceipt |-> Fresh(Old), cidr |-> cidr]
      /\ files = [candidate |-> candidate, request |-> Request(candidate, Fresh(Old)),
                  rollback |-> None, sealed |-> FALSE]
      /\ current = Updated(candidate) /\ history = {Fresh(Old), Updated(candidate)}
      /\ runtime \in {False, candidate} /\ proof \in {None, <<"r2", current>>} /\ pending = <<"run-r2">>
  BY <1>1 DEF FalseRuntime
<1>3. /\ Old \in Releases /\ candidate \in Releases /\ Fresh(Old) \in Receipts /\ Updated(candidate) \in Receipts
      /\ Request(candidate, Fresh(Old)) \in Requests
  BY ReceiptsTyped DEF Request, Requests
<1>4. rec \in Record /\ files \in Artifacts
  BY <1>2, <1>3 DEF Record, Phases, Artifacts
<1>5. After(rec) /\ Beyond(rec) /\ files.candidate = rec.desired /\ files.request = Second(rec)
  BY <1>2 DEF After, Beyond, Second
<1>6. RecInv
  BY <1>4, <1>5 DEF RecInv, RecOK
<1>7. ~Virgin(rec) /\ ~AtOrigin(rec) /\ ~Before(rec) /\ ~Back(rec) /\ ~Returning(rec)
  BY <1>2, <1>5, <1>6, Stages DEF RecInv, Returning, RollbackPhases
<1>8. HostInv
  BY <1>2, <1>5, <1>7 DEF HostInv, HostOK
<1>9. CopiesOK(helper)
  <2>1. Whole("root") \in Copies /\ None \in Copies
    BY DEF Whole, Copies, Modes
  <2>. QED  BY <2>1 DEF FalseRuntime, CopiesOK, Places
<1>10. runtime \in Runtimes /\ proof \in Proofs /\ PendingOK(pending) /\ rec.cidr = cidr /\ rec.receipt = current
  BY <1>2, <1>3 DEF Runtimes, Proofs, PendingOK, RecoveryPending
<1>. QED  BY <1>6, <1>8, <1>9, <1>10

LEMMA InitInv ==
  ASSUME Init  PROVE  IInv /\ Chain!Init
<1>1. /\ input = [i \in InputNames |-> None] /\ transition = FALSE /\ work = None /\ orphans = {}
      /\ exit = None /\ job = None /\ faults = 0 /\ moves = 0 /\ op = None
  BY DEF Init, StagingInit, InstallerInit
<1>2. PICK cidr \in Cidrs :
        /\ ingress = {cidr} /\ addr = cidr
        /\ \/ \E release \in Releases : NewTarget(cidr, release)
           \/ \E candidate \in Candidates : FalseRuntime(cidr, candidate)
  BY DEF Init
<1>3. /\ RecInv /\ HostInv /\ CopiesOK(helper) /\ rec.cidr = cidr /\ Path(current) = Path(rec.receipt)
      /\ runtime \in Runtimes /\ proof \in Proofs /\ PendingOK(pending)
  BY <1>2, NewTargetOK, FalseRuntimeOK
<1>4. InputInv
  BY <1>1 DEF InputInv, InputOK, HoldsOK, Inputs
<1>5. WorkInv /\ OrphansInv /\ WatchInv /\ JobInv /\ OpInv
  BY <1>1 DEF WorkInv, WorkOK, OrphansInv, OrphansOK, WatchInv, WatchOK, JobInv, JobOK, OpInv, OpOK
<1>6. IngressInv /\ ProofInv /\ HelpersOK
  BY <1>1, <1>2, <1>3 DEF IngressInv, IngressOK, ProofInv, ProofOK, Ready, HelpersOK, UploadOK
<1>7. OtherOK
  <2>1. faults \in 0..MaxFaults /\ moves \in 0..MaxMoves
    BY <1>1, StagingAssumption, UpdateAssumption
  <2>2. transition \in BOOLEAN
    BY <1>1
  <2>. QED  BY <1>2, <1>3, <2>1, <2>2 DEF OtherOK, Runtimes, Proofs
<1>. QED  BY <1>3, <1>4, <1>5, <1>6, <1>7 DEF IInv, Chain!Init

\* A step of any of the actions keeps the invariant, and the claims hold of it.
LEMMA NextOwes ==
  ASSUME IInv, Next  PROVE  Owed
<1>1. CASE Step
  BY <1>1, EnsureDirectoryStep, RecordInstalledStep, VerifyLiveStep, WriteBundleStep, WriteRequestStep,
     StageUpdateStep, CheckCapacityStep, EnsureBootstrapStep, InstallUpdateStep, RecordUpdateStep,
     WriteRollbackStep, StageRollbackStep, InstallRollbackStep, RecordRollbackStep, SealRecoveryStep,
     RunProgramStep, ReadAttestationStep, RebindEffectStep, RecordRebindStep, JobStepStep, JobDoneStep,
     FailStep, RefusedStep DEF Step
<1>. QED
  BY <1>1, ApplyStep, VerifyStep, RollbackStep, RecoverStep, AttestStep, UpdateStep, RebindStep, HostStep,
     FailStep, MoveStep DEF Next

LEMMA StutterOwes ==
  ASSUME IInv, UNCHANGED vars  PROVE  Owed
<1>1. /\ UNCHANGED <<input, current, history, runtime, proof, transition, work, orphans, exit, helper,
                     pending, job, faults, rec, files, ingress, addr, moves, op>>
  BY DEF vars, hvars, installer
<1>2. IInv'
  BY <1>1 DEF IInv, RecInv, HostInv, InputInv, WorkInv, OrphansInv, WatchInv, JobInv, OpInv, IngressInv,
     ProofInv, HelpersOK, OtherOK
<1>3. RunsClaim
  BY <1>1 DEF RunsClaim
<1>4. ChainClaim
  <2>1. UNCHANGED <<Path(current), Path(rec.receipt)>>
    BY <1>1
  <2>. QED  BY <2>1 DEF ChainClaim
<1>. QED  BY <1>2, <1>3, <1>4 DEF Owed

\* The invariant holds of every behaviour, however many faults and moves there are.
THEOREM Safety == Spec => []IInv
<1>1. IInv /\ [Next]_vars => IInv'
  BY NextOwes, StutterOwes DEF Owed
<1>. QED  BY <1>1, InitInv, PTL DEF Spec

\* Every state is one that the state file, the host and the deployer can have.
THEOREM TypeCorrect == Spec => []TypeOK
<1>1. ASSUME IInv  PROVE TypeOK
  <2>1. input \in [InputNames -> Inputs]
    BY <1>1 DEF IInv, InputInv, InputOK
  <2>2. current \in Receipts
    BY <1>1, HostTells DEF IInv
  <2>3. history \subseteq Receipts
    BY <1>1, Idle, ReceiptsTyped DEF IInv, HostInv, HostOK, Returning, After, Back
  <2>4. work \in Work \cup {None} /\ orphans \subseteq Programs /\ exit \in {"ok", "failed", None}
    BY <1>1 DEF IInv, WorkInv, WorkOK, OrphansInv, OrphansOK, WatchInv, WatchOK
  <2>5. helper \in [Helpers -> [Places -> Copies]]
    BY <1>1 DEF IInv, HelpersOK, CopiesOK
  <2>6. job \in Job \cup {None} /\ op \in Operation \cup {None}
    BY <1>1 DEF IInv, JobInv, JobOK, OpInv, OpOK
  <2>7. rec \in Record /\ files \in Artifacts
    BY <1>1, Idle DEF RecOK
  <2>8. ingress \in SUBSET Cidrs
    BY <1>1, Idle DEF IInv, IngressInv, IngressOK
  <2>9. OtherOK
    BY <1>1 DEF IInv
  <2>10. transition \in BOOLEAN
    BY <2>9 DEF OtherOK
  <2>. QED  BY <2>1, <2>2, <2>3, <2>4, <2>5, <2>6, <2>7, <2>8, <2>9, <2>10 DEF OtherOK, PendingOK, TypeOK
<1>. QED  BY <1>1, Safety, PTL

\* No helper in its place is cut off, however often its upload was interrupted.
THEOREM HelpersAreWhole == Spec => []InstalledHelpersWhole
<1>1. IInv => InstalledHelpersWhole
  BY DEF IInv, HelpersOK, CopiesOK, InstalledHelpersWhole
<1>. QED  BY <1>1, Safety, PTL

\* Where the state file claims an end of the work, the host has the receipt it records;
\* after a rollback it may have gone the way back twice.
THEOREM RecordIsTrue == Spec => []RecordFollowsHost
<1>1. ASSUME IInv  PROVE RecordFollowsHost
  <2>. DEFINE d == rec.desired
  <2>1. RecOK(rec, files) /\ HostOK(rec, current, history)
    BY <1>1 DEF IInv, RecInv, HostInv
  <2>2. CASE Virgin(rec)
    BY <2>2 DEF Virgin, RecordFollowsHost
  <2>3. CASE AtOrigin(rec)
    BY <2>1, <2>3, Stages DEF AtOrigin, HostOK, RecordFollowsHost
  <2>4. CASE Before(rec)
    BY <2>1, <2>4, Stages DEF Before, HostOK, RecordFollowsHost
  <2>5. CASE After(rec) /\ ~Returning(rec)
    BY <2>1, <2>5, Stages DEF After, HostOK, RecordFollowsHost, RollbackPhases
  <2>6. CASE After(rec) /\ Returning(rec)
    BY <2>1, <2>6, Stages DEF After, Returning, Back, RecordFollowsHost, RollbackPhases
  <2>7. CASE Back(rec)
    <3>1. d \in Candidates /\ rec.receipt = Undone(d) /\ current \in {Undone(d), Redone(d)} /\ rec.phase = "RolledBack"
      BY <2>1, <2>7, Stages DEF Back, HostOK
    <3>2. Front(Undone(d)) = Updated(d)
      BY <3>1, Fronts
    <3>3. Append(Updated(d), RolledBack(Old)) = Undone(d) /\ Append(Updated(d), Installed(Old)) = Redone(d)
      BY <3>1, Appends
    <3>. QED  BY <3>1, <3>2, <3>3 DEF RecordFollowsHost
  <2>. QED  BY <2>1, <2>2, <2>3, <2>4, <2>5, <2>6, <2>7 DEF RecOK
<1>. QED  BY <1>1, Safety, PTL

\* The security group never lets in nobody, and never anybody beside the recorded address
\* and the one that replaces it, whatever a rebind was interrupted by.
THEOREM IngressBounded == Spec => []IngressIsBounded
<1>1. ASSUME IInv  PROVE IngressIsBounded
  <2>1. PICK x \in Cidrs : ingress \in {{rec.cidr}, {rec.cidr, x}, {x}}
    BY <1>1 DEF IInv, IngressInv, IngressOK
  <2>2. \A a : IsFiniteSet({a}) /\ Cardinality({a}) = 1
    BY FS_Singleton
  <2>3. ASSUME NEW a, NEW b  PROVE Cardinality({a, b}) \in {1, 2}
    <3>1. Cardinality({a} \cup {b}) = IF b \in {a} THEN Cardinality({a}) ELSE Cardinality({a}) + 1
      BY <2>2, FS_AddElement, Zenon
    <3>2. {a, b} = {a} \cup {b}
      OBVIOUS
    <3>3. Cardinality({a}) = 1
      BY <2>2
    <3>4. Cardinality({a} \cup {b}) \in {1, 2}
      BY <3>1, <3>3
    <3>. QED  BY <3>2, <3>4, Zenon
  <2>4. ingress # {} /\ Cardinality(ingress) \in {1, 2}
    BY <2>1, <2>2, <2>3
  <2>5. Cardinality(ingress) = 2 => rec.cidr \in ingress
    BY <2>1, <2>2
  <2>. QED  BY <2>4, <2>5 DEF IngressIsBounded
<1>. QED  BY <1>1, Safety, PTL

\* What a program brings up is the release the state file is about to install, also when
\* the program was left behind by an attempt of before.
THEOREM OnlyRecordedReleasesRun == Spec => RunsWhatIsRecorded
<1>1. ASSUME IInv, [Next]_vars
      PROVE  [runtime' # runtime /\ runtime' \in Releases =>
                \/ rec.phase = "HostKeyPinned"      /\ runtime' = rec.desired
                \/ rec.phase = "UpdateInstalling"   /\ runtime' \in {rec.desired, rec.previous}
                \/ rec.phase \in {"RolledBack"} \cup RollbackPhases /\ runtime' = rec.previous
                \/ rec.phase = "Verified"           /\ runtime' = rec.current /\ work.by = "recover"]_vars
  BY <1>1, NextOwes, StutterOwes DEF Owed, RunsClaim
<1>. QED  BY <1>1, Safety, PTL DEF Spec, RunsWhatIsRecorded

\* An attestation that is accepted is true of what runs, and no recovery is half done.
THEOREM AttestationsAreTrue == Spec => AcceptedProofIsTrue
<1>1. ASSUME IInv, [Next]_vars
      PROVE  [ReadAttestation => runtime = rec.current /\ ~transition]_vars
  BY <1>1, ReadAttestationStep
<1>. QED  BY <1>1, Safety, PTL DEF Spec, AcceptedProofIsTrue

\* The target implements ReleaseChain: the host is at most one activation ahead of the
\* state file, which records only what the host has.
THEOREM ChainIsKept == Spec => ChainSpec
<1>1. Init => Chain!Init
  BY InitInv
<1>2. ASSUME IInv, [Next]_vars
      PROVE  [Chain!Activate \/ Chain!Record]_<<Path(current), Path(rec.receipt)>>
  BY <1>2, NextOwes, StutterOwes DEF Owed, ChainClaim
<1>. QED  BY <1>1, <1>2, Safety, PTL DEF Spec, ChainSpec, Chain!Spec
=============================================================================
