------------------------------- MODULE CommandProofs ------------------------
(***************************************************************************)
(* Two commands whose only shared state is a small record.                 *)
(*                                                                         *)
(* The record of a binding ticket never runs ahead of the server.  The     *)
(* record of an Alpha is earned at every state, and moves forward by one   *)
(* state at a time while commands do not overlap.  Both for any number of  *)
(* tickets and commands.                                                   *)
(***************************************************************************)
EXTENDS BindingTicket, AlphaRecord, TLAPS

-----------------------------------------------------------------------------
(* Binding tickets.                                                        *)

TicketStates  == {"none", "issued", "redeemed", "identity_bound"} \cup Final
TicketRecords == {NoRecord} \cup [ticket : Tickets, state : TicketStates \ {"none"}]

TicketPoints  == {"idle", "stage", "protect", "draw", "pull", "parse", "cleanup",
            "ask", "note", "zero", "unlink"}

TicketTyped ==
    /\ ticketCall \in [cmd : {"none", "issue", "status"}, pc : TicketPoints, reply : TicketStates]
    /\ ticketOutput \in Tickets \cup {NoTicket, Zeroed}
    /\ ticketRecord \in TicketRecords
    /\ ticketExport \in Tickets \cup {NoTicket}
    /\ ticketServer \in [Tickets -> TicketStates]

\* What a command knows at each of its points.
TicketKnows ==
    /\ TicketAt("parse") => ticketOutput \in Tickets
    /\ TicketAt("ask") \/ TicketAt("note") => ticketOutput \in Tickets /\ ticketRecord.ticket = ticketOutput
    /\ TicketAt("note") => /\ ticketCall.reply \in TicketStates \ {"none"}
                           /\ ticketServer[ticketOutput] \in Progress(ticketCall.reply)
    /\ TicketAt("zero") => ticketOutput = ticketRecord.ticket
    /\ TicketAt("unlink") => ticketOutput = Zeroed
    /\ TicketAt("zero") \/ TicketAt("unlink") =>
          ticketRecord \in TicketRecords \ {NoRecord} /\ ticketRecord.state \in Final

\* A ticket that is in a file was issued, and a record is of the past of its
\* ticket.
TicketIssued ==
    /\ ticketOutput \in Tickets => ticketServer[ticketOutput] # "none"
    /\ ticketExport \in Tickets => ticketServer[ticketExport] # "none"
    /\ ticketRecord # NoRecord => ticketServer[ticketRecord.ticket] \in Progress(ticketRecord.state)

TicketInv == TicketTyped /\ TicketKnows /\ TicketIssued

\* Neither the absence of a ticket nor an overwritten output is a ticket.
Numbered == NoTicket \notin Tickets /\ Zeroed \notin Tickets

-----------------------------------------------------------------------------
\* The server moves forward, so what was true of a ticket's past stays true.
LEMMA ProgressIsForward ==
    /\ \A x, s \in TicketStates : s \in Progress(x) => Later(s) \subseteq Progress(x)
    /\ \A s \in TicketStates : Later(s) \subseteq TicketStates \ {"none"} /\ s \in Progress(s)
    /\ \A s \in TicketStates \ {"none"} : s \in Progress("issued")
    /\ \A s, x \in TicketStates : s \in Progress(x) /\ x # "none" => s # "none"
BY DEF TicketStates, Final, Progress, Later

\* No ticket was issued, and nothing is on record.
LEMMA TicketInitInv == ASSUME Numbered, TicketInit PROVE TicketInv
BY DEF Numbered, TicketInit, TicketInv, TicketPoints, TicketTyped, TicketKnows, TicketIssued,
       TicketAt, TicketIdle, TicketRecords, NoRecord, TicketStates, Final, NoTicket, Zeroed

\* The server's part of TicketIssued and TicketKnows depends on these alone.
LEMMA ServerForward ==
    ASSUME TicketTyped, TicketIssued, Numbered, ticketServer' \in [Tickets -> TicketStates],
           \A t \in Tickets : \/ ticketServer'[t] = ticketServer[t]
                              \/ ticketServer'[t] \in Later(ticketServer[t])
                              \/ ticketServer[t] = "none" /\ ticketServer'[t] = "issued"
    PROVE  /\ \A t \in Tickets : ticketServer[t] # "none" => ticketServer'[t] # "none"
           /\ \A t \in Tickets, x \in TicketStates \ {"none"} :
                ticketServer[t] \in Progress(x) => ticketServer'[t] \in Progress(x)
           /\ ticketRecord # NoRecord => ticketServer'[ticketRecord.ticket] \in Progress(ticketRecord.state)
<1>1. \A t \in Tickets : ticketServer[t] \in TicketStates
  BY DEF TicketTyped
<1>2. \A t \in Tickets : ticketServer[t] # "none" => ticketServer'[t] # "none"
  BY <1>1, ProgressIsForward
<1>3. \A t \in Tickets, x \in TicketStates \ {"none"} :
        ticketServer[t] \in Progress(x) => ticketServer'[t] \in Progress(x)
  BY <1>1, ProgressIsForward
<1>4. ticketRecord # NoRecord =>
        ticketRecord.ticket \in Tickets /\ ticketRecord.state \in TicketStates \ {"none"}
  BY DEF TicketTyped, TicketRecords
<1>. QED  BY <1>2, <1>3, <1>4 DEF TicketIssued

\* Every step of a command and of the server, and every cut, keeps the three parts.
LEMMA TicketNextInv ==
    ASSUME Numbered, TicketInv, [TicketNext]_ticketVars
    PROVE  TicketInv'
<1>. USE DEF TicketInv, TicketPoints
<1>1. ASSUME BeginIssue \/ StageRequest \/ ProtectRequest PROVE TicketInv'
  <2>1. UNCHANGED <<ticketOutput, ticketRecord, ticketExport, ticketServer>>
    BY <1>1 DEF BeginIssue, StageRequest, ProtectRequest, Remote
  <2>2. /\ ticketCall' \in [cmd : {"none", "issue", "status"}, pc : TicketPoints, reply : TicketStates]
        /\ ticketCall'.pc \in {"idle", "stage", "protect", "draw"}
    <3>1. CASE BeginIssue
      BY <3>1 DEF BeginIssue, TicketIdle, TicketStates
    <3>2. CASE StageRequest
      BY <3>2 DEF StageRequest, TicketGoto, TicketReturn, TicketIdle, TicketTyped, TicketStates
    <3>3. CASE ProtectRequest
      BY <3>3 DEF ProtectRequest, TicketGoto, TicketTyped
    <3>. QED  BY <1>1, <3>1, <3>2, <3>3
  <2>. QED  BY <2>1, <2>2 DEF TicketAt, TicketTyped, TicketKnows, TicketIssued
<1>2. ASSUME Draw PROVE /\ ticketServer' \in [Tickets -> TicketStates]
                        /\ ticketExport' \in Tickets /\ ticketServer'[ticketExport'] # "none"
                        /\ \A t \in Tickets : \/ ticketServer'[t] = ticketServer[t]
                                              \/ ticketServer[t] = "none" /\ ticketServer'[t] = "issued"
  BY <1>2 DEF Draw, TicketTyped, TicketStates
<1>3. CASE DrawTicket
  <2>1. CASE Draw /\ TicketGoto("pull")
    BY <1>2, <1>3, <2>1, ServerForward
       DEF DrawTicket, TicketAt, TicketGoto, TicketTyped, TicketKnows, TicketIssued
  <2>2. CASE Exhausted /\ TicketReturn /\ UNCHANGED Remote
    BY <1>3, <2>2
       DEF DrawTicket, TicketAt, TicketReturn, TicketIdle, TicketStates, Remote, TicketTyped,
           TicketKnows, TicketIssued
  <2>. QED  BY <1>3, <2>1, <2>2 DEF DrawTicket
<1>4. CASE PullOutput
  BY <1>4
     DEF PullOutput, TicketAt, TicketGoto, TicketReturn, TicketIdle, TicketStates, Remote,
         TicketTyped, TicketKnows, TicketIssued
<1>5. CASE ParseAndRecord
  <2>1. CASE Parses(ticketOutput)
    <3>1. ticketOutput \in Tickets /\ ticketServer[ticketOutput] \in TicketStates \ {"none"}
      BY <1>5 DEF ParseAndRecord, TicketTyped, TicketKnows, TicketIssued
    <3>2. /\ ticketRecord' = [ticket |-> ticketOutput, state |-> "issued"]
          /\ ticketCall' = [ticketCall EXCEPT !.pc = "cleanup"]
          /\ UNCHANGED <<ticketOutput, ticketExport, ticketServer>>
      BY <1>5, <2>1 DEF ParseAndRecord, Recorded, TicketGoto, Remote
    <3>3. ticketRecord' \in TicketRecords
      BY <3>1, <3>2 DEF TicketRecords, TicketStates
    <3>4. TicketIssued'
      BY <3>1, <3>2, ProgressIsForward DEF TicketIssued
    <3>. QED  BY <1>5, <3>2, <3>3, <3>4 DEF ParseAndRecord, TicketAt, TicketTyped, TicketKnows
  <2>2. CASE ~Parses(ticketOutput)
    BY <1>5, <2>2
       DEF ParseAndRecord, TicketAt, TicketReturn, TicketIdle, TicketStates, Remote, TicketTyped,
           TicketKnows, TicketIssued
  <2>. QED  BY <2>1, <2>2
<1>6. CASE CleanUp
  BY <1>6
     DEF CleanUp, TicketAt, TicketReturn, TicketIdle, TicketStates, TicketTyped, TicketKnows,
         TicketIssued, Numbered
<1>7. CASE BeginStatus
  BY <1>7
     DEF BeginStatus, TicketAt, TicketIdle, TicketStates, Remote, TicketReadable, TicketTyped,
         TicketKnows, TicketIssued
<1>8. CASE AskServer
  <2>1. ticketOutput \in Tickets /\ ticketServer[ticketOutput] \in TicketStates \ {"none"}
    BY <1>8 DEF AskServer, TicketAt, TicketTyped, TicketKnows, TicketIssued
  <2>2. ticketServer[ticketOutput] \in Progress(ticketServer[ticketOutput])
    BY <2>1, ProgressIsForward
  <2>. QED  BY <1>8, <2>1, <2>2
               DEF AskServer, TicketAt, Remote, TicketTyped, TicketKnows, TicketIssued
<1>9. CASE NoteAnswer
  <2>1. /\ ticketOutput \in Tickets /\ ticketRecord.ticket = ticketOutput
        /\ ticketCall.reply \in TicketStates \ {"none"}
        /\ ticketServer[ticketOutput] \in Progress(ticketCall.reply)
    BY <1>9 DEF NoteAnswer, TicketAt, TicketKnows
  <2>2. /\ ticketRecord' = [ticket |-> ticketOutput, state |-> ticketCall.reply]
        /\ UNCHANGED <<ticketOutput, ticketExport, ticketServer>>
    BY <1>9, <2>1 DEF NoteAnswer, Recorded, Remote
  <2>3. ticketRecord' \in TicketRecords \ {NoRecord}
    BY <2>1, <2>2 DEF TicketRecords, NoRecord, Numbered
  <2>4. TicketIssued'
    BY <2>1, <2>2 DEF TicketIssued
  <2>. QED  BY <1>9, <2>1, <2>2, <2>3, <2>4
               DEF NoteAnswer, TicketAt, TicketGoto, TicketReturn, TicketIdle, TicketStates,
                   TicketTyped, TicketKnows
<1>10. CASE ZeroOutput
  BY <1>10
     DEF ZeroOutput, TicketAt, TicketGoto, Remote, TicketTyped, TicketKnows, TicketIssued,
         Numbered
<1>11. CASE UnlinkOutput
  BY <1>11
     DEF UnlinkOutput, TicketAt, TicketReturn, TicketIdle, TicketStates, Remote, TicketTyped,
         TicketKnows, TicketIssued, Numbered
<1>12. CASE Cut
  <2>1. /\ ticketServer' \in [Tickets -> TicketStates]
        /\ \A t \in Tickets : \/ ticketServer'[t] = ticketServer[t]
                              \/ ticketServer[t] = "none" /\ ticketServer'[t] = "issued"
        /\ \/ ticketExport' \in {ticketExport, NoTicket}
           \/ ticketExport' \in Tickets /\ ticketServer'[ticketExport'] # "none"
    BY <1>2, <1>12 DEF Cut, Remote, TicketTyped
  <2>. QED  BY <1>12, <2>1, ServerForward
               DEF Cut, TicketAt, TicketReturn, TicketIdle, TicketStates, TicketTyped,
                   TicketKnows, TicketIssued, Numbered
<1>13. CASE ServerMoves
  <2>1. PICK t \in Tickets : \E s \in Later(ticketServer[t]) :
          ticketServer' = [ticketServer EXCEPT ![t] = s]
    BY <1>13 DEF ServerMoves
  <2>2. /\ ticketServer' \in [Tickets -> TicketStates]
        /\ \A u \in Tickets : \/ ticketServer'[u] = ticketServer[u]
                              \/ ticketServer'[u] \in Later(ticketServer[u])
    BY <2>1, ProgressIsForward DEF TicketTyped
  <2>. QED  BY <1>13, <2>2, ServerForward
               DEF ServerMoves, TicketAt, TicketTyped, TicketKnows, TicketIssued
<1>14. CASE UNCHANGED ticketVars
  BY <1>14 DEF ticketVars, TicketAt, TicketTyped, TicketKnows, TicketIssued
<1>. QED  BY <1>1, <1>3, <1>4, <1>5, <1>6, <1>7, <1>8, <1>9, <1>10, <1>11, <1>12, <1>13, <1>14
          DEF TicketNext, TicketStep

\* deployment-binding status and wait record of a ticket only what the server
\* said of it, and destroy an output only when its own ticket is used up,
\* wherever issue, status and wait are cut off.
THEOREM TicketSafety ==
    ASSUME Numbered
    PROVE  TicketSpec => []TicketIsHonest
<1>1. TicketInit => TicketInv
  BY TicketInitInv
<1>2. TicketInv /\ [TicketNext]_ticketVars => TicketInv'
  BY TicketNextInv
<1>3. TicketInv => TicketIsHonest
  BY DEF TicketInv, TicketKnows, TicketIssued, TicketIsHonest, TicketAt
<1>. QED  BY <1>1, <1>2, <1>3, PTL DEF TicketSpec

-----------------------------------------------------------------------------
(* The Alpha record.                                                       *)

AlphaPoints  == {"idle", "create", "write_new", "remove", "open_temp", "write_temp", "rename"}
AlphaRecords == [state : Planned..Completed, readiness : BOOLEAN, receipt : BOOLEAN]

\* A record that the commands may write, and what a file may hold.
Good(r)  == r \in AlphaRecords /\ Earned(r)
Sound(f) == /\ f \in [rec : AlphaRecords \cup {Torn, Absent}, writer : Writers \cup {Nobody}]
            /\ AlphaReadable(f) => Earned(f.rec)

Shared ==
    /\ Sound(alphaFile)
    /\ Sound(alphaTemp)
    /\ alphaCall \in [Writers -> [pc : AlphaPoints, rec : AlphaRecords \cup {Absent}]]
    /\ \A c \in Writers : ~AlphaAt(c, "idle") => Good(alphaCall[c].rec)
    /\ alphaAlone \in BOOLEAN

\* What the only command under way knows of the two files.
Place(call, c, file, temp) ==
    /\ call.pc = "write_new" => ~AlphaReadable(file)
    /\ call.pc \in {"remove", "open_temp", "write_temp", "rename"} =>
          AlphaReadable(file) /\ call.rec.state = file.rec.state + 1
    /\ call.pc = "write_temp" => temp = [rec |-> Torn, writer |-> c]
    /\ call.pc = "rename" => temp = [rec |-> call.rec, writer |-> Nobody]

Single ==
    /\ \A c, d \in Writers : ~AlphaAt(c, "idle") /\ ~AlphaAt(d, "idle") => c = d
    /\ \A c \in Writers : Place(alphaCall[c], c, alphaFile, alphaTemp)
    /\ AlphaReadable(alphaFile) => alphaFile.writer = Nobody

AlphaInv == Shared /\ (alphaAlone => Single)

\* What RecordIsEarned says of one step.
Forward == /\ AlphaReadable(alphaFile') => Earned(alphaFile'.rec)
           /\ alphaAlone' /\ AlphaReadable(alphaFile) =>
                /\ AlphaReadable(alphaFile')
                /\ alphaFile'.rec.state - alphaFile.rec.state \in {0, 1}

\* A process that runs no command has a typed call.
LEMMA IdleIsTyped ==
    /\ AlphaIdle \in [pc : AlphaPoints, rec : AlphaRecords \cup {Absent}]
    /\ AlphaIdle.pc = "idle"
BY DEF AlphaIdle, AlphaPoints

\* A file that is not there has no record that could be wrong.
LEMMA NoFileIsSound == Sound(NoFile) /\ ~AlphaReadable(NoFile)
BY DEF Sound, NoFile, AlphaReadable

\* Neither mark of an unreadable file is a record, and a record is readable.
LEMMA MarksAreNoRecords ==
    /\ Torn \notin AlphaRecords /\ Absent \notin AlphaRecords /\ Torn # Absent
    /\ \A r \in AlphaRecords : r # Torn /\ r # Absent
BY DEF Torn, Absent, Record, AlphaRecords, Planned, Completed, AlphaReadable

\* The successor of an earned record is earned.
LEMMA SuccessorIsEarned ==
    ASSUME NEW r, Good(r), NEW n \in Successors(r)
    PROVE  Good(n) /\ n.state = r.state + 1
<1>1. r.state \in 0..4 /\ r.readiness \in BOOLEAN /\ r.receipt \in BOOLEAN
  BY DEF Good, AlphaRecords, Planned, Completed, Successors
<1>2. n = [state |-> r.state + 1, readiness |-> Ready(r), receipt |-> Observed(r)]
  BY DEF Successors, Record
<1>3. Ready(r) \in BOOLEAN /\ Observed(r) \in BOOLEAN
  BY <1>1 DEF Ready, Observed
<1>4. (r.state + 1 >= 3 => Ready(r)) /\ (r.state + 1 >= 4 => Observed(r))
  BY <1>1 DEF Good, Earned, Ready, Observed
<1>. HIDE DEF Ready, Observed
<1>. QED  BY <1>1, <1>2, <1>3, <1>4 DEF Good, AlphaRecords, Earned, Planned, Completed

\* There is no file yet, and no command is under way.
LEMMA AlphaInitInv == AlphaInit => AlphaInv
<1>. SUFFICES ASSUME AlphaInit PROVE AlphaInv
  OBVIOUS
<1>1. Shared
  BY IdleIsTyped, NoFileIsSound DEF AlphaInit, Shared, AlphaAt
<1>2. Single
  BY IdleIsTyped, NoFileIsSound DEF AlphaInit, Single, Place, AlphaAt
<1>. QED  BY <1>1, <1>2 DEF AlphaInv

\* A command that starts is alone only when no other is under way.
LEMMA EnterIsAlone ==
    ASSUME AlphaInv, NEW c \in Writers, AlphaAt(c, "idle"), NEW p \in AlphaPoints, NEW r,
           Good(r), Enter(c, p, r)
    PROVE  /\ alphaCall' = [alphaCall EXCEPT ![c] = [pc |-> p, rec |-> r]]
           /\ alphaCall' \in [Writers -> [pc : AlphaPoints, rec : AlphaRecords \cup {Absent}]]
           /\ \A d \in Writers : ~AlphaAt(d, "idle")' => Good(alphaCall[d].rec)'
           /\ alphaAlone' \in BOOLEAN
           /\ alphaAlone' => alphaAlone /\ \A d \in Writers \ {c} : AlphaAt(d, "idle")'
           /\ alphaCall'[c].pc = p /\ alphaCall'[c].rec = r
BY DEF AlphaInv, Shared, Enter, AlphaAt, Good

\* A command that goes on or ends keeps the calls typed and disjoint.
LEMMA GotoKeeps ==
    ASSUME AlphaInv, NEW c \in Writers, ~AlphaAt(c, "idle"), NEW p \in AlphaPoints, AlphaGoto(c, p)
    PROVE  /\ alphaCall' = [alphaCall EXCEPT ![c].pc = p]
           /\ alphaCall' \in [Writers -> [pc : AlphaPoints, rec : AlphaRecords \cup {Absent}]]
           /\ \A d \in Writers : ~AlphaAt(d, "idle")' => Good(alphaCall[d].rec)'
           /\ alphaAlone' = alphaAlone
           /\ alphaAlone => \A d \in Writers \ {c} : AlphaAt(d, "idle")'
           /\ alphaCall'[c].pc = p /\ alphaCall'[c].rec = alphaCall[c].rec
BY DEF AlphaInv, Shared, Single, AlphaGoto, AlphaAt, Good

\* One command under way, or none, in its place.
LEMMA SingleFrom ==
    ASSUME NEW c \in Writers, \A d \in Writers \ {c} : AlphaAt(d, "idle")',
           Place(alphaCall'[c], c, alphaFile', alphaTemp'),
           AlphaReadable(alphaFile') => alphaFile'.writer = Nobody
    PROVE  Single'
BY DEF Single, Place, AlphaAt

\* A command that ends leaves the calls typed and disjoint.
LEMMA ReturnKeeps ==
    ASSUME AlphaInv, NEW c \in Writers, ~AlphaAt(c, "idle"), AlphaReturn(c)
    PROVE  /\ alphaCall' = [alphaCall EXCEPT ![c] = AlphaIdle]
           /\ alphaCall' \in [Writers -> [pc : AlphaPoints, rec : AlphaRecords \cup {Absent}]]
           /\ \A d \in Writers : ~AlphaAt(d, "idle")' => Good(alphaCall[d].rec)'
           /\ alphaAlone' = alphaAlone
           /\ alphaAlone => \A d \in Writers : d # c => AlphaAt(d, "idle")
           /\ alphaAlone => \A d \in Writers : AlphaAt(d, "idle")'
BY IdleIsTyped DEF AlphaInv, Shared, Single, AlphaReturn, AlphaAt, Good

\* What one step owes: the invariant again, and the step that was promised.
Owed == AlphaInv' /\ Forward

\* While the two files stay as they are nothing is lost.
LEMMA FilesUntouched ==
    ASSUME AlphaInv, UNCHANGED <<alphaFile, alphaTemp>>
    PROVE  Forward /\ Sound(alphaFile)' /\ Sound(alphaTemp)'
<1>1. AlphaReadable(alphaFile) => alphaFile.rec.state \in Nat
  BY DEF AlphaInv, Shared, Sound, AlphaReadable, AlphaRecords, Planned, Completed
<1>. QED  BY <1>1 DEF AlphaInv, Shared, Sound, Forward, AlphaReadable

\* A file under the hands of one command, and a written one.
LEMMA FilesAreSound ==
    ASSUME AlphaInv, NEW c \in Writers
    PROVE  /\ Sound([rec |-> Torn, writer |-> c])
           /\ ~AlphaReadable([rec |-> Torn, writer |-> c])
           /\ ~AlphaAt(c, "idle") => Sound(Written(alphaFile, c)) /\ Sound(Written(alphaTemp, c))
BY MarksAreNoRecords DEF AlphaInv, Shared, Sound, AlphaReadable, Written, Good

\* create begins only where no record is.
LEMMA CreateStep == ASSUME AlphaInv, NEW c \in Writers, Create(c) PROVE Owed
<1>1. Good(Record(Planned, FALSE, FALSE)) /\ "create" \in AlphaPoints
  BY DEF Good, AlphaRecords, Record, Planned, Completed, Earned, AlphaPoints
<1>2. UNCHANGED <<alphaFile, alphaTemp>> /\ AlphaAt(c, "idle")
  BY DEF Create
<1>3. Enter(c, "create", Record(Planned, FALSE, FALSE))
  BY DEF Create
<1>4. Shared'
  BY <1>1, <1>2, <1>3, FilesUntouched, EnterIsAlone DEF Shared
<1>5. alphaAlone' => Single'
  <2>. SUFFICES ASSUME alphaAlone' PROVE Single'
    OBVIOUS
  <2>1. alphaCall'[c].pc = "create" /\ alphaAlone /\ \A d \in Writers \ {c} : AlphaAt(d, "idle")'
    BY <1>1, <1>2, <1>3, EnterIsAlone
  <2>2. AlphaReadable(alphaFile') => alphaFile'.writer = Nobody
    BY <1>2, <2>1 DEF AlphaInv, Single
  <2>3. Place(alphaCall'[c], c, alphaFile', alphaTemp')
    BY <2>1 DEF Place
  <2>. QED  BY <2>1, <2>2, <2>3, SingleFrom
<1>. QED  BY <1>2, <1>4, <1>5, FilesUntouched DEF Owed, AlphaInv

\* A new file is opened, or another command was faster.
LEMMA OpenNewStep == ASSUME AlphaInv, NEW c \in Writers, OpenNew(c) PROVE Owed
<1>1. ~AlphaAt(c, "idle") /\ UNCHANGED alphaTemp /\ "write_new" \in AlphaPoints
  BY DEF OpenNew, AlphaAt, AlphaPoints
<1>2. CASE Exists(alphaFile)
  <2>1. AlphaReturn(c) /\ UNCHANGED alphaFile
    BY <1>2 DEF OpenNew
  <2>2. Shared'
    BY <1>1, <2>1, FilesUntouched, ReturnKeeps DEF Shared, AlphaInv
  <2>3. alphaAlone' => Single'
    BY <1>1, <2>1, ReturnKeeps DEF AlphaInv, Shared, Single, Place, AlphaAt
  <2>. QED  BY <1>1, <2>1, <2>2, <2>3, FilesUntouched DEF Owed, AlphaInv
<1>3. CASE ~Exists(alphaFile)
  <2>1. AlphaGoto(c, "write_new") /\ alphaFile' = [rec |-> Torn, writer |-> c]
    BY <1>3 DEF OpenNew
  <2>2. ~AlphaReadable(alphaFile)
    BY <1>3 DEF Exists, AlphaReadable
  <2>3. ~AlphaReadable(alphaFile)'
    BY <2>1, FilesAreSound
  <2>4. Shared'
    BY <1>1, <2>1, FilesAreSound, GotoKeeps DEF Shared, AlphaInv
  <2>5. alphaAlone' => Single'
    BY <1>1, <2>1, <2>3, GotoKeeps, SingleFrom DEF Place
  <2>. QED  BY <2>2, <2>3, <2>4, <2>5 DEF Owed, AlphaInv, Forward
<1>. QED  BY <1>2, <1>3

\* The new file is written: whoever has it open writes a record that is earned.
LEMMA WriteNewStep == ASSUME AlphaInv, NEW c \in Writers, WriteNew(c) PROVE Owed
<1>1. ~AlphaAt(c, "idle") /\ UNCHANGED alphaTemp /\ AlphaReturn(c) /\ alphaFile' = Written(alphaFile, c)
  BY DEF WriteNew, AlphaAt
<1>2. Shared'
  BY <1>1, FilesAreSound, ReturnKeeps DEF Shared, AlphaInv
<1>3. alphaAlone' => ~AlphaReadable(alphaFile)
  BY <1>1, ReturnKeeps DEF AlphaInv, Single, Place, WriteNew, AlphaAt
<1>4. alphaAlone' => Single'
  <2>. SUFFICES ASSUME alphaAlone' PROVE Single'
    OBVIOUS
  <2>1. AlphaReadable(alphaFile)' => alphaFile'.writer = Nobody
    BY <1>1, <1>3 DEF Written
  <2>. QED  BY <1>1, <2>1, ReturnKeeps DEF Single, Place, AlphaAt
<1>5. Forward
  BY <1>2, <1>3 DEF Shared, Sound, Forward
<1>. QED  BY <1>2, <1>4, <1>5 DEF Owed, AlphaInv

\* The record is read, and the successor of it is carried on.
LEMMA AdvanceStep == ASSUME AlphaInv, NEW c \in Writers, Advance(c) PROVE Owed
<1>1. UNCHANGED <<alphaFile, alphaTemp>> /\ AlphaAt(c, "idle") /\ AlphaReadable(alphaFile)
  BY DEF Advance
<1>2. PICK n \in Successors(alphaFile.rec) : Enter(c, "remove", n)
  BY DEF Advance
<1>3. Good(alphaFile.rec) /\ "remove" \in AlphaPoints
  BY <1>1 DEF AlphaInv, Shared, Sound, AlphaReadable, Good, AlphaPoints
<1>4. Good(n) /\ n.state = alphaFile.rec.state + 1
  BY <1>3, SuccessorIsEarned
<1>5. Shared'
  BY <1>1, <1>2, <1>3, <1>4, FilesUntouched, EnterIsAlone DEF Shared
<1>6. alphaAlone' => Single'
  BY <1>1, <1>2, <1>3, <1>4, EnterIsAlone DEF AlphaInv, Shared, Single, Place, AlphaAt
<1>. QED  BY <1>1, <1>5, <1>6, FilesUntouched DEF Owed, AlphaInv

\* A temporary file that was left is removed; the record is not touched.
LEMMA RemoveTempStep == ASSUME AlphaInv, NEW c \in Writers, RemoveTemp(c) PROVE Owed
<1>1. /\ ~AlphaAt(c, "idle") /\ "open_temp" \in AlphaPoints /\ AlphaGoto(c, "open_temp")
      /\ alphaTemp' = NoFile /\ UNCHANGED alphaFile
  BY DEF RemoveTemp, AlphaAt, AlphaPoints
<1>2. Shared'
  BY <1>1, NoFileIsSound, GotoKeeps DEF Shared, AlphaInv, Sound, AlphaReadable
<1>3. alphaAlone' => Single'
  <2>. SUFFICES ASSUME alphaAlone' PROVE Single'
    OBVIOUS
  <2>1. alphaCall'[c].pc = "open_temp" /\ alphaAlone /\ \A d \in Writers \ {c} : AlphaAt(d, "idle")'
    BY <1>1, GotoKeeps
  <2>2. Single /\ Place(alphaCall[c], c, alphaFile, alphaTemp)
    BY <2>1 DEF AlphaInv, Single
  <2>3. Place(alphaCall'[c], c, alphaFile', alphaTemp')
    BY <1>1, <2>1, <2>2, GotoKeeps DEF Place, AlphaAt, RemoveTemp
  <2>. QED  BY <1>1, <2>1, <2>2, <2>3, SingleFrom DEF Single
<1>4. Forward
  BY <1>1, <1>2
     DEF AlphaInv, Shared, Sound, Forward, AlphaReadable, AlphaRecords, Planned, Completed
<1>. QED  BY <1>2, <1>3, <1>4 DEF Owed, AlphaInv

\* The temporary file is opened, or the command is refused.
LEMMA OpenTempStep == ASSUME AlphaInv, NEW c \in Writers, OpenTemp(c) PROVE Owed
<1>1. ~AlphaAt(c, "idle") /\ "write_temp" \in AlphaPoints /\ UNCHANGED alphaFile
  BY DEF OpenTemp, AlphaAt, AlphaPoints
<1>2. CASE Exists(alphaTemp)
  <2>1. AlphaReturn(c) /\ UNCHANGED alphaTemp
    BY <1>2 DEF OpenTemp
  <2>2. Shared'
    BY <1>1, <2>1, FilesUntouched, ReturnKeeps DEF Shared, AlphaInv
  <2>3. alphaAlone' => Single'
    BY <1>1, <2>1, ReturnKeeps DEF AlphaInv, Shared, Single, Place, AlphaAt
  <2>. QED  BY <1>1, <2>1, <2>2, <2>3, FilesUntouched DEF Owed, AlphaInv
<1>3. CASE ~Exists(alphaTemp)
  <2>1. AlphaGoto(c, "write_temp") /\ alphaTemp' = [rec |-> Torn, writer |-> c]
    BY <1>3 DEF OpenTemp
  <2>2. Shared'
    BY <1>1, <2>1, FilesAreSound, GotoKeeps DEF Shared, AlphaInv, Sound, AlphaReadable
  <2>3. alphaAlone' => Single'
    <3>. SUFFICES ASSUME alphaAlone' PROVE Single'
      OBVIOUS
    <3>1. alphaCall'[c].pc = "write_temp" /\ alphaAlone /\ \A d \in Writers \ {c} : AlphaAt(d, "idle")'
      BY <1>1, <2>1, GotoKeeps
    <3>2. Single /\ Place(alphaCall[c], c, alphaFile, alphaTemp)
      BY <3>1 DEF AlphaInv, Single
    <3>3. Place(alphaCall'[c], c, alphaFile', alphaTemp')
      BY <1>1, <2>1, <3>1, <3>2, GotoKeeps DEF Place, AlphaAt, OpenTemp
    <3>. QED  BY <1>1, <3>1, <3>2, <3>3, SingleFrom DEF Single
  <2>4. Forward
    BY <1>1, <2>2
       DEF AlphaInv, Shared, Sound, Forward, AlphaReadable, AlphaRecords, Planned, Completed
  <2>. QED  BY <2>2, <2>3, <2>4 DEF Owed, AlphaInv
<1>. QED  BY <1>2, <1>3

\* A command writes only what it has open: alone, its temporary file.
LEMMA WriteTempStep ==
    ASSUME AlphaInv, Nobody \notin Writers, NEW c \in Writers, WriteTemp(c)
    PROVE  Owed
<1>1. /\ ~AlphaAt(c, "idle") /\ "rename" \in AlphaPoints /\ AlphaGoto(c, "rename")
      /\ alphaTemp' = Written(alphaTemp, c) /\ alphaFile' = Written(alphaFile, c)
  BY DEF WriteTemp, AlphaAt, AlphaPoints
<1>2. Shared'
  BY <1>1, FilesAreSound, GotoKeeps DEF Shared, AlphaInv
<1>3. alphaAlone' =>
        /\ AlphaReadable(alphaFile) /\ alphaFile.writer = Nobody /\ alphaFile' = alphaFile
        /\ alphaTemp' = [rec |-> alphaCall[c].rec, writer |-> Nobody]
        /\ alphaCall[c].rec.state = alphaFile.rec.state + 1
  <2>. SUFFICES ASSUME alphaAlone'
                PROVE  /\ AlphaReadable(alphaFile) /\ alphaFile.writer = Nobody /\ alphaFile' = alphaFile
                       /\ alphaTemp' = [rec |-> alphaCall[c].rec, writer |-> Nobody]
                       /\ alphaCall[c].rec.state = alphaFile.rec.state + 1
    OBVIOUS
  <2>1. Single /\ alphaCall[c].pc = "write_temp"
    BY <1>1, GotoKeeps DEF AlphaInv, WriteTemp, AlphaAt
  <2>2. /\ AlphaReadable(alphaFile) /\ alphaFile.writer = Nobody
        /\ alphaTemp.writer = c /\ alphaCall[c].rec.state = alphaFile.rec.state + 1
    BY <2>1 DEF Single, Place
  <2>. QED  BY <1>1, <2>2 DEF Written
<1>4. alphaAlone' => Single'
  BY <1>1, <1>3, GotoKeeps, SingleFrom DEF Place
<1>5. Forward
  BY <1>2, <1>3
     DEF AlphaInv, Shared, Sound, Forward, AlphaReadable, AlphaRecords, Planned, Completed
<1>. QED  BY <1>2, <1>4, <1>5 DEF Owed, AlphaInv

\* Alone, the file that has the temporary name holds the successor.
LEMMA RenameStep == ASSUME AlphaInv, NEW c \in Writers, Rename(c) PROVE Owed
<1>1. ~AlphaAt(c, "idle") /\ AlphaReturn(c)
  BY DEF Rename, AlphaAt
<1>2. Shared'
  BY <1>1, NoFileIsSound, ReturnKeeps DEF Rename, Shared, AlphaInv, Sound, AlphaReadable
<1>3. alphaAlone' =>
        /\ AlphaReadable(alphaFile) /\ alphaTemp = [rec |-> alphaCall[c].rec, writer |-> Nobody]
        /\ alphaCall[c].rec.state = alphaFile.rec.state + 1
        /\ Good(alphaCall[c].rec)
  BY <1>1, ReturnKeeps DEF AlphaInv, Shared, Single, Place, Rename, AlphaAt
<1>4. alphaAlone' => alphaFile' = alphaTemp /\ AlphaReadable(alphaTemp)
  BY <1>3, MarksAreNoRecords DEF Rename, Exists, AlphaReadable, Good
<1>5. alphaAlone' => Single'
  <2>1. alphaAlone' => alphaFile'.writer = Nobody
    BY <1>3, <1>4
  <2>. QED  BY <1>1, <2>1, ReturnKeeps, IdleIsTyped, SingleFrom DEF Place, AlphaAt, AlphaInv, Shared
<1>6. Forward
  BY <1>2, <1>3, <1>4
     DEF AlphaInv, Shared, Sound, Forward, AlphaReadable, AlphaRecords, Planned, Completed
<1>. QED  BY <1>2, <1>5, <1>6 DEF Owed, AlphaInv

\* A command is killed: what it has open stays torn, and nothing else changes.
LEMMA KillStep == ASSUME AlphaInv, NEW c \in Writers, Kill(c) PROVE Owed
<1>1. ~AlphaAt(c, "idle") /\ AlphaReturn(c)
  BY DEF Kill
<1>2. /\ alphaFile'.rec = alphaFile.rec /\ alphaTemp'.rec = alphaTemp.rec
      /\ alphaFile'.writer \in {alphaFile.writer, Nobody}
      /\ Sound(alphaFile)' /\ Sound(alphaTemp)'
  BY DEF Kill, AlphaInv, Shared, Sound, AlphaReadable
<1>3. Shared'
  BY <1>1, <1>2, ReturnKeeps DEF Shared, AlphaInv
<1>4. alphaAlone' => Single'
  BY <1>1, <1>2, ReturnKeeps DEF AlphaInv, Single, Place, AlphaAt, AlphaReadable
<1>5. Forward
  BY <1>2 DEF AlphaInv, Shared, Sound, Forward, AlphaReadable, AlphaRecords, Planned, Completed
<1>. QED  BY <1>3, <1>4, <1>5 DEF Owed, AlphaInv

\* An Alpha record is earned whatever the interleaving, and as long as no two
\* commands of the operation overlapped it stays readable and moves forward
\* by one state at a time, whenever a command is killed (create, advance and
\* replace).  No process is called like the absence of one.
THEOREM RecordSafety ==
    ASSUME Nobody \notin Writers
    PROVE  AlphaSpec => RecordIsEarned
<1>1. AlphaInit => AlphaInv
  BY AlphaInitInv
<1>2. ASSUME AlphaInv, [AlphaNext]_alphaVars
      PROVE  AlphaInv' /\ [Forward]_alphaVars
  <2>1. CASE UNCHANGED alphaVars
    BY <1>2, <2>1
       DEF alphaVars, AlphaInv, Shared, Single, Place, Sound, AlphaReadable, AlphaAt, Good
  <2>2. ASSUME NEW c \in Writers,
               \/ Create(c) \/ OpenNew(c) \/ WriteNew(c)
               \/ Advance(c) \/ RemoveTemp(c) \/ OpenTemp(c) \/ WriteTemp(c) \/ Rename(c)
               \/ Kill(c)
        PROVE  Owed
    BY <1>2, <2>2, CreateStep, OpenNewStep, WriteNewStep, AdvanceStep, RemoveTempStep,
       OpenTempStep, WriteTempStep, RenameStep, KillStep
  <2>. QED  BY <1>2, <2>1, <2>2 DEF AlphaNext, Owed
<1>. QED  BY <1>1, <1>2, PTL DEF AlphaSpec, RecordIsEarned, Forward
=============================================================================
