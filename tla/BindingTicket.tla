---- MODULE BindingTicket ----
(***************************************************************************)
(* deployment-binding issue, status and wait (deployment_binding.rs).      *)
(*                                                                         *)
(* issue stages a request on the host, runs a helper that draws a ticket,  *)
(* copies it over the output file, records its digest and state, and has a *)
(* second helper remove the host's copy.  status asks the server about the *)
(* ticket in the output, records the answer, and destroys the output once  *)
(* the ticket is used up; wait repeats status.                             *)
(*                                                                         *)
(* All of them hold the EC2 lock of the target.  The output and the record *)
(* are two files, the request on the host is never reconciled, and a call  *)
(* may be killed between any two of its steps.                             *)
(***************************************************************************)
EXTENDS Naturals

CONSTANTS Tickets,      \* tickets the server may issue, in this order
          MaxKills      \* kills and failed commands

VARIABLES ticketCall,   \* [cmd, pc, reply]: the running command
          ticketOutput, \* the output file: a ticket, NoTicket or Zeroed
          ticketRecord, \* [ticket, state] or NoRecord: the artifact of STATE_SUFFIX
          ticketRequest,\* the request file on the host
          ticketExport, \* the output file on the host
          ticketServer, \* the state of every ticket at the server
          ticketKills

ticketVars == <<ticketCall, ticketOutput, ticketRecord, ticketRequest,
                ticketExport, ticketServer, ticketKills>>

NoTicket == 0
Zeroed   == 100         \* overwritten, not yet unlinked
NoRecord == [ticket |-> NoTicket, state |-> "none"]
TicketIdle     == [cmd |-> "none", pc |-> "idle", reply |-> "none"]
Final    == {"consumed", "expired", "revoked"}  \* wait ends here
TicketAt(p)    == ticketCall.pc = p
TicketGoto(p)  == ticketCall' = [ticketCall EXCEPT !.pc = p]
TicketReturn   == ticketCall' = TicketIdle

\* parse_ticket: the ticket is for this target and has not expired.
Parses(t) == ticketServer[t] # "expired"
TicketReadable  == ticketOutput \in Tickets
Recorded(t, s) == [ticket |-> t, state |-> s]

Remote   == <<ticketRequest, ticketExport, ticketServer>>

TicketInit ==
    /\ ticketCall = TicketIdle
    /\ ticketOutput = NoTicket
    /\ ticketRecord = NoRecord
    /\ ticketRequest = "absent"
    /\ ticketExport = NoTicket
    /\ ticketServer = [t \in Tickets |-> "none"]
    /\ ticketKills = 0

----
\* issue

\* The target is Verified with nothing pending, and both helpers have the
\* digests of the bundle.
BeginIssue ==
    /\ TicketAt("idle")
    /\ ticketCall' = [TicketIdle EXCEPT !.cmd = "issue", !.pc = "stage"]
    /\ UNCHANGED <<ticketOutput, ticketRecord, Remote, ticketKills>>

\* stage_request copies without looking: a request an earlier call left
\* protected cannot be opened for writing, and the command fails.
StageRequest ==
    /\ TicketAt("stage")
    /\ IF ticketRequest = "protected"
       THEN TicketReturn /\ UNCHANGED ticketRequest
       ELSE TicketGoto("protect") /\ ticketRequest' = "plain"
    /\ UNCHANGED <<ticketOutput, ticketRecord, ticketExport, ticketServer, ticketKills>>

ProtectRequest ==
    /\ TicketAt("protect")
    /\ ticketRequest' = "protected"
    /\ TicketGoto("draw")
    /\ UNCHANGED <<ticketOutput, ticketRecord, ticketExport, ticketServer, ticketKills>>

\* The helper (external) draws the next ticket, or exports one again that is
\* still in use; it may consume the request.
Draw ==
    /\ \E t \in Tickets :
        /\ \/ /\ ticketServer[t] = "none"
              /\ \A u \in Tickets : u < t => ticketServer[u] # "none"
           \/ ticketServer[t] \in {"issued", "redeemed", "identity_bound"}
        /\ ticketServer' = [ticketServer EXCEPT ![t] = IF @ = "none" THEN "issued" ELSE @]
        /\ ticketExport' = t
    /\ ticketRequest' \in {ticketRequest, "absent"}

Exhausted == \A t \in Tickets : ticketServer[t] \in Final

DrawTicket ==
    /\ TicketAt("draw")
    /\ \/ Draw /\ TicketGoto("pull")
       \/ Exhausted /\ TicketReturn /\ UNCHANGED Remote
    /\ UNCHANGED <<ticketOutput, ticketRecord, ticketKills>>

\* pull_output renames the copy over whatever the output was.
PullOutput ==
    /\ TicketAt("pull")
    /\ IF ticketExport = NoTicket
       THEN TicketReturn /\ UNCHANGED ticketOutput
       ELSE TicketGoto("parse") /\ ticketOutput' = ticketExport
    /\ UNCHANGED <<ticketRecord, Remote, ticketKills>>

\* parse_ticket refuses a ticket that has expired, after the output has been
\* replaced; otherwise the record is written, as "issued".
ParseAndRecord ==
    /\ TicketAt("parse")
    /\ IF Parses(ticketOutput)
       THEN TicketGoto("cleanup") /\ ticketRecord' = Recorded(ticketOutput, "issued")
       ELSE TicketReturn /\ UNCHANGED ticketRecord
    /\ UNCHANGED <<ticketOutput, Remote, ticketKills>>

CleanUp ==
    /\ TicketAt("cleanup")
    /\ ticketExport' = NoTicket
    /\ ticketRequest' \in {ticketRequest, "absent"}
    /\ TicketReturn
    /\ UNCHANGED <<ticketOutput, ticketRecord, ticketServer, ticketKills>>

----
\* status

\* Mutant: the ticket in the output is not compared with the record.
BeginStatusUncompared ==
    /\ TicketAt("idle")
    /\ TicketReadable
    /\ ticketRecord # NoRecord
    /\ ticketCall' = [TicketIdle EXCEPT !.cmd = "status", !.pc = "ask"]
    /\ UNCHANGED <<ticketOutput, ticketRecord, Remote, ticketKills>>

\* The output must parse and be the one that was recorded; anything else is
\* refused before the server is asked.
BeginStatus ==
    /\ TicketAt("idle")
    /\ TicketReadable
    /\ ticketRecord.ticket = ticketOutput
    /\ ticketCall' = [TicketIdle EXCEPT !.cmd = "status", !.pc = "ask"]
    /\ UNCHANGED <<ticketOutput, ticketRecord, Remote, ticketKills>>

AskServer ==
    /\ TicketAt("ask")
    /\ ticketCall' = [ticketCall EXCEPT !.pc = "note", !.reply = ticketServer[ticketOutput]]
    /\ UNCHANGED <<ticketOutput, ticketRecord, Remote, ticketKills>>

\* The answer, by now perhaps an older one, goes into the record; the output
\* of a ticket that is used up is then destroyed.
NoteAnswer ==
    /\ TicketAt("note")
    /\ ticketRecord' = Recorded(ticketRecord.ticket, ticketCall.reply)
    /\ IF ticketCall.reply \in Final THEN TicketGoto("zero") ELSE TicketReturn
    /\ UNCHANGED <<ticketOutput, Remote, ticketKills>>

\* remove_output: overwritten, synced, unlinked.
ZeroOutput ==
    /\ TicketAt("zero")
    /\ ticketOutput' = Zeroed
    /\ TicketGoto("unlink")
    /\ UNCHANGED <<ticketRecord, Remote, ticketKills>>

UnlinkOutput ==
    /\ TicketAt("unlink")
    /\ ticketOutput' = NoTicket
    /\ TicketReturn
    /\ UNCHANGED <<ticketRecord, Remote, ticketKills>>

----
\* The environment.

\* A kill, or a failed command that ends the call; a command of the host that
\* was cut off may have had its effect.
Cut ==
    /\ ~TicketAt("idle")
    /\ ticketKills < MaxKills
    /\ ticketKills' = ticketKills + 1
    /\ \/ UNCHANGED Remote
       \/ /\ TicketAt("stage") /\ ticketRequest # "protected"
          /\ ticketRequest' \in {"plain", "torn"}
          /\ UNCHANGED <<ticketExport, ticketServer>>
       \/ /\ TicketAt("protect") /\ ticketRequest' = "protected"
          /\ UNCHANGED <<ticketExport, ticketServer>>
       \/ TicketAt("draw") /\ Draw
       \/ /\ TicketAt("cleanup") /\ ticketExport' = NoTicket
          /\ ticketRequest' \in {ticketRequest, "absent"}
          /\ UNCHANGED ticketServer
    /\ TicketReturn
    /\ UNCHANGED <<ticketOutput, ticketRecord>>

\* The app redeems and consumes a ticket; the server lets it expire or
\* revokes it.
Later(s) == CASE s = "issued"         -> {"redeemed", "expired", "revoked"}
              [] s = "redeemed"       -> {"identity_bound", "expired", "revoked"}
              [] s = "identity_bound" -> {"consumed", "expired", "revoked"}
              [] OTHER                -> {}
ServerMoves ==
    /\ \E t \in Tickets : \E s \in Later(ticketServer[t]) :
        ticketServer' = [ticketServer EXCEPT ![t] = s]
    /\ UNCHANGED <<ticketCall, ticketOutput, ticketRecord, ticketRequest, ticketExport, ticketKills>>

TicketStep ==
    \/ BeginIssue \/ StageRequest \/ ProtectRequest \/ DrawTicket \/ PullOutput
    \/ ParseAndRecord \/ CleanUp
    \/ BeginStatus \/ AskServer \/ NoteAnswer \/ ZeroOutput \/ UnlinkOutput

TicketNext == TicketStep \/ Cut \/ ServerMoves

TicketSpec == TicketInit /\ [][TicketNext]_ticketVars

----
Progress(s) == CASE s = "issued" -> {"issued", "redeemed", "identity_bound"} \cup Final
                 [] s = "redeemed" -> {"redeemed", "identity_bound"} \cup Final
                 [] s = "identity_bound" -> {"identity_bound"} \cup Final
                 [] OTHER -> {s}

\* The record never runs ahead of the server: what it says of its ticket is
\* what the server said of that ticket and of no other, although output and
\* record are two files and an issue may be cut off between them; and an
\* output is destroyed only when its ticket, and no newer one, is used up.
TicketIsHonest ==
    /\ ticketRecord # NoRecord => ticketServer[ticketRecord.ticket] \in Progress(ticketRecord.state)
    /\ ticketCall.pc \in {"zero", "unlink"} =>
          /\ ticketRecord.state \in Final
          /\ ticketOutput \in {ticketRecord.ticket, Zeroed}
====
