---- MODULE AlphaRecord ----
(***************************************************************************)
(* The lifecycle record of an Internal Test Alpha (alpha_deployment.rs).   *)
(*                                                                         *)
(* plan creates the record of an operation, every later command reads it,  *)
(* computes its successor and replaces the file.  No lock is held: two     *)
(* commands of one operation interleave, and the replacement goes through  *)
(* a temporary file of one fixed name, so they also share that.            *)
(*                                                                         *)
(* A file is [rec, writer]: its content, Torn while a process that has it  *)
(* open has not written it to the end, and that process.  A rename moves   *)
(* the file with its writer.                                               *)
(***************************************************************************)
EXTENDS Naturals

CONSTANTS Writers       \* processes running commands of one operation

VARIABLES alphaFile,    \* <operation>.json
          alphaTemp,    \* .<operation>.json.new
          alphaCall,    \* per process: [pc, rec], the record it is about to write
          alphaAlone    \* no two commands have overlapped so far

alphaVars == <<alphaFile, alphaTemp, alphaCall, alphaAlone>>

\* State 0 is Planned, then Installed, Started, ReadinessVerified,
\* AcceptanceObserved, and 5 is Completed.
Planned   == 0
Completed == 5
Record(s, ready, receipt) == [state |-> s, readiness |-> ready, receipt |-> receipt]
Torn      == Record(100, FALSE, FALSE)
Absent    == Record(101, FALSE, FALSE)
Nobody    == "nobody"
NoFile    == [rec |-> Absent, writer |-> Nobody]
AlphaIdle      == [pc |-> "idle", rec |-> Absent]
Exists(f)   == f.rec # Absent
AlphaReadable(f) == f.rec \notin {Torn, Absent}

AlphaInit ==
    /\ alphaFile = NoFile
    /\ alphaTemp = NoFile
    /\ alphaCall = [c \in Writers |-> AlphaIdle]
    /\ alphaAlone = TRUE

AlphaAt(c, p)    == alphaCall[c].pc = p
Enter(c, p, r) ==
    /\ alphaCall' = [alphaCall EXCEPT ![c] = [pc |-> p, rec |-> r]]
    /\ alphaAlone' = (alphaAlone /\ \A o \in Writers \ {c} : AlphaAt(o, "idle"))
AlphaGoto(c, p)  == alphaCall' = [alphaCall EXCEPT ![c].pc = p] /\ UNCHANGED alphaAlone
AlphaReturn(c)   == alphaCall' = [alphaCall EXCEPT ![c] = AlphaIdle] /\ UNCHANGED alphaAlone

----
\* create: a record that is there is answered or refused, never rewritten.
Create(c) ==
    /\ AlphaAt(c, "idle")
    /\ ~Exists(alphaFile)
    /\ Enter(c, "create", Record(Planned, FALSE, FALSE))
    /\ UNCHANGED <<alphaFile, alphaTemp>>

\* create_new of write_new: another process may have been faster.
OpenNew(c) ==
    /\ AlphaAt(c, "create")
    /\ IF Exists(alphaFile)
       THEN AlphaReturn(c) /\ UNCHANGED alphaFile
       ELSE AlphaGoto(c, "write_new") /\ alphaFile' = [rec |-> Torn, writer |-> c]
    /\ UNCHANGED alphaTemp

\* What a process writes reaches the file it has open, under whatever name
\* that file has by now.
Written(f, c) == IF f.writer = c THEN [rec |-> alphaCall[c].rec, writer |-> Nobody] ELSE f

WriteNew(c) ==
    /\ AlphaAt(c, "write_new")
    /\ alphaFile' = Written(alphaFile, c)
    /\ AlphaReturn(c)
    /\ UNCHANGED alphaTemp

----
\* advance

\* The evidence a state needs is read when it is entered: the four readiness
\* facts, and a signed observation of this very operation.
Ready(r)    == r.readiness \/ r.state + 1 = 3
Observed(r) == r.receipt \/ r.state + 1 = 4

\* The one successor of a record; Completed has none.
Successors(r) ==
    {n \in {Record(r.state + 1, Ready(r), Observed(r))} : r.state < Completed}

\* The record is read and verified, and its successor computed.
Advance(c) ==
    /\ AlphaAt(c, "idle")
    /\ AlphaReadable(alphaFile)
    /\ \E n \in Successors(alphaFile.rec) : Enter(c, "remove", n)
    /\ UNCHANGED <<alphaFile, alphaTemp>>

\* replace removes a temporary file, whoever left it or is writing it.
RemoveTemp(c) ==
    /\ AlphaAt(c, "remove")
    /\ alphaTemp' = NoFile
    /\ AlphaGoto(c, "open_temp")
    /\ UNCHANGED alphaFile

\* Mutant: the record is rewritten in place.
OpenInPlace(c) ==
    /\ AlphaAt(c, "open_temp")
    /\ alphaFile' = [rec |-> Torn, writer |-> c]
    /\ AlphaGoto(c, "write_new")
    /\ UNCHANGED alphaTemp

OpenTemp(c) ==
    /\ AlphaAt(c, "open_temp")
    /\ IF Exists(alphaTemp)
       THEN AlphaReturn(c) /\ UNCHANGED alphaTemp
       ELSE AlphaGoto(c, "write_temp") /\ alphaTemp' = [rec |-> Torn, writer |-> c]
    /\ UNCHANGED alphaFile

WriteTemp(c) ==
    /\ AlphaAt(c, "write_temp")
    /\ alphaTemp' = Written(alphaTemp, c)
    /\ alphaFile' = Written(alphaFile, c)
    /\ AlphaGoto(c, "rename")

\* The rename takes the file that has the temporary name by now.
Rename(c) ==
    /\ AlphaAt(c, "rename")
    /\ IF Exists(alphaTemp)
       THEN alphaFile' = alphaTemp /\ alphaTemp' = NoFile
       ELSE UNCHANGED <<alphaFile, alphaTemp>>
    /\ AlphaReturn(c)

\* A kill: what the process had open stays as it is.
Kill(c) ==
    LET left(f) == IF f.writer = c THEN [f EXCEPT !.writer = Nobody] ELSE f
    IN  /\ ~AlphaAt(c, "idle")
        /\ alphaFile' = left(alphaFile)
        /\ alphaTemp' = left(alphaTemp)
        /\ AlphaReturn(c)

AlphaNext == \E c \in Writers :
    \/ Create(c) \/ OpenNew(c) \/ WriteNew(c)
    \/ Advance(c) \/ RemoveTemp(c) \/ OpenTemp(c) \/ WriteTemp(c) \/ Rename(c)
    \/ Kill(c)

AlphaSpec == AlphaInit /\ [][AlphaNext]_alphaVars

----
Earned(r) == /\ r.state >= 3 => r.readiness
             /\ r.state >= 4 => r.receipt

\* A record that can be read carries the evidence its state stands for, also
\* when commands overlap or are killed; and as long as no two overlapped, a
\* kill at any point neither makes the record unreadable nor takes it back:
\* it stays or moves on by one state, and Completed is final.
RecordIsEarned ==
    [][/\ AlphaReadable(alphaFile') => Earned(alphaFile'.rec)
       /\ alphaAlone' /\ AlphaReadable(alphaFile) =>
            /\ AlphaReadable(alphaFile')
            /\ alphaFile'.rec.state - alphaFile.rec.state \in {0, 1}]_alphaVars
====
