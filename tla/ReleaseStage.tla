---- MODULE ReleaseStage ----
(***************************************************************************)
(* Release assembly (release_materials.rs, with the source guard of        *)
(* source.rs): assemble and compose copy material into a staging directory *)
(* and publish it by one rename; verify reads a published directory.       *)
(*                                                                         *)
(* A run is one process.  It works through file descriptors: of the parent *)
(* directory, of its stage and of a lock file in the parent.  Around it    *)
(* the sources, the fragments, the repositories and the directories may    *)
(* change at any time; the guards are there to notice.  Content is a       *)
(* version; an edit always makes a new one, as mtime and ctime do.         *)
(***************************************************************************)
EXTENDS Naturals

CONSTANTS StageRuns,    \* processes, each running one command
          Material,     \* the files to be released
          Attested,     \* those of them whose digests the comparison covers
          MaxEdits      \* edits made by others

VARIABLES relRun,       \* per run: [pc, kind, parent, fragment, file, seen, copied, gap, inventory]
          relSource,    \* version of every source file
          relFragment,  \* version of the fragment documents
          relRepo,      \* the source repositories: "expected" or "changed"
          relParent,    \* which directory the path of the output's parent names
          relNames,     \* per parent: what "output" and every stage name refer to
          relContent,   \* content of every directory: [files, evidence, sums]
          relLock,      \* per parent: the run that holds .dirextalk-release.lock
          relEdits

relVars == <<relRun, relSource, relFragment, relRepo, relParent, relNames,
             relContent, relLock, relEdits>>

Unset   == 0
Foreign == 100          \* a directory no run created
Directories == StageRuns \cup {Foreign}
Parents == {1, 2}
Output  == 99          \* the name of the output
Names   == StageRuns \cup {Output}
Empty   == [m \in Material |-> Unset]
Whole(c) == \A m \in Material : c[m] # Unset

\* The content of a directory: the files, release-evidence.json (the digests of
\* the files, with the documents it refers to) and SHA256SUMS (the digests of
\* both).  A document that is not there is Empty.
Digests(c) == [files |-> c.files, evidence |-> c.evidence]
Blank == [files |-> Empty, evidence |-> Empty, sums |-> [files |-> Empty, evidence |-> Empty]]
Documented(f) == [files |-> f, evidence |-> f, sums |-> [files |-> f, evidence |-> f]]

World   == <<relSource, relFragment, relRepo, relParent, relEdits>>

RelInit ==
    /\ relRun = [r \in StageRuns |->
                    [pc |-> "new", kind |-> "none", parent |-> 1, fragment |-> Unset,
                     file |-> Unset, seen |-> Unset, copied |-> Empty, gap |-> 0, inventory |-> Blank]]
    /\ relSource = [m \in Material |-> 1]
    /\ relFragment = 1
    /\ relRepo \in {"expected", "changed"}
    /\ relParent = 1
    /\ relNames = [p \in Parents |-> [n \in Names |-> Unset]]
    /\ relContent = [d \in Directories |->
                       IF d = Foreign THEN Documented([m \in Material |-> 1]) ELSE Blank]
    /\ relLock = [p \in Parents |-> Unset]
    /\ relEdits = 0

RelAt(r, p)   == relRun[r].pc = p
Dir(r)        == relRun[r].parent
RelGoto(r, p) == relRun' = [relRun EXCEPT ![r].pc = p]

\* source.rs: every repository is clean, at the commit and tree expected of it.
SourcesExpected == relRepo = "expected"

\* The path the run was given still leads to the directory it opened, and its
\* name there still refers to the stage it made.
ParentMatches(r) == relParent = Dir(r)
StageMatches(r)  == relNames[Dir(r)][r] = r

\* The content of a directory, file by file, as read through its descriptor.
Scan(d) == relContent[d]

\* Artifacts, bills of material, notices and licences have the digests that a
\* release evidence names; recipes, inputs and manifest are not looked at.
MatchesEvidence(c, evidence) == \A m \in Attested : c.files[m] = evidence[m]

\* The second scan, against the inventory taken by the first.
Unchanged(d, r) == Scan(d) = relRun[r].inventory

Write(r, m, v) == relContent' = [relContent EXCEPT ![r].files[m] = v]   \* with O_EXCL
Unlock(r)  == relLock' = [p \in Parents |-> IF relLock[p] = r THEN Unset ELSE relLock[p]]

\* Mutant: a stage is left behind.
LeaveStage(r) ==
    /\ RelGoto(r, "err")
    /\ UNCHANGED <<relNames, relContent>>
    /\ Unlock(r)

\* Drop of a Stage that was not published: the stage is cleared and removed if
\* its name still refers to it; the lock is released after that.
Refuse(r) ==
    /\ RelGoto(r, "err")
    /\ IF StageMatches(r)
       THEN /\ relNames' = [relNames EXCEPT ![Dir(r)][r] = Unset]
            /\ relContent' = [relContent EXCEPT ![r] = Blank]
       ELSE UNCHANGED <<relNames, relContent>>
    /\ Unlock(r)

\* A check either lets the run go on or refuses.
Check(r, ok, p) ==
    IF ok THEN RelGoto(r, p) /\ UNCHANGED <<relNames, relContent, relLock>> ELSE Refuse(r)

----
\* Before the stage.

\* assemble: every repository is locked against other assemblies, clean and
\* at the expected commit and tree.
BeginAssemble(r) ==
    /\ RelAt(r, "new")
    /\ relRun' = [relRun EXCEPT ![r].kind = "assemble",
                                ![r].pc = IF SourcesExpected THEN "create" ELSE "err"]
    /\ UNCHANGED <<relNames, relContent, relLock, World>>

\* compose: five fragments are read, each between two equal stats.
BeginCompose(r) ==
    /\ RelAt(r, "new")
    /\ relRun' = [relRun EXCEPT ![r].kind = "compose", ![r].pc = "create",
                                ![r].fragment = relFragment]
    /\ UNCHANGED <<relNames, relContent, relLock, World>>

\* Stage::create: the parent is opened and its chain of directories noted; the
\* lock is tried; a directory of a fresh name is made.
CreateStage(r) ==
    /\ RelAt(r, "create")
    /\ IF relLock[relParent] = Unset
       THEN /\ relLock' = [relLock EXCEPT ![relParent] = r]
            /\ relNames' = [relNames EXCEPT ![relParent][r] = r]
            /\ relRun' = [relRun EXCEPT ![r].pc = "exists", ![r].parent = relParent]
       ELSE RelGoto(r, "err") /\ UNCHANGED <<relLock, relNames>>
    /\ UNCHANGED <<relContent, World>>

CheckOutput(r) ==
    /\ RelAt(r, "exists")
    /\ Check(r, relNames[Dir(r)][Output] = Unset, "copy")
    /\ UNCHANGED World

----
\* The material.

\* A file is opened, its metadata noted, and read.
BeginCopy(r) ==
    /\ RelAt(r, "copy")
    /\ \E m \in Material :
        /\ relRun[r].copied[m] = Unset
        /\ relRun' = [relRun EXCEPT ![r].pc = "read", ![r].file = m, ![r].seen = relSource[m]]
    /\ UNCHANGED <<relNames, relContent, relLock, World>>

\* It is accepted if the metadata have not changed, and written through the
\* descriptor of the stage.
EndCopy(r) ==
    LET m == relRun[r].file
        c == [relRun[r].copied EXCEPT ![m] = relRun[r].seen]
    IN  /\ RelAt(r, "read")
        /\ IF relSource[m] = relRun[r].seen
           THEN /\ Write(r, m, relRun[r].seen)
                /\ relRun' = [relRun EXCEPT ![r].copied = c,
                                            ![r].pc = IF ~Whole(c) THEN "copy"
                                                      ELSE IF relRun[r].kind = "assemble" THEN "evidence"
                                                      ELSE "inventory"]
                /\ UNCHANGED <<relNames, relLock>>
           ELSE Refuse(r)
        /\ UNCHANGED World

\* assemble writes the evidence of its copies.  gap notes how many edits others
\* had made by then.
WriteEvidence(r) ==
    /\ RelAt(r, "evidence")
    /\ relContent' = [relContent EXCEPT ![r].evidence = relRun[r].copied]
    /\ relRun' = [relRun EXCEPT ![r].pc = "compare", ![r].gap = relEdits]
    /\ UNCHANGED <<relNames, relLock, World>>

\* It compares the files of the stage with that evidence, as it has it in
\* memory.
CompareEvidence(r) ==
    /\ RelAt(r, "compare")
    /\ Check(r, MatchesEvidence(Scan(r), relRun[r].copied), "inventory")
    /\ UNCHANGED World

\* The stage is read again, and this scan is the inventory of the release.
\* assemble does not compare it with the evidence: it writes the checksums of
\* what it read and scans once more, to see that only they were added.  (An
\* edit between those two scans is refused, as one after both is later.)
\* compose requires that no file is missing or too many.
TakeInventory(r) ==
    LET assemble == relRun[r].kind = "assemble"
        c == IF assemble THEN [Scan(r) EXCEPT !.sums = Digests(Scan(r))] ELSE Scan(r)
    IN  /\ RelAt(r, "inventory")
        /\ IF assemble \/ Whole(c.files)
           THEN /\ relContent' = [relContent EXCEPT ![r] = c]
                /\ relRun' = [relRun EXCEPT ![r].pc = "sources", ![r].inventory = c,
                                            ![r].gap = relEdits - @]
                /\ UNCHANGED <<relNames, relLock>>
           ELSE Refuse(r)
        /\ UNCHANGED World

----
\* Publication.

\* assemble takes a second snapshot of every repository; compose has none.
FinishSources(r) ==
    /\ RelAt(r, "sources")
    /\ Check(r, relRun[r].kind = "assemble" => SourcesExpected, "namespace")
    /\ UNCHANGED World

\* The path still leads to the parent, and the stage name to the stage.
CheckNamespace(r) ==
    /\ RelAt(r, "namespace")
    /\ Check(r, ParentMatches(r) /\ StageMatches(r), "fragments")
    /\ UNCHANGED World

\* compose: every fragment is still the file that was read.
CheckFragments(r) ==
    /\ RelAt(r, "fragments")
    /\ Check(r, relRun[r].kind = "compose" => relFragment = relRun[r].fragment, "validate")
    /\ UNCHANGED World

ValidateStage(r) ==
    /\ RelAt(r, "validate")
    /\ Check(r, Unchanged(r, r), "rename")
    /\ UNCHANGED World

\* renameat2 with NOREPLACE, inside the parent's descriptor: what the stage
\* name refers to by now becomes the output, if there is none.
RenameStage(r) ==
    LET n == relNames[Dir(r)]
    IN  /\ RelAt(r, "rename")
        /\ IF n[Output] = Unset /\ n[r] # Unset
           THEN /\ relNames' = [relNames EXCEPT ![Dir(r)] = [n EXCEPT ![Output] = n[r], ![r] = Unset]]
                /\ RelGoto(r, "confirm")
                /\ UNCHANGED <<relContent, relLock>>
           ELSE Refuse(r)
        /\ UNCHANGED World

\* Mutant: what was published is not looked at again.
ConfirmBlindly(r) ==
    /\ RelAt(r, "confirm")
    /\ RelGoto(r, "ok")
    /\ Unlock(r)
    /\ UNCHANGED <<relNames, relContent, World>>

\* The output is opened again: the same directory, the same inventory, the
\* same parent.  A failure here is reported, but the output stays.
Confirm(r) ==
    /\ RelAt(r, "confirm")
    /\ RelGoto(r, IF /\ relNames[Dir(r)][Output] = r
                     /\ Unchanged(r, r)
                     /\ ParentMatches(r)
                  THEN "ok" ELSE "err")
    /\ Unlock(r)
    /\ UNCHANGED <<relNames, relContent, World>>

----
\* verify: two scans and everything the documents say of each other between.

\* What validate_dir accepts: no file is missing, and the documents of the
\* directory describe its files.  Who made them is not asked.
Consistent(c) == Whole(c.files) /\ c = Documented(c.files)

BeginVerify(r) ==
    LET d == relNames[relParent][Output]
    IN  /\ RelAt(r, "new")
        /\ d # Unset
        /\ relRun' = [relRun EXCEPT ![r].kind = "verify", ![r].parent = relParent, ![r].seen = d,
                         ![r].pc = IF Consistent(Scan(d)) THEN "rescan" ELSE "err",
                         ![r].inventory = Scan(d)]
        /\ UNCHANGED <<relNames, relContent, relLock, World>>

Rescan(r) ==
    LET d == relRun[r].seen
    IN  /\ RelAt(r, "rescan")
        /\ RelGoto(r, IF Unchanged(d, r) /\ relNames[relParent][Output] = d
                      THEN "ok" ELSE "err")
        /\ UNCHANGED <<relNames, relContent, relLock, World>>

----
\* The environment.

Ended(r) == relRun[r].pc \in {"new", "ok", "err", "killed"}

\* A kill: descriptors are closed, so the lock is free; the stage stays.
RelKill(r) ==
    /\ ~Ended(r)
    /\ RelGoto(r, "killed")
    /\ Unlock(r)
    /\ UNCHANGED <<relNames, relContent, World>>

Edit == relEdits < MaxEdits /\ relEdits' = relEdits + 1

EditInputs ==
    /\ Edit
    /\ \/ \E m \in Material : relSource' = [relSource EXCEPT ![m] = relEdits + 2] /\ UNCHANGED <<relFragment, relRepo>>
       \/ relFragment' = relEdits + 2 /\ UNCHANGED <<relSource, relRepo>>
       \/ relRepo' \in {"expected", "changed"} \ {relRepo} /\ UNCHANGED <<relSource, relFragment>>
    /\ UNCHANGED <<relRun, relParent, relNames, relContent, relLock>>

\* Someone moves the parent directory away and another into its place.
SwapParent ==
    /\ Edit
    /\ relParent' \in Parents \ {relParent}
    /\ UNCHANGED <<relRun, relSource, relFragment, relRepo, relNames, relContent, relLock>>

\* Someone makes an output, or replaces a stage by another directory.
PlaceForeign ==
    /\ Edit
    /\ \E n \in Names :
        /\ IF n = Output THEN relNames[relParent][n] = Unset
                         ELSE relNames[relParent][n] = n /\ ~Ended(n)
        /\ relNames' = [relNames EXCEPT ![relParent][n] = Foreign]
    /\ UNCHANGED <<relRun, relSource, relFragment, relRepo, relParent, relContent, relLock>>

\* Someone edits or removes a file of a stage or of a published directory, or
\* edits its evidence, or edits a file and all that describes it.
Edited(c, m, v) ==
    {[c EXCEPT !.files[m] = Unset], [c EXCEPT !.files[m] = v]}
    \cup IF c.evidence = Empty THEN {}
         ELSE {[c EXCEPT !.evidence[m] = v], Documented([c.files EXCEPT ![m] = v])}
Tamper ==
    /\ Edit
    /\ \E d \in Directories : \E m \in Material :
        /\ relContent[d].files[m] # Unset
        /\ \E c \in Edited(relContent[d], m, relEdits + 2) : relContent' = [relContent EXCEPT ![d] = c]
    /\ UNCHANGED <<relRun, relSource, relFragment, relRepo, relParent, relNames, relLock>>

Environment == EditInputs \/ SwapParent \/ PlaceForeign \/ Tamper

RelNext ==
    \/ \E r \in StageRuns :
        \/ BeginAssemble(r) \/ BeginCompose(r) \/ CreateStage(r) \/ CheckOutput(r)
        \/ BeginCopy(r) \/ EndCopy(r)
        \/ WriteEvidence(r) \/ CompareEvidence(r) \/ TakeInventory(r)
        \/ FinishSources(r) \/ CheckNamespace(r) \/ CheckFragments(r) \/ ValidateStage(r)
        \/ RenameStage(r) \/ Confirm(r)
        \/ BeginVerify(r) \/ Rescan(r)
        \/ RelKill(r)
    \/ Environment

RelSpec == RelInit /\ [][RelNext]_relVars

----
Succeeds(r) == ~RelAt(r, "ok") /\ relRun'[r].pc = "ok"
Fails(r)    == ~RelAt(r, "err") /\ relRun'[r].pc = "err"

\* A run that reports success has under the path it was given the content it
\* took the inventory of.  assemble and compose: in the very directory they
\* made; compose with every file; assemble with checksums of what is there
\* and, unless somebody made an edit between the writing of the evidence and
\* the inventory, with the evidence of what it copied and the attested files
\* as that evidence has them.  verify: with documents that describe the files.
ReleaseIsTrue ==
    [][\A r \in StageRuns : Succeeds(r) =>
        LET x == relRun[r]
            d == relNames'[relParent'][Output]
            c == relContent'[d]
        IN  /\ c = x.inventory
            /\ x.kind # "verify" => d = r
            /\ x.kind = "compose" => Whole(c.files)
            /\ x.kind = "assemble" =>
                 /\ c.sums = Digests(c)
                 /\ x.gap = 0 => c.evidence = x.copied /\ MatchesEvidence(c, x.copied)
            /\ x.kind = "verify" => Consistent(c)]_relVars

\* An output that exists is never replaced; a run that fails leaves no stage
\* behind unless another put a directory in its place, and no output unless the
\* rename was done; and two runs never have a stage in one parent.
Working(r) == ~Ended(r) /\ relRun[r].pc # "create" /\ relRun[r].kind # "verify"
RefusalLeavesNothing ==
    [][/\ \A p \in Parents : relNames[p][Output] \in {Unset, relNames'[p][Output]}
       /\ \A r \in StageRuns : Fails(r) =>
            /\ \A p \in Parents : relNames'[p][r] # r
            /\ ~RelAt(r, "confirm") => \A p \in Parents : relNames'[p][Output] # r
       /\ \A r, s \in StageRuns : r # s /\ Working(r) /\ Working(s) => Dir(r) # Dir(s)]_relVars
====
