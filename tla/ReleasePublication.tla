------------------------- MODULE ReleasePublication -------------------------
(***************************************************************************)
(* The packages of a release: build (plan.rs, receipt.rs) compiles the     *)
(* binaries of the source repositories and writes a receipt, assemble      *)
(* (archive.rs) packs them twice, into an archive and an npm package, and  *)
(* publish (publish.rs) sends the result to the places asked for.          *)
(*                                                                         *)
(* The three commands share directories and take no lock.  They may be     *)
(* killed, and may overlap, while the repositories move on.  A binary is   *)
(* identified with the state of the repository it was compiled from; one   *)
(* target stands for all: the commands repeat the same steps for each.     *)
(***************************************************************************)
EXTENDS Naturals

CONSTANTS Runs,         \* processes that run one command after the other
          MaxChanges    \* bound on the changes of the repositories

VARIABLES pubRun,       \* per process: its step and what it read
          pubRepo,      \* per repository: [head, clean]
          pubArtifact,  \* the binaries in the artifacts directory
          pubReceipt,   \* build-receipt.json: [state, sources, binaries]
          pubOutput,    \* the release directory: [archive, npm, manifest]
          pubRemote,    \* [image, npm, github]: the image of this version, and
                        \* whether npm and GitHub have the version
          pubChanges,
          pubAlone      \* no two assemblies wrote to the release directory at once

pubVars == <<pubRun, pubRepo, pubArtifact, pubReceipt, pubOutput,
             pubRemote, pubChanges, pubAlone>>

Binaries == {"deployer", "connector"}
Repos    == Binaries \cup {"server"}
Places   == {"image", "npm", "github"}

\* What a binary can be: compiled from commit 3 or a later one, or
None        == 0
Garbage     == 1        \* a file that was cut off
Uncommitted == 2        \* compiled in a repository with local changes
FirstCommit == 3
Nothing     == [b \in Binaries |-> None]
Nowhere     == [p \in Repos |-> None]

NoArchive  == [state |-> "none", binaries |-> Nothing, metadata |-> Nothing]
NoPackage  == [state |-> "none", binaries |-> Nothing]
NoManifest == [state |-> "none", sources |-> Nowhere, archive |-> NoArchive, npm |-> Nothing]
NoOutput   == [archive |-> NoArchive, npm |-> NoPackage, manifest |-> NoManifest]
PubIdle       == [pc |-> "idle", sources |-> Nowhere, compiled |-> None, digests |-> Nothing,
                  archive |-> NoArchive, npm |-> Nothing, manifest |-> NoManifest, todo |-> {}]

PubInit ==
    /\ pubRun = [r \in Runs |-> PubIdle]
    /\ pubRepo = [p \in Repos |-> [head |-> FirstCommit, clean |-> TRUE]]
    /\ pubArtifact = Nothing
    /\ pubReceipt = [state |-> "none", sources |-> Nothing, binaries |-> Nothing]
    /\ pubOutput = NoOutput
    /\ pubRemote = [image |-> None, npm |-> FALSE, github |-> FALSE]
    /\ pubChanges = 0
    /\ pubAlone = TRUE

PubAt(r, p)   == pubRun[r].pc = p
PubGoto(r, p) == pubRun' = [pubRun EXCEPT ![r].pc = p]
End(r)     == pubRun' = [pubRun EXCEPT ![r] = PubIdle]
Tree(p)    == IF pubRepo[p].clean THEN pubRepo[p].head ELSE Uncommitted

\* SourceRevisions: the commits of the repositories (those the manifest pins
\* are compared with them all the same), and whether the repositories ps are
\* clean and still there.
Resolved           == [p \in Repos |-> pubRepo[p].head]
Expected(ps, revs) == \A p \in ps : pubRepo[p] = [head |-> revs[p], clean |-> TRUE]
OfBinaries(revs)   == [b \in Binaries |-> revs[b]]

\* A command begins, in the first process that is free.  Assemblies may
\* overlap each other; build and publish are taken to run alone.
Begin(r, run, among) ==
    /\ PubAt(r, "idle")
    /\ \A s \in Runs : /\ pubRun[s].pc \in {"idle"} \cup among
                       /\ s < r => ~PubAt(s, "idle")
    /\ pubRun' = [pubRun EXCEPT ![r] = run]

Files  == <<pubArtifact, pubReceipt, pubOutput>>
Others == <<pubRepo, pubRemote, pubChanges, pubAlone>>

-----------------------------------------------------------------------------
(* build.                                                                  *)

StartBuild(r) ==
    /\ Begin(r, [PubIdle EXCEPT !.pc = "verify", !.sources = Resolved], {})
    /\ UNCHANGED <<Files, Others>>

VerifyBinarySources(r) ==
    /\ PubAt(r, "verify")
    /\ IF Expected(Binaries, pubRun[r].sources) THEN PubGoto(r, "cargo") ELSE End(r)
    /\ UNCHANGED <<Files, Others>>

\* cargo compiles into its own target directory; what it left there in an
\* earlier run is not read.
BuildDeployer(r) ==
    /\ PubAt(r, "cargo")
    /\ pubRun' = [pubRun EXCEPT ![r].pc = "go", ![r].compiled = Tree("deployer")]
    /\ UNCHANGED <<Files, Others>>

\* go compiles into the artifacts directory.
BuildConnector(r) ==
    /\ PubAt(r, "go")
    /\ pubArtifact' = [pubArtifact EXCEPT !["connector"] = Tree("connector")]
    /\ PubGoto(r, "collect")
    /\ UNCHANGED <<pubReceipt, pubOutput, Others>>

Collect(r) ==
    /\ PubAt(r, "collect")
    /\ pubArtifact' = [pubArtifact EXCEPT !["deployer"] = pubRun[r].compiled]
    /\ PubGoto(r, "digest")
    /\ UNCHANGED <<pubReceipt, pubOutput, Others>>

DigestBinaries(r) ==
    /\ PubAt(r, "digest")
    /\ pubRun' = [pubRun EXCEPT ![r].pc = "receipt", ![r].digests = pubArtifact]
    /\ UNCHANGED <<Files, Others>>

WriteReceipt(r) ==
    /\ PubAt(r, "receipt")
    /\ pubReceipt' = [state |-> "whole", sources |-> OfBinaries(pubRun[r].sources),
                      binaries |-> pubRun[r].digests]
    /\ End(r)
    /\ UNCHANGED <<pubArtifact, pubOutput, Others>>

-----------------------------------------------------------------------------
(* assemble.                                                               *)

Assembling == {"prepare", "inputs", "measure", "open", "archive", "asset", "npm",
               "vendor", "package", "manifest"}

StartAssemble(r) ==
    /\ Begin(r, [PubIdle EXCEPT !.pc = "prepare", !.sources = Resolved], Assembling)
    /\ UNCHANGED <<Files, Others>>

Packing(s) == pubRun[s].pc \in Assembling \ {"prepare"}

\* Every repository is at its commit, and the output directory is empty.
PrepareOutput(r) ==
    /\ PubAt(r, "prepare")
    /\ IF Expected(Repos, pubRun[r].sources) /\ pubOutput = NoOutput
       THEN PubGoto(r, "inputs") ELSE End(r)
    /\ pubAlone' = (pubAlone /\ \A s \in Runs \ {r} : ~Packing(s))
    /\ UNCHANGED <<pubRepo, pubRemote, pubChanges, Files>>

\* Mutant: the receipt is checked for its commits only.
VerifyReceiptSources(r) ==
    /\ PubAt(r, "inputs")
    /\ IF /\ pubReceipt.state = "whole"
          /\ pubReceipt.sources = OfBinaries(pubRun[r].sources)
          /\ \A b \in Binaries : pubArtifact[b] # None
       THEN PubGoto(r, "measure") ELSE End(r)
    /\ UNCHANGED <<Files, Others>>

\* load_and_verify: the receipt is of these commits and of these binaries.
VerifyReceipt(r) ==
    /\ PubAt(r, "inputs")
    /\ IF /\ pubReceipt.state = "whole"
          /\ pubReceipt.sources = OfBinaries(pubRun[r].sources)
          /\ pubReceipt.binaries = pubArtifact
       THEN PubGoto(r, "measure") ELSE End(r)
    /\ UNCHANGED <<Files, Others>>

\* The digests that go into the metadata of the archive are taken once more.
DigestInputs(r) ==
    /\ PubAt(r, "measure")
    /\ pubRun' = [pubRun EXCEPT ![r].pc = "open", ![r].digests = pubArtifact]
    /\ UNCHANGED <<Files, Others>>

OpenArchive(r) ==
    /\ PubAt(r, "open")
    /\ pubOutput' = [pubOutput EXCEPT !.archive = [NoArchive EXCEPT !.state = "open"]]
    /\ PubGoto(r, "archive")
    /\ UNCHANGED <<pubArtifact, pubReceipt, Others>>

\* Both binaries are read again and appended, the metadata after them.
WriteArchive(r) ==
    /\ PubAt(r, "archive")
    /\ pubOutput' = [pubOutput EXCEPT !.archive =
                        [state |-> "whole", binaries |-> pubArtifact, metadata |-> pubRun[r].digests]]
    /\ PubGoto(r, "asset")
    /\ UNCHANGED <<pubArtifact, pubReceipt, Others>>

DigestArchive(r) ==
    /\ PubAt(r, "asset")
    /\ pubRun' = [pubRun EXCEPT ![r].pc = "npm", ![r].archive = pubOutput.archive]
    /\ UNCHANGED <<Files, Others>>

\* The directory of the npm package must not be there.
CreatePackage(r) ==
    /\ PubAt(r, "npm")
    /\ IF pubOutput.npm.state = "none"
       THEN /\ pubOutput' = [pubOutput EXCEPT !.npm.state = "open"]
            /\ PubGoto(r, "vendor")
       ELSE End(r) /\ UNCHANGED pubOutput
    /\ UNCHANGED <<pubArtifact, pubReceipt, Others>>

\* Each binary is copied again, the deployer first; what the receipt says is
\* not looked at any more.
CopyBinaries(r) ==
    LET b == IF pubOutput.npm.binaries["deployer"] = None THEN "deployer" ELSE "connector"
    IN  /\ PubAt(r, "vendor")
        /\ pubOutput' = [pubOutput EXCEPT !.npm.binaries[b] = pubArtifact[b]]
        /\ PubGoto(r, IF b = "deployer" THEN "vendor" ELSE "package")
        /\ UNCHANGED <<pubArtifact, pubReceipt, Others>>

\* package.json, launchers and licences complete the package; then the
\* digests of its files are taken.
DigestPackage(r) ==
    /\ PubAt(r, "package")
    /\ pubOutput' = [pubOutput EXCEPT !.npm.state = "whole"]
    /\ pubRun' = [pubRun EXCEPT ![r].pc = "manifest", ![r].npm = pubOutput.npm.binaries]
    /\ UNCHANGED <<pubArtifact, pubReceipt, Others>>

\* github-assets.json comes last.
WriteManifest(r) ==
    /\ PubAt(r, "manifest")
    /\ pubOutput' = [pubOutput EXCEPT !.manifest =
                        [state |-> "whole", sources |-> pubRun[r].sources,
                         archive |-> pubRun[r].archive, npm |-> pubRun[r].npm]]
    /\ End(r)
    /\ UNCHANGED <<pubArtifact, pubReceipt, Others>>

-----------------------------------------------------------------------------
(* publish.                                                                *)

\* validate_assembled_release: the files are those the manifest lists.
Valid(m) ==
    /\ m.state = "whole"
    /\ pubOutput.archive = m.archive
    /\ pubOutput.npm.state # "none" /\ pubOutput.npm.binaries = m.npm

\* The plan: places are chosen and the release is validated.
PlanPublication(r) ==
    \E places \in SUBSET Places \ {{}} :
        /\ Valid(pubOutput.manifest)
        /\ Begin(r, [PubIdle EXCEPT !.pc = "authorise", !.todo = places], {})
        /\ UNCHANGED <<Files, Others>>

\* execute reads the manifest again and asks every repository; it has looked
\* for credentials before.
VerifyPublishable(r) ==
    LET m == pubOutput.manifest
    IN  /\ PubAt(r, "authorise")
        /\ IF m.state = "whole" /\ Expected(Repos, m.sources)
           THEN pubRun' = [pubRun EXCEPT ![r].pc = "validate", ![r].manifest = m]
           ELSE End(r)
        /\ UNCHANGED <<Files, Others>>

ValidateRelease(r) ==
    /\ PubAt(r, "validate")
    /\ IF Valid(pubRun[r].manifest) THEN PubGoto(r, "send") ELSE End(r)
    /\ UNCHANGED <<Files, Others>>

Sent(r, p, remote) ==
    /\ pubRemote' = remote
    /\ pubRun' = [pubRun EXCEPT ![r] = IF pubRun[r].todo = {p} THEN PubIdle
                                     ELSE [pubRun[r] EXCEPT !.todo = pubRun[r].todo \ {p}]]
    /\ UNCHANGED <<pubRepo, pubChanges, pubAlone, Files>>

\* docker builds the image once more, from the repository, and pushes it over
\* the one of this version.
PushImage(r) ==
    /\ PubAt(r, "send")
    /\ "image" \in pubRun[r].todo
    /\ Sent(r, "image", [pubRemote EXCEPT !.image = Tree("server")])

\* npm and GitHub refuse a version they have.  They take what is in the
\* directory by now.
PublishNpm(r) ==
    /\ PubAt(r, "send")
    /\ "image" \notin pubRun[r].todo /\ "npm" \in pubRun[r].todo
    /\ ~pubRemote.npm
    /\ Sent(r, "npm", [pubRemote EXCEPT !.npm = TRUE])

PublishGithub(r) ==
    /\ PubAt(r, "send")
    /\ pubRun[r].todo = {"github"}
    /\ ~pubRemote.github
    /\ Sent(r, "github", [pubRemote EXCEPT !.github = TRUE])

-----------------------------------------------------------------------------
(* The environment.                                                        *)

\* A command fails or is killed; a file it was writing may be cut off.
PubStop(r) ==
    /\ ~PubAt(r, "idle")
    /\ End(r)
    /\ \/ UNCHANGED Files
       \/ /\ PubAt(r, "go")
          /\ pubArtifact' = [pubArtifact EXCEPT !["connector"] = Garbage]
          /\ UNCHANGED <<pubReceipt, pubOutput>>
       \/ /\ PubAt(r, "collect")
          /\ pubArtifact' = [pubArtifact EXCEPT !["deployer"] = Garbage]
          /\ UNCHANGED <<pubReceipt, pubOutput>>
       \/ /\ PubAt(r, "receipt")
          /\ pubReceipt' = [pubReceipt EXCEPT !.state = "torn"]
          /\ UNCHANGED <<pubArtifact, pubOutput>>
       \/ /\ PubAt(r, "manifest")
          /\ pubOutput' = [pubOutput EXCEPT !.manifest.state = "torn"]
          /\ UNCHANGED <<pubArtifact, pubReceipt>>
    /\ UNCHANGED <<Others>>

\* Someone commits to a repository, edits it, or takes the edits back; not
\* while a compiler reads it: nothing would notice that.
Compiling(r) == pubRun[r].pc \in {"cargo", "go", "validate", "send"}
ChangeRepository ==
    /\ pubChanges < MaxChanges
    /\ \A r \in Runs : ~Compiling(r)
    /\ pubChanges' = pubChanges + 1
    /\ \E p \in Repos :
        \/ pubRepo' = [pubRepo EXCEPT ![p] = [head |-> @.head + 1, clean |-> TRUE]]
        \/ pubRepo' = [pubRepo EXCEPT ![p].clean = ~@]
    /\ UNCHANGED <<pubRun, pubRemote, pubAlone, Files>>

\* Between commands someone empties the release directory, as after an
\* assemble that failed.
ClearOutput ==
    /\ pubOutput # NoOutput
    /\ \A r \in Runs : PubAt(r, "idle")
    /\ pubOutput' = NoOutput
    /\ pubAlone' = TRUE
    /\ UNCHANGED <<pubRun, pubRepo, pubRemote, pubChanges,
                   pubArtifact, pubReceipt>>

PubNext ==
    \/ \E r \in Runs :
        \/ StartBuild(r) \/ VerifyBinarySources(r) \/ BuildDeployer(r) \/ BuildConnector(r)
        \/ Collect(r) \/ DigestBinaries(r) \/ WriteReceipt(r)
        \/ StartAssemble(r) \/ PrepareOutput(r) \/ VerifyReceipt(r) \/ DigestInputs(r)
        \/ OpenArchive(r) \/ WriteArchive(r) \/ DigestArchive(r)
        \/ CreatePackage(r) \/ CopyBinaries(r) \/ DigestPackage(r) \/ WriteManifest(r)
        \/ PlanPublication(r) \/ VerifyPublishable(r) \/ ValidateRelease(r)
        \/ PushImage(r) \/ PublishNpm(r) \/ PublishGithub(r)
        \/ PubStop(r)
    \/ ChangeRepository
    \/ ClearOutput

PubSpec == PubInit /\ [][PubNext]_pubVars

-----------------------------------------------------------------------------
\* What is published is one release: the archive is the one the manifest
\* lists, its metadata tell the truth about its binaries, the npm package has
\* the same binaries, and all of them, and the image, are of the commits the
\* manifest names; whatever command was cut off before and wherever the
\* repositories moved, unless two assemblies wrote to the directory at once.
\* Even then only one of them completes: no manifest replaces another.
PublishedIsBuilt ==
    [][/\ pubAlone /\ pubRemote' # pubRemote =>
            LET m == pubOutput.manifest
            IN  /\ pubRemote'.github # pubRemote.github =>
                      pubOutput.archive = m.archive /\ m.archive.binaries = m.archive.metadata
                /\ pubRemote'.npm # pubRemote.npm =>
                      pubOutput.npm.binaries = m.npm /\ m.npm = m.archive.binaries
                /\ m.archive.binaries = OfBinaries(m.sources)
                /\ pubRemote'.image \in {pubRemote.image, m.sources["server"]}
       /\ \/ pubOutput.manifest.state = "none"
          \/ pubOutput' = NoOutput
          \/ pubOutput'.manifest = pubOutput.manifest]_pubVars
=============================================================================
