---------------------- MODULE ReleasePublicationProofs ----------------------
(***************************************************************************)
(* What is published is what was built, for any number of runs and changes *)
(* of the repositories, wherever a command is cut off.                     *)
(***************************************************************************)
EXTENDS ReleasePublication, TLAPS

Revisions == [Repos -> Nat]
Builds    == [Binaries -> Nat]
States    == {"none", "open", "whole", "torn"}
Archives  == [state : States, binaries : Builds, metadata : Builds]
Packages  == [state : States, binaries : Builds]
Manifests == [state : States, sources : Revisions, archive : Archives, npm : Builds]
Outputs   == [archive : Archives, npm : Packages, manifest : Manifests]
Receipts  == [state : States, sources : Builds, binaries : Builds]
Remotes   == [image : Nat, npm : BOOLEAN, github : BOOLEAN]

Building   == {"verify", "cargo", "go", "collect", "digest", "receipt"}
Publishing == {"authorise", "validate", "send"}
Lone       == Building \cup Publishing
Points     == {"idle"} \cup Lone \cup Assembling
Calls      == [pc : Points, sources : Revisions, compiled : Nat, digests : Builds,
               archive : Archives, npm : Builds, manifest : Manifests, todo : SUBSET Places]

TypeOK ==
    /\ pubRun \in [Runs -> Calls]
    /\ pubRepo \in [Repos -> [head : Nat, clean : BOOLEAN]]
    /\ pubArtifact \in Builds
    /\ pubReceipt \in Receipts
    /\ pubOutput \in Outputs
    /\ pubRemote \in Remotes
    /\ pubAlone \in BOOLEAN

\* A commit is never mistaken for a missing binary.
Committed(revs) == \A p \in Repos : revs[p] >= FirstCommit

\* What the whole manifest says of the release it names.
Truthful(m) ==
    m.state = "whole" =>
        /\ m.archive.binaries = OfBinaries(m.sources)
        /\ m.archive.metadata = OfBinaries(m.sources)
        /\ m.npm = OfBinaries(m.sources)

\* What a run of build or publish knows, in a world of its own.
LoneFact(k) ==
    /\ k.pc \in {"cargo", "go"} => Expected(Binaries, k.sources)
    /\ k.pc \in {"go", "collect"} => k.compiled = k.sources["deployer"]
    /\ k.pc = "collect" => pubArtifact["connector"] = k.sources["connector"]
    /\ k.pc \in {"digest", "receipt"} => pubArtifact = OfBinaries(k.sources)
    /\ k.pc = "receipt" => k.digests = OfBinaries(k.sources)
    /\ k.pc \in {"validate", "send"} =>
          /\ k.manifest = pubOutput.manifest /\ k.manifest.state = "whole"
          /\ Expected(Repos, k.manifest.sources)
    /\ k.pc = "send" => Valid(k.manifest)

\* What an assembly knows, whoever else assembles.
Measured == Assembling \ {"prepare", "inputs"}
PackFact(k) ==
    /\ k.pc \in Assembling => Committed(k.sources)
    /\ k.pc \in Measured => pubArtifact = OfBinaries(k.sources)
    /\ k.pc \in Measured \ {"measure"} => k.digests = OfBinaries(k.sources)

\* What an assembly that is the only one knows of the release directory.
Tail == {"vendor", "package", "manifest"}
Placed(k, out) ==
    /\ out.manifest = NoManifest
    /\ k.pc \notin Tail => out.npm = NoPackage
    /\ k.pc \in Tail \cup {"npm", "asset"} =>
          /\ out.archive.binaries = OfBinaries(k.sources)
          /\ out.archive.metadata = OfBinaries(k.sources)
    /\ k.pc \in Tail \cup {"npm"} => k.archive = out.archive
    /\ k.pc = "vendor" => out.npm.binaries["deployer"] \in {None, k.sources["deployer"]}
    /\ k.pc \in {"package", "manifest"} => out.npm.binaries = OfBinaries(k.sources)
    /\ k.pc = "manifest" => k.npm = OfBinaries(k.sources)

Exclusive == \A r, s \in Runs : r # s /\ pubRun[r].pc \in Lone => PubAt(s, "idle")
Known     == \A r \in Runs : LoneFact(pubRun[r]) /\ PackFact(pubRun[r])
ReceiptIsTrue == pubReceipt.state = "whole" => pubReceipt.binaries = pubReceipt.sources

\* npm/ is created once, so that one assembly at most completes.
OneCompletes ==
    /\ \A r \in Runs : pubRun[r].pc \in Tail =>
          pubOutput.npm.state # "none" /\ pubOutput.manifest.state = "none"
    /\ \A r, s \in Runs : pubRun[r].pc \in Tail /\ pubRun[s].pc \in Tail => r = s
    /\ pubOutput.manifest.state # "none" => pubOutput.npm.state # "none"

Undisturbed ==
    /\ \A r, s \in Runs : Packing(r) /\ Packing(s) => r = s
    /\ \A r \in Runs : Packing(r) => Placed(pubRun[r], pubOutput)
    /\ Truthful(pubOutput.manifest)

PubInv ==
    /\ TypeOK
    /\ \A p \in Repos : pubRepo[p].head >= FirstCommit
    /\ Exclusive
    /\ Known
    /\ ReceiptIsTrue
    /\ OneCompletes
    /\ pubAlone => Undisturbed

\* What PublishedIsBuilt says of one step.
Claim ==
    /\ pubAlone /\ pubRemote' # pubRemote =>
            LET m == pubOutput.manifest
            IN  /\ pubRemote'.github # pubRemote.github =>
                      pubOutput.archive = m.archive /\ m.archive.binaries = m.archive.metadata
                /\ pubRemote'.npm # pubRemote.npm =>
                      pubOutput.npm.binaries = m.npm /\ m.npm = m.archive.binaries
                /\ m.archive.binaries = OfBinaries(m.sources)
                /\ pubRemote'.image \in {pubRemote.image, m.sources["server"]}
    /\ \/ pubOutput.manifest.state = "none"
       \/ pubOutput' = NoOutput
       \/ pubOutput'.manifest = pubOutput.manifest
Owed == PubInv' /\ Claim

-----------------------------------------------------------------------------
LEMMA PointsApart ==
    /\ Lone \cap Assembling = {} /\ "idle" \notin Lone /\ "idle" \notin Assembling
    /\ Tail \subseteq Measured /\ Measured \subseteq Assembling
BY DEF Lone, Building, Publishing, Assembling, Tail, Measured

LEMMA NothingTyped ==
    /\ Nothing \in Builds /\ Nowhere \in Revisions
    /\ NoArchive \in Archives /\ NoPackage \in Packages /\ NoManifest \in Manifests
    /\ NoOutput \in Outputs
    /\ PubIdle \in Calls /\ PubIdle.pc = "idle"
BY DEF Nothing, Nowhere, None, NoArchive, NoPackage, NoManifest, NoOutput, PubIdle,
       Builds, Revisions, Archives, Packages, Manifests, Outputs, States, Calls, Points

LEMMA OfBinariesTyped ==
    ASSUME NEW revs \in Revisions
    PROVE  /\ OfBinaries(revs) \in Builds
           /\ \A b \in Binaries : OfBinaries(revs)[b] = revs[b]
BY DEF OfBinaries, Revisions, Builds, Repos

LEMMA PubInitInv == PubInit => PubInv
<1>. SUFFICES ASSUME PubInit PROVE PubInv
  OBVIOUS
<1>1. pubRepo = [p \in Repos |-> [head |-> FirstCommit, clean |-> TRUE]]
  BY DEF PubInit
<1>2. /\ pubRepo \in [Repos -> [head : Nat, clean : BOOLEAN]]
      /\ \A p \in Repos : pubRepo[p].head >= FirstCommit
  BY <1>1 DEF FirstCommit
<1>3. TypeOK
  BY <1>2, NothingTyped DEF PubInit, TypeOK, Receipts, States, Remotes, None
<1>4. \A r \in Runs : pubRun[r].pc = "idle"
  BY NothingTyped DEF PubInit
<1>5. Exclusive
  BY <1>4 DEF Exclusive, PubAt
<1>6. Known
  BY <1>4, PointsApart DEF Known, LoneFact, PackFact, Measured
<1>7. ReceiptIsTrue
  BY DEF PubInit, ReceiptIsTrue
<1>8. OneCompletes
  BY <1>4 DEF PubInit, OneCompletes, Tail, NoOutput, NoManifest
<1>9. Undisturbed
  BY <1>4, PointsApart DEF PubInit, Undisturbed, Packing, Truthful, NoOutput, NoManifest
<1>. QED  BY <1>2, <1>3, <1>5, <1>6, <1>7, <1>8, <1>9 DEF PubInv

\* A step of build or publish: nobody else is under way.
LEMMA LoneStep ==
    ASSUME PubInv, NEW r \in Runs, NEW k \in Calls,
           \A s \in Runs \ {r} : PubAt(s, "idle"),
           pubRun' = [pubRun EXCEPT ![r] = k], k.pc \in Lone \cup {"idle"},
           UNCHANGED <<pubRepo, pubOutput, pubAlone>>,
           pubArtifact' \in Builds, pubReceipt' \in Receipts, pubRemote' \in Remotes,
           LoneFact(pubRun[r])', ReceiptIsTrue'
    PROVE  PubInv'
<1>1. TypeOK'
  BY DEF PubInv, TypeOK
<1>2. pubRun'[r] = k /\ \A s \in Runs \ {r} : pubRun'[s].pc = "idle"
  BY DEF PubInv, TypeOK, PubAt
<1>3. \A s \in Runs : pubRun'[s].pc \notin Assembling
  BY <1>2, PointsApart
<1>4. Exclusive'
  BY <1>2, PointsApart DEF Exclusive, PubAt
<1>5. Known'
  <2>1. \A s \in Runs : LoneFact(pubRun[s])'
    BY <1>2 DEF LoneFact
  <2>2. \A s \in Runs : PackFact(pubRun[s])'
    BY <1>3, PointsApart DEF PackFact
  <2>. QED  BY <2>1, <2>2 DEF Known
<1>6. OneCompletes'
  BY <1>3, PointsApart DEF OneCompletes, PubInv
<1>7. pubAlone' => Undisturbed'
  BY <1>3, PointsApart DEF PubInv, Undisturbed, Packing
<1>8. \A p \in Repos : pubRepo'[p].head >= FirstCommit
  BY DEF PubInv
<1>. QED  BY <1>1, <1>4, <1>5, <1>6, <1>7, <1>8 DEF PubInv

\* A step of an assembly: the binaries, the receipt and the repositories stay.
LEMMA PackStep ==
    ASSUME PubInv, NEW r \in Runs, NEW k \in Calls,
           \A s \in Runs : pubRun[s].pc \notin Lone,
           pubRun' = [pubRun EXCEPT ![r] = k], k.pc \in Assembling \cup {"idle"},
           UNCHANGED <<pubRepo, pubArtifact, pubReceipt, pubRemote>>,
           pubOutput' \in Outputs, pubAlone' \in BOOLEAN,
           PackFact(k),
           k.pc \in Tail => /\ pubOutput'.npm.state # "none" /\ pubOutput'.manifest.state = "none"
                            /\ \A s \in Runs \ {r} : pubRun[s].pc \notin Tail,
           (\E s \in Runs \ {r} : pubRun[s].pc \in Tail) =>
              pubOutput'.npm.state # "none" /\ pubOutput'.manifest.state = "none",
           pubOutput'.manifest.state # "none" => pubOutput'.npm.state # "none",
           pubAlone' =>
              /\ pubAlone
              /\ Truthful(pubOutput'.manifest)
              /\ k.pc \in Assembling \ {"prepare"} =>
                    /\ \A s \in Runs \ {r} : ~Packing(s)
                    /\ Placed(k, pubOutput')
              /\ pubOutput' = pubOutput \/ \A s \in Runs \ {r} : ~Packing(s)
    PROVE  PubInv'
<1>1. TypeOK'
  BY DEF PubInv, TypeOK
<1>2. pubRun'[r] = k /\ \A s \in Runs \ {r} : pubRun'[s] = pubRun[s]
  BY DEF PubInv, TypeOK
<1>3. \A s \in Runs : pubRun'[s].pc \notin Lone
  BY <1>2, PointsApart
<1>4. Exclusive'
  BY <1>3 DEF Exclusive
<1>5. Known'
  <2>1. \A s \in Runs : LoneFact(pubRun[s])'
    BY <1>3 DEF LoneFact, Lone, Building, Publishing
  <2>2. \A s \in Runs : PackFact(pubRun[s])'
    BY <1>2 DEF PackFact, PubInv, Known
  <2>. QED  BY <2>1, <2>2 DEF Known
<1>6. OneCompletes'
  BY <1>2 DEF OneCompletes, PubInv
<1>7. pubAlone' => Undisturbed'
  <2>. SUFFICES ASSUME pubAlone' PROVE Undisturbed'
    OBVIOUS
  <2>1. Undisturbed
    BY DEF PubInv
  <2>2. \A s \in Runs \ {r} : Packing(s)' => Packing(s) /\ Placed(pubRun'[s], pubOutput')
    BY <1>2, <2>1 DEF Undisturbed, Packing
  <2>3. Packing(r)' => Placed(pubRun'[r], pubOutput')
    BY <1>2 DEF Packing
  <2>4. \A s, t \in Runs : Packing(s)' /\ Packing(t)' => s = t
    BY <1>2, <2>1 DEF Undisturbed, Packing
  <2>. QED  BY <2>2, <2>3, <2>4 DEF Undisturbed
<1>8. \A p \in Repos : pubRepo'[p].head >= FirstCommit
  BY DEF PubInv
<1>9. ReceiptIsTrue'
  BY DEF PubInv, ReceiptIsTrue
<1>. QED  BY <1>1, <1>4, <1>5, <1>6, <1>7, <1>8, <1>9 DEF PubInv

\* Nothing is published, and the manifest stays.
LEMMA QuietStep ==
    ASSUME pubRemote' = pubRemote, pubOutput'.manifest = pubOutput.manifest
    PROVE  Claim
BY DEF Claim

\* A refusal or a return of build or publish.
LEMMA LoneEnds ==
    ASSUME PubInv, NEW r \in Runs, pubRun[r].pc \in Lone, End(r),
           UNCHANGED <<pubRepo, pubOutput, pubAlone, pubRemote>>,
           pubArtifact' \in Builds, pubReceipt' \in Receipts, ReceiptIsTrue'
    PROVE  Owed
<1>1. \A s \in Runs \ {r} : PubAt(s, "idle")
  BY DEF PubInv, Exclusive
<1>2. pubRun' = [pubRun EXCEPT ![r] = PubIdle]
  BY DEF End
<1>3. LoneFact(pubRun[r])'
  BY <1>2, NothingTyped, PointsApart DEF LoneFact, PubInv, TypeOK
<1>4. pubRemote' \in Remotes
  BY DEF PubInv, TypeOK
<1>5. PubInv'
  BY <1>1, <1>2, <1>3, <1>4, NothingTyped, LoneStep
<1>. QED  BY <1>5, QuietStep DEF Owed

\* A step of build or publish that changes nothing but its own state.
LEMMA LoneGoes ==
    ASSUME PubInv, NEW r \in Runs, NEW k \in Calls, k.pc \in Lone,
           \A s \in Runs \ {r} : PubAt(s, "idle"),
           pubRun' = [pubRun EXCEPT ![r] = k],
           UNCHANGED <<Files, Others>>, LoneFact(k)
    PROVE  Owed
<1>1. LoneFact(pubRun[r])'
  BY DEF LoneFact, Files, Others, Expected, Valid, PubInv, TypeOK
<1>2. /\ pubArtifact' \in Builds /\ pubReceipt' \in Receipts /\ pubRemote' \in Remotes
      /\ ReceiptIsTrue' /\ UNCHANGED <<pubRepo, pubOutput, pubAlone, pubRemote>>
  BY DEF PubInv, TypeOK, ReceiptIsTrue, Files, Others
<1>3. PubInv'
  BY <1>1, <1>2, LoneStep
<1>. QED  BY <1>2, <1>3, QuietStep DEF Owed

LEMMA ResolvedTyped ==
    ASSUME PubInv
    PROVE  Resolved \in Revisions /\ Committed(Resolved)
BY DEF PubInv, TypeOK, Resolved, Revisions, Committed

-----------------------------------------------------------------------------
(* build.                                                                  *)

LEMMA StartBuildStep == ASSUME PubInv, NEW r \in Runs, StartBuild(r) PROVE Owed
<1>. DEFINE k == [PubIdle EXCEPT !.pc = "verify", !.sources = Resolved]
<1>1. k \in Calls /\ k.pc = "verify"
  BY NothingTyped, ResolvedTyped DEF Calls, Points, Lone, Building
<1>2. LoneFact(k)
  BY <1>1 DEF LoneFact
<1>3. /\ \A s \in Runs \ {r} : PubAt(s, "idle")
      /\ pubRun' = [pubRun EXCEPT ![r] = k] /\ UNCHANGED <<Files, Others>>
  BY DEF StartBuild, Begin, PubAt
<1>. HIDE DEF k
<1>. QED  BY <1>1, <1>2, <1>3, LoneGoes DEF Lone, Building

LEMMA VerifyBinarySourcesStep ==
    ASSUME PubInv, NEW r \in Runs, VerifyBinarySources(r) PROVE Owed
<1>1. /\ pubRun[r] \in Calls /\ pubRun[r].pc = "verify" /\ pubRun[r].pc \in Lone
      /\ \A s \in Runs \ {r} : PubAt(s, "idle")
  BY DEF VerifyBinarySources, PubAt, PubInv, TypeOK, Exclusive, Lone, Building
<1>2. UNCHANGED <<Files, Others>> /\ ReceiptIsTrue'
  BY DEF VerifyBinarySources, PubInv, ReceiptIsTrue, Files
<1>3. CASE Expected(Binaries, pubRun[r].sources)
  <2>. DEFINE k == [pubRun[r] EXCEPT !.pc = "cargo"]
  <2>1. k \in Calls /\ k.pc = "cargo" /\ k.sources = pubRun[r].sources
    BY <1>1 DEF Calls, Points, Lone, Building
  <2>2. LoneFact(k)
    BY <1>3, <2>1 DEF LoneFact
  <2>3. pubRun' = [pubRun EXCEPT ![r] = k]
    BY <1>3 DEF VerifyBinarySources, PubGoto
  <2>. HIDE DEF k
  <2>. QED  BY <1>1, <1>2, <2>1, <2>2, <2>3, LoneGoes DEF Lone, Building
<1>4. CASE ~Expected(Binaries, pubRun[r].sources)
  BY <1>1, <1>2, <1>4, LoneEnds DEF VerifyBinarySources, Files, Others, PubInv, TypeOK
<1>. QED  BY <1>3, <1>4

\* What a compiler makes of a clean repository is its commit.
LEMMA BuildDeployerStep == ASSUME PubInv, NEW r \in Runs, BuildDeployer(r) PROVE Owed
<1>1. /\ pubRun[r] \in Calls /\ pubRun[r].pc = "cargo"
      /\ \A s \in Runs \ {r} : PubAt(s, "idle")
  BY DEF BuildDeployer, PubAt, PubInv, TypeOK, Exclusive, Lone, Building
<1>. DEFINE k == [pubRun[r] EXCEPT !.pc = "go", !.compiled = Tree("deployer")]
<1>2. Expected(Binaries, pubRun[r].sources)
  BY <1>1 DEF PubInv, Known, LoneFact
<1>3. Tree("deployer") = pubRun[r].sources["deployer"] /\ Tree("deployer") \in Nat
  BY <1>1, <1>2 DEF Expected, Tree, Binaries, Calls, Revisions, Repos
<1>4. k \in Calls /\ k.pc = "go" /\ k.sources = pubRun[r].sources /\ k.compiled = Tree("deployer")
  BY <1>1, <1>3 DEF Calls, Points, Lone, Building
<1>5. LoneFact(k)
  BY <1>2, <1>3, <1>4 DEF LoneFact
<1>6. pubRun' = [pubRun EXCEPT ![r] = k] /\ UNCHANGED <<Files, Others>>
  BY DEF BuildDeployer
<1>. HIDE DEF k
<1>. QED  BY <1>1, <1>4, <1>5, <1>6, LoneGoes DEF Lone, Building

LEMMA BuildConnectorStep == ASSUME PubInv, NEW r \in Runs, BuildConnector(r) PROVE Owed
<1>1. /\ pubRun[r] \in Calls /\ pubRun[r].pc = "go"
      /\ \A s \in Runs \ {r} : PubAt(s, "idle")
  BY DEF BuildConnector, PubAt, PubInv, TypeOK, Exclusive, Lone, Building
<1>. DEFINE k == [pubRun[r] EXCEPT !.pc = "collect"]
<1>2. Expected(Binaries, pubRun[r].sources) /\ pubRun[r].compiled = pubRun[r].sources["deployer"]
  BY <1>1 DEF PubInv, Known, LoneFact
<1>3. Tree("connector") = pubRun[r].sources["connector"] /\ Tree("connector") \in Nat
  BY <1>1, <1>2 DEF Expected, Tree, Binaries, Calls, Revisions, Repos
<1>4. /\ k \in Calls /\ k.pc = "collect" /\ k.sources = pubRun[r].sources
      /\ k.compiled = pubRun[r].compiled
  BY <1>1 DEF Calls, Points, Lone, Building
<1>5. /\ pubRun' = [pubRun EXCEPT ![r] = k]
      /\ pubArtifact' = [pubArtifact EXCEPT !["connector"] = Tree("connector")]
      /\ UNCHANGED <<pubReceipt, pubOutput, pubRepo, pubRemote, pubAlone>>
  BY DEF BuildConnector, PubGoto, Others
<1>10. pubArtifact \in Builds /\ pubRun'[r] = k
  BY <1>5 DEF PubInv, TypeOK
<1>6. pubArtifact' \in Builds /\ pubArtifact'["connector"] = Tree("connector")
  BY <1>3, <1>5, <1>10 DEF Builds, Binaries
<1>7. LoneFact(pubRun[r])'
  BY <1>2, <1>3, <1>4, <1>6, <1>10 DEF LoneFact
<1>8. pubReceipt' \in Receipts /\ pubRemote' \in Remotes /\ ReceiptIsTrue'
  BY <1>5 DEF PubInv, TypeOK, ReceiptIsTrue
<1>. HIDE DEF k
<1>9. PubInv'
  BY <1>1, <1>4, <1>5, <1>6, <1>7, <1>8, LoneStep DEF Lone, Building
<1>. QED  BY <1>5, <1>9, QuietStep DEF Owed

LEMMA CollectStep == ASSUME PubInv, NEW r \in Runs, Collect(r) PROVE Owed
<1>1. /\ pubRun[r] \in Calls /\ pubRun[r].pc = "collect"
      /\ \A s \in Runs \ {r} : PubAt(s, "idle")
  BY DEF Collect, PubAt, PubInv, TypeOK, Exclusive, Lone, Building
<1>. DEFINE k == [pubRun[r] EXCEPT !.pc = "digest"]
<1>2. /\ pubRun[r].compiled = pubRun[r].sources["deployer"]
      /\ pubArtifact["connector"] = pubRun[r].sources["connector"]
  BY <1>1 DEF PubInv, Known, LoneFact
<1>3. k \in Calls /\ k.pc = "digest" /\ k.sources = pubRun[r].sources
  BY <1>1 DEF Calls, Points, Lone, Building
<1>4. /\ pubRun' = [pubRun EXCEPT ![r] = k]
      /\ pubArtifact' = [pubArtifact EXCEPT !["deployer"] = pubRun[r].compiled]
      /\ UNCHANGED <<pubReceipt, pubOutput, pubRepo, pubRemote, pubAlone>>
  BY DEF Collect, PubGoto, Others
<1>5. pubArtifact' \in Builds /\ pubArtifact' = OfBinaries(pubRun[r].sources)
  BY <1>1, <1>2, <1>4 DEF PubInv, TypeOK, Builds, Binaries, OfBinaries, Calls, Revisions, Repos
<1>6. LoneFact(pubRun[r])'
  <2>1. pubRun'[r] = k
    BY <1>4 DEF PubInv, TypeOK
  <2>. QED  BY <1>3, <1>5, <2>1 DEF LoneFact
<1>7. pubReceipt' \in Receipts /\ pubRemote' \in Remotes /\ ReceiptIsTrue'
  BY <1>4 DEF PubInv, TypeOK, ReceiptIsTrue
<1>. HIDE DEF k
<1>8. PubInv'
  BY <1>1, <1>3, <1>4, <1>5, <1>6, <1>7, LoneStep DEF Lone, Building
<1>. QED  BY <1>4, <1>8, QuietStep DEF Owed

LEMMA DigestBinariesStep == ASSUME PubInv, NEW r \in Runs, DigestBinaries(r) PROVE Owed
<1>1. /\ pubRun[r] \in Calls /\ pubRun[r].pc = "digest" /\ pubArtifact \in Builds
      /\ \A s \in Runs \ {r} : PubAt(s, "idle")
  BY DEF DigestBinaries, PubAt, PubInv, TypeOK, Exclusive, Lone, Building
<1>. DEFINE k == [pubRun[r] EXCEPT !.pc = "receipt", !.digests = pubArtifact]
<1>2. /\ k \in Calls /\ k.pc = "receipt" /\ k.sources = pubRun[r].sources
      /\ k.digests = pubArtifact
  BY <1>1 DEF Calls, Points, Lone, Building
<1>3. LoneFact(k)
  BY <1>1, <1>2 DEF PubInv, Known, LoneFact
<1>4. pubRun' = [pubRun EXCEPT ![r] = k] /\ UNCHANGED <<Files, Others>>
  BY DEF DigestBinaries
<1>. HIDE DEF k
<1>. QED  BY <1>1, <1>2, <1>3, <1>4, LoneGoes DEF Lone, Building

LEMMA WriteReceiptStep == ASSUME PubInv, NEW r \in Runs, WriteReceipt(r) PROVE Owed
<1>1. pubRun[r] \in Calls /\ pubRun[r].pc = "receipt"
  BY DEF WriteReceipt, PubAt, PubInv, TypeOK
<1>2. pubRun[r].digests = OfBinaries(pubRun[r].sources)
  BY <1>1 DEF PubInv, Known, LoneFact
<1>3. pubReceipt' \in Receipts /\ ReceiptIsTrue'
  BY <1>1, <1>2, OfBinariesTyped DEF WriteReceipt, Receipts, States, ReceiptIsTrue, Calls
<1>4. pubArtifact' \in Builds
  BY DEF WriteReceipt, PubInv, TypeOK
<1>. QED  BY <1>1, <1>3, <1>4, LoneEnds DEF WriteReceipt, Others, Lone, Building

-----------------------------------------------------------------------------
(* assemble.                                                               *)

\* While one assembles nobody builds or publishes.
LEMMA PackersOnly ==
    ASSUME PubInv, NEW r \in Runs, pubRun[r].pc \in Assembling
    PROVE  \A s \in Runs : pubRun[s].pc \notin Lone
BY PointsApart DEF PubInv, Exclusive, PubAt

LEMMA PackEnds ==
    ASSUME PubInv, NEW r \in Runs, pubRun[r].pc \in Assembling, End(r),
           UNCHANGED <<Files, pubRepo, pubRemote>>,
           pubAlone' \in BOOLEAN, pubAlone' => pubAlone
    PROVE  Owed
<1>1. pubRun' = [pubRun EXCEPT ![r] = PubIdle] /\ PubIdle \in Calls /\ PubIdle.pc = "idle"
  BY NothingTyped DEF End
<1>2. PubIdle.pc \notin Assembling /\ PubIdle.pc \notin Tail /\ PackFact(PubIdle)
  BY <1>1, PointsApart DEF PackFact
<1>3. /\ UNCHANGED <<pubRepo, pubArtifact, pubReceipt, pubRemote>>
      /\ pubOutput' = pubOutput /\ pubOutput \in Outputs
  BY DEF Files, PubInv, TypeOK
<1>4. /\ (\E s \in Runs \ {r} : pubRun[s].pc \in Tail) =>
              pubOutput'.npm.state # "none" /\ pubOutput'.manifest.state = "none"
      /\ pubOutput'.manifest.state # "none" => pubOutput'.npm.state # "none"
  BY <1>3 DEF PubInv, OneCompletes
<1>5. pubAlone' => Truthful(pubOutput'.manifest)
  BY <1>3 DEF PubInv, Undisturbed
<1>6. PubInv'
  BY <1>1, <1>2, <1>3, <1>4, <1>5, PackersOnly, PackStep
<1>. QED  BY <1>3, <1>6, QuietStep DEF Owed

\* An assembly that goes on, in the directory it prepared.
LEMMA PackGoes ==
    ASSUME PubInv, NEW r \in Runs, Packing(r),
           NEW k \in Calls, k.pc \in Assembling \ {"prepare"},
           pubRun' = [pubRun EXCEPT ![r] = k],
           UNCHANGED <<pubRepo, pubArtifact, pubReceipt, pubRemote, pubAlone>>,
           pubOutput' \in Outputs, pubOutput'.manifest = pubOutput.manifest,
           PackFact(k),
           pubOutput.npm.state # "none" => pubOutput'.npm.state # "none",
           k.pc \in Tail => /\ pubOutput'.npm.state # "none"
                            /\ pubRun[r].pc \in Tail \/ pubOutput.npm.state = "none",
           Placed(pubRun[r], pubOutput) => Placed(k, pubOutput')
    PROVE  Owed
<1>1. pubRun[r].pc \in Assembling
  BY DEF Packing
<1>2. k.pc \in Tail => /\ pubOutput'.npm.state # "none" /\ pubOutput'.manifest.state = "none"
                       /\ \A s \in Runs \ {r} : pubRun[s].pc \notin Tail
  BY DEF PubInv, OneCompletes
<1>3. /\ (\E s \in Runs \ {r} : pubRun[s].pc \in Tail) =>
              pubOutput'.npm.state # "none" /\ pubOutput'.manifest.state = "none"
      /\ pubOutput'.manifest.state # "none" => pubOutput'.npm.state # "none"
  BY DEF PubInv, OneCompletes
<1>4. pubAlone' =>
        /\ pubAlone /\ Truthful(pubOutput'.manifest)
        /\ \A s \in Runs \ {r} : ~Packing(s)
        /\ Placed(k, pubOutput')
  BY DEF PubInv, Undisturbed
<1>5. pubAlone' \in BOOLEAN
  BY DEF PubInv, TypeOK
<1>6. PubInv'
  BY <1>1, <1>2, <1>3, <1>4, <1>5, PackersOnly, PackStep
<1>. QED  BY <1>6, QuietStep DEF Owed

LEMMA StartAssembleStep == ASSUME PubInv, NEW r \in Runs, StartAssemble(r) PROVE Owed
<1>. DEFINE k == [PubIdle EXCEPT !.pc = "prepare", !.sources = Resolved]
<1>1. k \in Calls /\ k.pc = "prepare" /\ k.sources = Resolved
  BY NothingTyped, ResolvedTyped DEF Calls, Points, Assembling
<1>2. PackFact(k)
  BY <1>1, ResolvedTyped DEF PackFact, Measured
<1>3. /\ \A s \in Runs : pubRun[s].pc \notin Lone
      /\ pubRun' = [pubRun EXCEPT ![r] = k] /\ UNCHANGED <<Files, Others>>
  BY PointsApart DEF StartAssemble, Begin, PubAt
<1>. HIDE DEF k
<1>4. k.pc \in Assembling /\ k.pc \notin Tail /\ k.pc \notin Assembling \ {"prepare"}
  BY <1>1 DEF Assembling, Tail
<1>5. /\ UNCHANGED <<pubRepo, pubArtifact, pubReceipt, pubRemote, pubAlone>>
      /\ pubOutput' = pubOutput /\ pubOutput \in Outputs /\ pubAlone' \in BOOLEAN
  BY <1>3 DEF Files, Others, PubInv, TypeOK
<1>6. /\ (\E s \in Runs \ {r} : pubRun[s].pc \in Tail) =>
              pubOutput'.npm.state # "none" /\ pubOutput'.manifest.state = "none"
      /\ pubOutput'.manifest.state # "none" => pubOutput'.npm.state # "none"
      /\ pubAlone' => Truthful(pubOutput'.manifest)
  BY <1>5 DEF PubInv, OneCompletes, Undisturbed
<1>7. PubInv'
  BY <1>1, <1>2, <1>3, <1>4, <1>5, <1>6, PackStep
<1>. QED  BY <1>5, <1>7, QuietStep DEF Owed

\* The directory is empty, and the flag says whether somebody else uses it.
LEMMA PrepareOutputStep == ASSUME PubInv, NEW r \in Runs, PrepareOutput(r) PROVE Owed
<1>1. /\ pubRun[r] \in Calls /\ pubRun[r].pc = "prepare" /\ pubRun[r].pc \in Assembling
      /\ UNCHANGED <<Files, pubRepo, pubRemote>>
      /\ pubAlone' = (pubAlone /\ \A s \in Runs \ {r} : ~Packing(s))
  BY DEF PrepareOutput, PubAt, PubInv, TypeOK, Assembling
<1>2. pubAlone' \in BOOLEAN /\ (pubAlone' => pubAlone)
  BY <1>1
<1>3. CASE Expected(Repos, pubRun[r].sources) /\ pubOutput = NoOutput
  <2>. DEFINE k == [pubRun[r] EXCEPT !.pc = "inputs"]
  <2>1. k \in Calls /\ k.pc = "inputs" /\ k.sources = pubRun[r].sources
    BY <1>1 DEF Calls, Points, Assembling
  <2>2. PackFact(k)
    BY <1>1, <2>1 DEF PubInv, Known, PackFact, Measured
  <2>3. pubRun' = [pubRun EXCEPT ![r] = k]
    BY <1>3 DEF PrepareOutput, PubGoto
  <2>. HIDE DEF k
  <2>4. k.pc \in Assembling /\ k.pc \notin Tail /\ k.pc \notin Tail \cup {"npm", "asset"}
    BY <2>1 DEF Assembling, Tail
  <2>5. /\ UNCHANGED <<pubRepo, pubArtifact, pubReceipt, pubRemote>>
        /\ pubOutput' = pubOutput /\ pubOutput' \in Outputs
    BY <1>1 DEF Files, PubInv, TypeOK
  <2>6. /\ (\E s \in Runs \ {r} : pubRun[s].pc \in Tail) =>
              pubOutput'.npm.state # "none" /\ pubOutput'.manifest.state = "none"
        /\ pubOutput'.manifest.state # "none" => pubOutput'.npm.state # "none"
    BY <2>5 DEF PubInv, OneCompletes
  <2>7. Placed(k, pubOutput')
    BY <1>3, <2>1, <2>4, <2>5 DEF Placed, NoOutput, Tail
  <2>8. pubAlone' => /\ pubAlone /\ \A s \in Runs \ {r} : ~Packing(s)
                     /\ Truthful(pubOutput'.manifest)
    BY <1>1, <2>5 DEF PubInv, Undisturbed
  <2>9. PubInv'
    BY <1>1, <1>2, <2>1, <2>2, <2>3, <2>4, <2>5, <2>6, <2>7, <2>8, PackersOnly, PackStep
  <2>. QED  BY <2>5, <2>9, QuietStep, <1>1 DEF Owed
<1>4. CASE ~(Expected(Repos, pubRun[r].sources) /\ pubOutput = NoOutput)
  BY <1>1, <1>2, <1>4, PackEnds DEF PrepareOutput
<1>. QED  BY <1>3, <1>4

\* The receipt is of the binaries that are there, so they are of the commits.
LEMMA VerifyReceiptStep == ASSUME PubInv, NEW r \in Runs, VerifyReceipt(r) PROVE Owed
<1>1. /\ pubRun[r] \in Calls /\ pubRun[r].pc = "inputs" /\ pubRun[r].pc \in Assembling
      /\ Packing(r) /\ UNCHANGED <<Files, pubRepo, pubRemote, pubAlone>>
      /\ pubAlone' \in BOOLEAN /\ pubOutput' \in Outputs
      /\ UNCHANGED <<pubRepo, pubArtifact, pubReceipt, pubOutput, pubRemote, pubAlone>>
  BY DEF VerifyReceipt, PubAt, PubInv, TypeOK, Assembling, Packing, Others, Files
<1>2. CASE /\ pubReceipt.state = "whole"
           /\ pubReceipt.sources = OfBinaries(pubRun[r].sources)
           /\ pubReceipt.binaries = pubArtifact
  <2>. DEFINE k == [pubRun[r] EXCEPT !.pc = "measure"]
  <2>1. k \in Calls /\ k.pc = "measure" /\ k.sources = pubRun[r].sources
    BY <1>1 DEF Calls, Points, Assembling
  <2>2. pubArtifact = OfBinaries(pubRun[r].sources)
    BY <1>2 DEF PubInv, ReceiptIsTrue
  <2>3. PackFact(k)
    BY <1>1, <2>1, <2>2 DEF PubInv, Known, PackFact, Measured
  <2>4. pubRun' = [pubRun EXCEPT ![r] = k]
    BY <1>2 DEF VerifyReceipt, PubGoto
  <2>. HIDE DEF k
  <2>5. Placed(pubRun[r], pubOutput) => Placed(k, pubOutput')
    BY <1>1, <2>1 DEF Placed, Tail
  <2>. QED  BY <1>1, <2>1, <2>3, <2>4, <2>5, PackGoes DEF Assembling, Tail
<1>3. CASE ~(/\ pubReceipt.state = "whole"
             /\ pubReceipt.sources = OfBinaries(pubRun[r].sources)
             /\ pubReceipt.binaries = pubArtifact)
  BY <1>1, <1>3, PackEnds DEF VerifyReceipt
<1>. QED  BY <1>2, <1>3

LEMMA DigestInputsStep == ASSUME PubInv, NEW r \in Runs, DigestInputs(r) PROVE Owed
<1>1. /\ pubRun[r] \in Calls /\ pubRun[r].pc = "measure" /\ Packing(r)
      /\ UNCHANGED <<pubRepo, pubArtifact, pubReceipt, pubOutput, pubRemote, pubAlone>>
      /\ pubOutput' \in Outputs /\ pubArtifact \in Builds
  BY DEF DigestInputs, PubAt, PubInv, TypeOK, Assembling, Packing, Others, Files
<1>. DEFINE k == [pubRun[r] EXCEPT !.pc = "open", !.digests = pubArtifact]
<1>2. k \in Calls /\ k.pc = "open" /\ k.sources = pubRun[r].sources /\ k.digests = pubArtifact
  BY <1>1 DEF Calls, Points, Assembling
<1>3. PackFact(pubRun[r])
  BY DEF PubInv, Known
<1>4. PackFact(k)
  BY <1>1, <1>2, <1>3 DEF PackFact, Measured, Assembling
<1>5. pubRun' = [pubRun EXCEPT ![r] = k]
  BY DEF DigestInputs
<1>. HIDE DEF k
<1>6. Placed(pubRun[r], pubOutput) => Placed(k, pubOutput')
  BY <1>1, <1>2 DEF Placed, Tail
<1>. QED  BY <1>1, <1>2, <1>4, <1>5, <1>6, PackGoes DEF Assembling, Tail

LEMMA OpenArchiveStep == ASSUME PubInv, NEW r \in Runs, OpenArchive(r) PROVE Owed
<1>1. /\ pubRun[r] \in Calls /\ pubRun[r].pc = "open" /\ Packing(r) /\ pubOutput \in Outputs
      /\ UNCHANGED <<pubRepo, pubArtifact, pubReceipt, pubRemote, pubAlone>>
      /\ pubOutput' = [pubOutput EXCEPT !.archive = [NoArchive EXCEPT !.state = "open"]]
  BY DEF OpenArchive, PubAt, PubInv, TypeOK, Assembling, Packing, Others
<1>. DEFINE k == [pubRun[r] EXCEPT !.pc = "archive"]
<1>2. k \in Calls /\ k.pc = "archive" /\ k.sources = pubRun[r].sources /\ k.digests = pubRun[r].digests
  BY <1>1 DEF Calls, Points, Assembling
<1>3. PackFact(k)
  BY <1>1, <1>2 DEF PubInv, Known, PackFact, Measured, Assembling
<1>4. pubRun' = [pubRun EXCEPT ![r] = k]
  BY DEF OpenArchive, PubGoto
<1>. HIDE DEF k
<1>5. [NoArchive EXCEPT !.state = "open"] \in Archives
  BY NothingTyped DEF Archives, States
<1>6. /\ pubOutput' \in Outputs
      /\ pubOutput'.manifest = pubOutput.manifest /\ pubOutput'.npm = pubOutput.npm
  BY <1>1, <1>5 DEF Outputs
<1>7. Placed(pubRun[r], pubOutput) => Placed(k, pubOutput')
  BY <1>1, <1>2, <1>6 DEF Placed, Tail
<1>. QED  BY <1>1, <1>2, <1>3, <1>4, <1>6, <1>7, PackGoes DEF Assembling, Tail

LEMMA WriteArchiveStep == ASSUME PubInv, NEW r \in Runs, WriteArchive(r) PROVE Owed
<1>. DEFINE new == [state |-> "whole", binaries |-> pubArtifact, metadata |-> pubRun[r].digests]
            k == [pubRun[r] EXCEPT !.pc = "asset"]
<1>1. /\ pubRun[r] \in Calls /\ pubRun[r].pc = "archive" /\ Packing(r) /\ pubOutput \in Outputs
      /\ UNCHANGED <<pubRepo, pubArtifact, pubReceipt, pubRemote, pubAlone>>
      /\ pubOutput' = [pubOutput EXCEPT !.archive = new] /\ pubArtifact \in Builds
  BY DEF WriteArchive, PubAt, PubInv, TypeOK, Assembling, Packing, Others
<1>2. k \in Calls /\ k.pc = "asset" /\ k.sources = pubRun[r].sources /\ k.digests = pubRun[r].digests
  BY <1>1 DEF Calls, Points, Assembling
<1>3. PackFact(pubRun[r])
  BY DEF PubInv, Known
<1>4. PackFact(k)
  BY <1>1, <1>2, <1>3 DEF PackFact, Measured, Assembling
<1>5. pubRun' = [pubRun EXCEPT ![r] = k]
  BY DEF WriteArchive, PubGoto
<1>6. /\ new \in Archives /\ new.binaries = OfBinaries(pubRun[r].sources)
      /\ new.metadata = OfBinaries(pubRun[r].sources)
  BY <1>1, <1>3 DEF Archives, States, Calls, PackFact, Measured, Assembling
<1>. HIDE DEF k, new
<1>7. /\ pubOutput' \in Outputs /\ pubOutput'.archive = new
      /\ pubOutput'.manifest = pubOutput.manifest /\ pubOutput'.npm = pubOutput.npm
  BY <1>1, <1>6 DEF Outputs
<1>8. Placed(pubRun[r], pubOutput) => Placed(k, pubOutput')
  BY <1>1, <1>2, <1>6, <1>7 DEF Placed, Tail
<1>. QED  BY <1>1, <1>2, <1>4, <1>5, <1>7, <1>8, PackGoes DEF Assembling, Tail

LEMMA DigestArchiveStep == ASSUME PubInv, NEW r \in Runs, DigestArchive(r) PROVE Owed
<1>1. /\ pubRun[r] \in Calls /\ pubRun[r].pc = "asset" /\ Packing(r)
      /\ UNCHANGED <<pubRepo, pubArtifact, pubReceipt, pubOutput, pubRemote, pubAlone>>
      /\ pubOutput \in Outputs
  BY DEF DigestArchive, PubAt, PubInv, TypeOK, Assembling, Packing, Others, Files
<1>. DEFINE k == [pubRun[r] EXCEPT !.pc = "npm", !.archive = pubOutput.archive]
<1>2. /\ k \in Calls /\ k.pc = "npm" /\ k.sources = pubRun[r].sources
      /\ k.digests = pubRun[r].digests /\ k.archive = pubOutput.archive
  BY <1>1 DEF Calls, Points, Assembling, Outputs
<1>3. PackFact(pubRun[r])
  BY DEF PubInv, Known
<1>4. PackFact(k)
  BY <1>1, <1>2, <1>3 DEF PackFact, Measured, Assembling
<1>5. pubRun' = [pubRun EXCEPT ![r] = k]
  BY DEF DigestArchive
<1>. HIDE DEF k
<1>6. Placed(pubRun[r], pubOutput) => Placed(k, pubOutput')
  BY <1>1, <1>2 DEF Placed, Tail
<1>. QED  BY <1>1, <1>2, <1>4, <1>5, <1>6, PackGoes DEF Assembling, Tail

\* Whoever finds npm/ there is refused, so that nobody else is behind it.
LEMMA CreatePackageStep == ASSUME PubInv, NEW r \in Runs, CreatePackage(r) PROVE Owed
<1>1. /\ pubRun[r] \in Calls /\ pubRun[r].pc = "npm" /\ pubRun[r].pc \in Assembling
      /\ Packing(r) /\ pubOutput \in Outputs /\ pubAlone' \in BOOLEAN
      /\ UNCHANGED <<pubRepo, pubArtifact, pubReceipt, pubRemote, pubAlone>>
  BY DEF CreatePackage, PubAt, PubInv, TypeOK, Assembling, Packing, Others
<1>2. CASE pubOutput.npm.state = "none"
  <2>. DEFINE k == [pubRun[r] EXCEPT !.pc = "vendor"]
              new == [pubOutput.npm EXCEPT !.state = "open"]
  <2>1. /\ k \in Calls /\ k.pc = "vendor" /\ k.sources = pubRun[r].sources
        /\ k.digests = pubRun[r].digests /\ k.archive = pubRun[r].archive
    BY <1>1 DEF Calls, Points, Assembling
  <2>2. PackFact(k)
    BY <1>1, <2>1 DEF PubInv, Known, PackFact, Measured, Assembling
  <2>3. /\ pubRun' = [pubRun EXCEPT ![r] = k]
        /\ pubOutput' = [pubOutput EXCEPT !.npm = new]
    BY <1>1, <1>2 DEF CreatePackage, PubGoto, Outputs, Packages
  <2>4. new \in Packages /\ new.state = "open" /\ new.binaries = pubOutput.npm.binaries
    BY <1>1 DEF Outputs, Packages, States
  <2>. HIDE DEF k, new
  <2>5. /\ pubOutput' \in Outputs /\ pubOutput'.npm = new
        /\ pubOutput'.manifest = pubOutput.manifest /\ pubOutput'.archive = pubOutput.archive
    BY <1>1, <2>3, <2>4 DEF Outputs
  <2>6. Placed(pubRun[r], pubOutput) => Placed(k, pubOutput')
    BY <1>1, <2>1, <2>4, <2>5 DEF Placed, Tail, NoPackage, Nothing, Binaries
  <2>. QED  BY <1>1, <1>2, <2>1, <2>2, <2>3, <2>4, <2>5, <2>6, PackGoes DEF Assembling, Tail
<1>3. CASE pubOutput.npm.state # "none"
  BY <1>1, <1>3, PackEnds DEF CreatePackage, Files
<1>. QED  BY <1>2, <1>3

\* A binary of a commit is there, hence the second copy is the connector's.
LEMMA CopyBinariesStep == ASSUME PubInv, NEW r \in Runs, CopyBinaries(r) PROVE Owed
<1>. DEFINE b == IF pubOutput.npm.binaries["deployer"] = None THEN "deployer" ELSE "connector"
            k == [pubRun[r] EXCEPT !.pc = IF b = "deployer" THEN "vendor" ELSE "package"]
            copied == [pubOutput.npm.binaries EXCEPT ![b] = pubArtifact[b]]
            new == [pubOutput.npm EXCEPT !.binaries = copied]
<1>1. /\ pubRun[r] \in Calls /\ pubRun[r].pc = "vendor" /\ pubRun[r].pc \in Tail
      /\ Packing(r) /\ pubOutput \in Outputs /\ pubArtifact \in Builds
      /\ UNCHANGED <<pubRepo, pubArtifact, pubReceipt, pubRemote, pubAlone>>
  BY DEF CopyBinaries, PubAt, PubInv, TypeOK, Assembling, Packing, Others, Tail
<1>2. /\ k \in Calls /\ k.pc = (IF b = "deployer" THEN "vendor" ELSE "package")
      /\ k.sources = pubRun[r].sources /\ k.digests = pubRun[r].digests
      /\ k.archive = pubRun[r].archive
  BY <1>1 DEF Calls, Points, Assembling
<1>3. PackFact(pubRun[r])
  BY DEF PubInv, Known
<1>4. PackFact(k)
  BY <1>1, <1>2, <1>3 DEF PackFact, Measured, Assembling
<1>5. copied \in Builds
  BY <1>1 DEF Outputs, Packages, Builds, Binaries
<1>6. new \in Packages /\ new.binaries = copied /\ new.state = pubOutput.npm.state
  BY <1>1, <1>5 DEF Outputs, Packages
<1>7. pubRun' = [pubRun EXCEPT ![r] = k] /\ pubOutput' = [pubOutput EXCEPT !.npm = new]
  BY <1>1 DEF CopyBinaries, PubGoto, Outputs, Packages
<1>8. /\ pubArtifact = OfBinaries(pubRun[r].sources)
      /\ pubRun[r].sources \in Revisions
      /\ pubArtifact["deployer"] = pubRun[r].sources["deployer"]
      /\ pubArtifact["deployer"] # None
  BY <1>1, <1>3, OfBinariesTyped
     DEF PackFact, Measured, Assembling, Committed, Calls, Binaries, Repos, FirstCommit, None, Revisions
<1>9. pubOutput.npm.binaries["deployer"] \in {None, pubRun[r].sources["deployer"]} =>
        /\ b = "deployer" => copied["deployer"] = pubRun[r].sources["deployer"]
        /\ b = "connector" => copied = pubArtifact
  BY <1>1, <1>8 DEF Outputs, Packages, Builds, Binaries
<1>10. b \in {"deployer", "connector"}
  OBVIOUS
<1>. HIDE DEF k, new, copied, b
<1>11. /\ pubOutput' \in Outputs /\ pubOutput'.npm = new
       /\ pubOutput'.manifest = pubOutput.manifest /\ pubOutput'.archive = pubOutput.archive
  BY <1>1, <1>6, <1>7 DEF Outputs
<1>12. Placed(pubRun[r], pubOutput) => Placed(k, pubOutput')
  BY <1>1, <1>2, <1>6, <1>8, <1>9, <1>10, <1>11 DEF Placed, Tail
<1>13. pubOutput.npm.state # "none"
  BY <1>1 DEF PubInv, OneCompletes
<1>. QED  BY <1>1, <1>2, <1>4, <1>6, <1>7, <1>10, <1>11, <1>12, <1>13, PackGoes DEF Assembling

LEMMA DigestPackageStep == ASSUME PubInv, NEW r \in Runs, DigestPackage(r) PROVE Owed
<1>. DEFINE k == [pubRun[r] EXCEPT !.pc = "manifest", !.npm = pubOutput.npm.binaries]
            new == [pubOutput.npm EXCEPT !.state = "whole"]
<1>1. /\ pubRun[r] \in Calls /\ pubRun[r].pc = "package" /\ pubRun[r].pc \in Tail
      /\ Packing(r) /\ pubOutput \in Outputs
      /\ UNCHANGED <<pubRepo, pubArtifact, pubReceipt, pubRemote, pubAlone>>
  BY DEF DigestPackage, PubAt, PubInv, TypeOK, Assembling, Packing, Others, Tail
<1>2. /\ k \in Calls /\ k.pc = "manifest" /\ k.npm = pubOutput.npm.binaries
      /\ k.sources = pubRun[r].sources /\ k.digests = pubRun[r].digests
      /\ k.archive = pubRun[r].archive
  BY <1>1 DEF Calls, Points, Assembling, Outputs, Packages
<1>3. PackFact(pubRun[r])
  BY DEF PubInv, Known
<1>4. PackFact(k)
  BY <1>1, <1>2, <1>3 DEF PackFact, Measured, Assembling
<1>5. new \in Packages /\ new.state = "whole" /\ new.binaries = pubOutput.npm.binaries
  BY <1>1 DEF Outputs, Packages, States
<1>6. pubRun' = [pubRun EXCEPT ![r] = k] /\ pubOutput' = [pubOutput EXCEPT !.npm = new]
  BY <1>1 DEF DigestPackage, Outputs, Packages
<1>. HIDE DEF k, new
<1>7. /\ pubOutput' \in Outputs /\ pubOutput'.npm = new
      /\ pubOutput'.manifest = pubOutput.manifest /\ pubOutput'.archive = pubOutput.archive
  BY <1>1, <1>5, <1>6 DEF Outputs
<1>8. Placed(pubRun[r], pubOutput) => Placed(k, pubOutput')
  BY <1>1, <1>2, <1>5, <1>7 DEF Placed, Tail
<1>. QED  BY <1>1, <1>2, <1>4, <1>5, <1>6, <1>7, <1>8, PackGoes DEF Assembling

\* The end of an assembly that writes or tears the manifest: it was the only
\* one behind npm/, so there was no manifest.
LEMMA ManifestStep ==
    ASSUME PubInv, NEW r \in Runs, pubRun[r].pc = "manifest", End(r),
           NEW m \in Manifests, pubOutput' = [pubOutput EXCEPT !.manifest = m],
           UNCHANGED <<pubRepo, pubArtifact, pubReceipt, pubRemote, pubAlone>>,
           pubAlone => Truthful(m)
    PROVE  Owed
<1>1. /\ pubRun' = [pubRun EXCEPT ![r] = PubIdle] /\ PubIdle \in Calls /\ PubIdle.pc = "idle"
      /\ pubRun[r].pc \in Tail /\ pubRun[r].pc \in Assembling /\ Packing(r)
  BY NothingTyped DEF End, Tail, Assembling, Packing
<1>2. PubIdle.pc \notin Assembling /\ PubIdle.pc \notin Tail /\ PackFact(PubIdle)
  BY <1>1, PointsApart DEF PackFact
<1>3. /\ pubOutput.manifest.state = "none" /\ pubOutput.npm.state # "none"
      /\ \A s \in Runs \ {r} : pubRun[s].pc \notin Tail
  BY <1>1 DEF PubInv, OneCompletes
<1>4. /\ pubOutput' \in Outputs /\ pubOutput'.npm = pubOutput.npm /\ pubOutput'.manifest = m
      /\ pubAlone' \in BOOLEAN
  BY DEF PubInv, TypeOK, Outputs
<1>5. pubAlone' => /\ pubAlone /\ Truthful(pubOutput'.manifest)
                   /\ \A s \in Runs \ {r} : ~Packing(s)
  BY <1>1, <1>4 DEF PubInv, Undisturbed
<1>6. PubInv'
  BY <1>1, <1>2, <1>3, <1>4, <1>5, PackersOnly, PackStep
<1>. QED  BY <1>3, <1>6 DEF Owed, Claim

LEMMA WriteManifestStep == ASSUME PubInv, NEW r \in Runs, WriteManifest(r) PROVE Owed
<1>. DEFINE m == [state |-> "whole", sources |-> pubRun[r].sources,
                  archive |-> pubRun[r].archive, npm |-> pubRun[r].npm]
<1>1. /\ pubRun[r] \in Calls /\ pubRun[r].pc = "manifest" /\ Packing(r)
      /\ UNCHANGED <<pubRepo, pubArtifact, pubReceipt, pubRemote, pubAlone>>
      /\ End(r) /\ pubOutput' = [pubOutput EXCEPT !.manifest = m]
  BY DEF WriteManifest, PubAt, PubInv, TypeOK, Assembling, Packing, Others
<1>2. m \in Manifests
  BY <1>1 DEF Calls, Manifests, States
<1>3. pubAlone => Placed(pubRun[r], pubOutput)
  BY <1>1 DEF PubInv, Undisturbed
<1>4. pubAlone => Truthful(m)
  BY <1>1, <1>3 DEF Placed, Truthful, Tail
<1>. HIDE DEF m
<1>. QED  BY <1>1, <1>2, <1>4, ManifestStep

-----------------------------------------------------------------------------
(* publish.                                                                *)

LEMMA PlanPublicationStep == ASSUME PubInv, NEW r \in Runs, PlanPublication(r) PROVE Owed
<1>1. PICK places \in SUBSET Places \ {{}} :
        /\ Begin(r, [PubIdle EXCEPT !.pc = "authorise", !.todo = places], {})
        /\ UNCHANGED <<Files, Others>>
  BY DEF PlanPublication
<1>. DEFINE k == [PubIdle EXCEPT !.pc = "authorise", !.todo = places]
<1>2. k \in Calls /\ k.pc = "authorise"
  BY <1>1, NothingTyped DEF Calls, Points, Lone, Publishing
<1>3. LoneFact(k)
  BY <1>2 DEF LoneFact
<1>4. /\ \A s \in Runs \ {r} : PubAt(s, "idle")
      /\ pubRun' = [pubRun EXCEPT ![r] = k]
  BY <1>1 DEF Begin, PubAt
<1>. HIDE DEF k
<1>. QED  BY <1>1, <1>2, <1>3, <1>4, LoneGoes DEF Lone, Publishing

LEMMA VerifyPublishableStep == ASSUME PubInv, NEW r \in Runs, VerifyPublishable(r) PROVE Owed
<1>. DEFINE m == pubOutput.manifest
<1>1. /\ pubRun[r] \in Calls /\ pubRun[r].pc = "authorise" /\ pubRun[r].pc \in Lone
      /\ \A s \in Runs \ {r} : PubAt(s, "idle")
      /\ m \in Manifests /\ UNCHANGED <<Files, Others>>
  BY DEF VerifyPublishable, PubAt, PubInv, TypeOK, Exclusive, Lone, Publishing, Outputs
<1>2. CASE m.state = "whole" /\ Expected(Repos, m.sources)
  <2>. DEFINE k == [pubRun[r] EXCEPT !.pc = "validate", !.manifest = m]
  <2>1. k \in Calls /\ k.pc = "validate" /\ k.manifest = m
    BY <1>1 DEF Calls, Points, Lone, Publishing
  <2>2. LoneFact(k)
    BY <1>2, <2>1 DEF LoneFact
  <2>3. pubRun' = [pubRun EXCEPT ![r] = k]
    BY <1>2 DEF VerifyPublishable
  <2>. HIDE DEF k, m
  <2>. QED  BY <1>1, <2>1, <2>2, <2>3, LoneGoes DEF Lone, Publishing
<1>3. CASE ~(m.state = "whole" /\ Expected(Repos, m.sources))
  BY <1>1, <1>3, LoneEnds DEF VerifyPublishable, Files, Others, PubInv, TypeOK, ReceiptIsTrue
<1>. QED  BY <1>2, <1>3

LEMMA ValidateReleaseStep == ASSUME PubInv, NEW r \in Runs, ValidateRelease(r) PROVE Owed
<1>1. /\ pubRun[r] \in Calls /\ pubRun[r].pc = "validate" /\ pubRun[r].pc \in Lone
      /\ \A s \in Runs \ {r} : PubAt(s, "idle")
      /\ UNCHANGED <<Files, Others>>
  BY DEF ValidateRelease, PubAt, PubInv, TypeOK, Exclusive, Lone, Publishing
<1>2. CASE Valid(pubRun[r].manifest)
  <2>. DEFINE k == [pubRun[r] EXCEPT !.pc = "send"]
  <2>1. k \in Calls /\ k.pc = "send" /\ k.manifest = pubRun[r].manifest
    BY <1>1 DEF Calls, Points, Lone, Publishing
  <2>2. LoneFact(pubRun[r])
    BY DEF PubInv, Known
  <2>3. LoneFact(k)
    BY <1>1, <1>2, <2>1, <2>2 DEF LoneFact
  <2>4. pubRun' = [pubRun EXCEPT ![r] = k]
    BY <1>2 DEF ValidateRelease, PubGoto
  <2>. HIDE DEF k
  <2>. QED  BY <1>1, <2>1, <2>3, <2>4, LoneGoes DEF Lone, Publishing
<1>3. CASE ~Valid(pubRun[r].manifest)
  BY <1>1, <1>3, LoneEnds DEF ValidateRelease, Files, Others, PubInv, TypeOK, ReceiptIsTrue
<1>. QED  BY <1>2, <1>3

\* What is sent is what was validated, and the image is built from the
\* repository the manifest names.
LEMMA SentStep ==
    ASSUME PubInv, NEW r \in Runs, pubRun[r].pc = "send", NEW p \in Places,
           NEW remote \in Remotes, remote.image \in {pubRemote.image, Tree("server")},
           Sent(r, p, remote)
    PROVE  Owed
<1>. DEFINE m == pubOutput.manifest
<1>1. /\ pubRun[r] \in Calls /\ pubRun[r].pc \in Lone
      /\ \A s \in Runs \ {r} : PubAt(s, "idle")
      /\ m \in Manifests
  BY DEF PubInv, TypeOK, Exclusive, Lone, Publishing, Outputs
<1>2. /\ pubRun[r].manifest = m /\ m.state = "whole"
      /\ Expected(Repos, m.sources) /\ Valid(m)
  BY DEF PubInv, Known, LoneFact
<1>3. /\ pubRemote' = remote
      /\ UNCHANGED <<pubRepo, pubAlone, pubArtifact, pubReceipt, pubOutput>>
  BY DEF Sent, Files
<1>. DEFINE k == IF pubRun[r].todo = {p} THEN PubIdle ELSE [pubRun[r] EXCEPT !.todo = pubRun[r].todo \ {p}]
<1>4. /\ k \in Calls /\ k.pc \in {"send", "idle"}
      /\ k.pc = "send" => k.manifest = m
      /\ pubRun' = [pubRun EXCEPT ![r] = k]
  <2>1. CASE pubRun[r].todo = {p}
    BY <2>1, NothingTyped DEF Sent
  <2>2. CASE pubRun[r].todo # {p}
    BY <1>1, <1>2, <2>2 DEF Sent, Calls
  <2>. QED  BY <2>1, <2>2
<1>5. pubRun'[r] = k
  BY <1>4 DEF PubInv, TypeOK
<1>6. LoneFact(pubRun[r])'
  BY <1>2, <1>3, <1>4, <1>5 DEF LoneFact, Expected, Valid
<1>7. pubArtifact' \in Builds /\ pubReceipt' \in Receipts /\ ReceiptIsTrue'
  BY <1>3 DEF PubInv, TypeOK, ReceiptIsTrue
<1>. HIDE DEF k
<1>8. PubInv'
  BY <1>1, <1>3, <1>4, <1>6, <1>7, LoneStep DEF Lone, Publishing
<1>9. Tree("server") = m.sources["server"]
  <2>1. pubRepo["server"] = [head |-> m.sources["server"], clean |-> TRUE]
    BY <1>2 DEF Expected, Repos
  <2>2. pubRepo["server"].clean = TRUE /\ pubRepo["server"].head = m.sources["server"]
    BY <2>1
  <2>. QED  BY <2>2 DEF Tree
<1>10. pubAlone => /\ m.archive.binaries = OfBinaries(m.sources)
                   /\ m.archive.metadata = OfBinaries(m.sources)
                   /\ m.npm = OfBinaries(m.sources)
  BY <1>2 DEF PubInv, Undisturbed, Truthful
<1>11. Claim
  BY <1>2, <1>3, <1>9, <1>10 DEF Claim, Valid
<1>. QED  BY <1>8, <1>11 DEF Owed

LEMMA SendSteps ==
    ASSUME PubInv, NEW r \in Runs, PushImage(r) \/ PublishNpm(r) \/ PublishGithub(r)
    PROVE  Owed
<1>1. pubRun[r].pc = "send" /\ pubRemote \in Remotes
  BY DEF PushImage, PublishNpm, PublishGithub, PubAt, PubInv, TypeOK
<1>2. CASE PushImage(r)
  <2>1. Tree("server") \in Nat
    BY DEF PubInv, TypeOK, Tree, Uncommitted, Repos
  <2>2. [pubRemote EXCEPT !.image = Tree("server")] \in Remotes
    BY <1>1, <2>1 DEF Remotes
  <2>3. [pubRemote EXCEPT !.image = Tree("server")].image = Tree("server")
    BY <1>1 DEF Remotes
  <2>. QED  BY <1>1, <1>2, <2>2, <2>3, SentStep DEF PushImage, Places
<1>3. CASE PublishNpm(r)
  <2>1. /\ [pubRemote EXCEPT !.npm = TRUE] \in Remotes
        /\ [pubRemote EXCEPT !.npm = TRUE].image = pubRemote.image
    BY <1>1 DEF Remotes
  <2>. QED  BY <1>1, <1>3, <2>1, SentStep DEF PublishNpm, Places
<1>4. CASE PublishGithub(r)
  <2>1. /\ [pubRemote EXCEPT !.github = TRUE] \in Remotes
        /\ [pubRemote EXCEPT !.github = TRUE].image = pubRemote.image
    BY <1>1 DEF Remotes
  <2>. QED  BY <1>1, <1>4, <2>1, SentStep DEF PublishGithub, Places
<1>. QED  BY <1>2, <1>3, <1>4

-----------------------------------------------------------------------------
(* The environment, and the theorem.                                       *)

LEMMA StopStep == ASSUME PubInv, NEW r \in Runs, PubStop(r) PROVE Owed
<1>1. /\ pubRun[r] \in Calls /\ pubRun[r].pc # "idle" /\ End(r)
      /\ UNCHANGED <<pubRepo, pubRemote, pubAlone>> /\ pubAlone' \in BOOLEAN
  BY DEF PubStop, PubAt, PubInv, TypeOK, Others
<1>2. pubRun[r].pc \in Lone \cup Assembling
  BY <1>1 DEF Calls, Points
<1>3. CASE UNCHANGED Files
  <2>1. /\ UNCHANGED <<pubArtifact, pubReceipt, pubOutput>>
        /\ pubArtifact' \in Builds /\ pubReceipt' \in Receipts /\ ReceiptIsTrue'
    BY <1>3 DEF Files, PubInv, TypeOK, ReceiptIsTrue
  <2>. QED  BY <1>1, <1>2, <1>3, <2>1, LoneEnds, PackEnds
<1>4. CASE /\ pubRun[r].pc \in {"go", "collect"} /\ pubArtifact' \in Builds
           /\ UNCHANGED <<pubReceipt, pubOutput>>
  <2>1. pubReceipt' \in Receipts /\ ReceiptIsTrue'
    BY <1>4 DEF PubInv, TypeOK, ReceiptIsTrue
  <2>. QED  BY <1>1, <1>4, <2>1, LoneEnds DEF Lone, Building
<1>5. CASE /\ pubRun[r].pc = "receipt" /\ pubReceipt' = [pubReceipt EXCEPT !.state = "torn"]
           /\ UNCHANGED <<pubArtifact, pubOutput>>
  <2>1. pubArtifact' \in Builds /\ pubReceipt' \in Receipts /\ ReceiptIsTrue'
    BY <1>5 DEF PubInv, TypeOK, ReceiptIsTrue, Receipts, States
  <2>. QED  BY <1>1, <1>5, <2>1, LoneEnds DEF Lone, Building
<1>6. CASE /\ pubRun[r].pc = "manifest" /\ pubOutput' = [pubOutput EXCEPT !.manifest.state = "torn"]
           /\ UNCHANGED <<pubArtifact, pubReceipt>>
  <2>. DEFINE m == [pubOutput.manifest EXCEPT !.state = "torn"]
  <2>1. pubOutput \in Outputs
    BY DEF PubInv, TypeOK
  <2>2. m \in Manifests /\ Truthful(m)
    BY <2>1 DEF Outputs, Manifests, States, Truthful
  <2>3. pubOutput' = [pubOutput EXCEPT !.manifest = m]
    BY <1>6, <2>1 DEF Outputs, Manifests
  <2>. HIDE DEF m
  <2>. QED  BY <1>1, <1>6, <2>2, <2>3, ManifestStep
<1>7. \A b \in Binaries : [pubArtifact EXCEPT ![b] = Garbage] \in Builds
  BY DEF PubInv, TypeOK, Builds, Garbage
<1>. QED  BY <1>3, <1>4, <1>5, <1>6, <1>7 DEF PubStop, PubAt, Binaries

\* While no compiler reads a repository nobody relies on it.
LEMMA ChangeRepositoryStep == ASSUME PubInv, ChangeRepository PROVE Owed
<1>1. /\ UNCHANGED <<pubRun, pubRemote, pubAlone, pubArtifact, pubReceipt, pubOutput>>
      /\ \A r \in Runs : pubRun[r].pc \notin {"cargo", "go", "validate", "send"}
  BY DEF ChangeRepository, Files, Compiling
<1>2. /\ pubRepo' \in [Repos -> [head : Nat, clean : BOOLEAN]]
      /\ \A p \in Repos : pubRepo'[p].head >= FirstCommit
  <2>1. PICK p \in Repos :
          \/ pubRepo' = [pubRepo EXCEPT ![p] = [head |-> pubRepo[p].head + 1, clean |-> TRUE]]
          \/ pubRepo' = [pubRepo EXCEPT ![p].clean = ~pubRepo[p].clean]
    BY DEF ChangeRepository
  <2>2. /\ pubRepo \in [Repos -> [head : Nat, clean : BOOLEAN]]
        /\ \A q \in Repos : pubRepo[q].head >= FirstCommit
    BY DEF PubInv, TypeOK
  <2>3. CASE pubRepo' = [pubRepo EXCEPT ![p] = [head |-> pubRepo[p].head + 1, clean |-> TRUE]]
    BY <2>2, <2>3 DEF FirstCommit
  <2>4. CASE pubRepo' = [pubRepo EXCEPT ![p].clean = ~pubRepo[p].clean]
    <3>. DEFINE flag == ~pubRepo[p].clean
    <3>1. flag \in BOOLEAN
      OBVIOUS
    <3>2. pubRepo' = [pubRepo EXCEPT ![p].clean = flag]
      BY <2>4
    <3>. HIDE DEF flag
    <3>. QED  BY <2>2, <3>1, <3>2
  <2>. QED  BY <2>1, <2>3, <2>4
<1>3. TypeOK'
  BY <1>1, <1>2 DEF PubInv, TypeOK
<1>4. Known'
  BY <1>1 DEF PubInv, Known, LoneFact, PackFact
<1>5. Exclusive' /\ ReceiptIsTrue' /\ OneCompletes' /\ (pubAlone' => Undisturbed')
  BY <1>1 DEF PubInv, Exclusive, PubAt, ReceiptIsTrue, OneCompletes, Undisturbed, Packing
<1>. QED  BY <1>1, <1>2, <1>3, <1>4, <1>5, QuietStep DEF Owed, PubInv

LEMMA ClearOutputStep == ASSUME PubInv, ClearOutput PROVE Owed
<1>1. /\ UNCHANGED <<pubRun, pubRepo, pubRemote, pubArtifact, pubReceipt>>
      /\ pubOutput' = NoOutput /\ pubAlone' = TRUE
      /\ \A r \in Runs : pubRun[r].pc = "idle"
  BY DEF ClearOutput, PubAt
<1>2. TypeOK'
  BY <1>1, NothingTyped DEF PubInv, TypeOK
<1>3. Exclusive' /\ ReceiptIsTrue'
  BY <1>1 DEF PubInv, Exclusive, PubAt, ReceiptIsTrue
<1>4. Known'
  BY <1>1, PointsApart DEF Known, LoneFact, PackFact
<1>5. OneCompletes' /\ Undisturbed'
  BY <1>1, PointsApart
     DEF OneCompletes, Undisturbed, Packing, Truthful, NoOutput, NoManifest, Tail
<1>. QED  BY <1>1, <1>2, <1>3, <1>4, <1>5 DEF Owed, PubInv, Claim

\* build, assemble and publish send out one release, made of the commits its
\* manifest names, whatever was cut off before, unless two assemblies wrote
\* to the directory at once; and no manifest ever replaces another.
THEOREM PublicationSafety == PubSpec => PublishedIsBuilt
<1>1. PubInit => PubInv
  BY PubInitInv
<1>2. ASSUME PubInv, [PubNext]_pubVars
      PROVE  PubInv' /\ [Claim]_pubVars
  <2>1. CASE UNCHANGED pubVars
    <3>1. UNCHANGED <<pubRun, pubRepo, pubArtifact, pubReceipt, pubOutput, pubRemote, pubAlone>>
      BY <2>1 DEF pubVars
    <3>2. TypeOK' /\ Exclusive' /\ ReceiptIsTrue' /\ OneCompletes'
      BY <1>2, <3>1 DEF PubInv, TypeOK, Exclusive, PubAt, ReceiptIsTrue, OneCompletes
    <3>3. Known'
      BY <1>2, <3>1 DEF PubInv, Known, LoneFact, PackFact, Expected, Valid
    <3>4. pubAlone' => Undisturbed'
      BY <1>2, <3>1 DEF PubInv, Undisturbed, Packing
    <3>. QED  BY <1>2, <2>1, <3>1, <3>2, <3>3, <3>4 DEF PubInv
  <2>2. ASSUME NEW r \in Runs,
               \/ StartBuild(r) \/ VerifyBinarySources(r) \/ BuildDeployer(r) \/ BuildConnector(r)
               \/ Collect(r) \/ DigestBinaries(r) \/ WriteReceipt(r)
        PROVE  Owed
    BY <1>2, <2>2, StartBuildStep, VerifyBinarySourcesStep, BuildDeployerStep,
       BuildConnectorStep, CollectStep, DigestBinariesStep, WriteReceiptStep
  <2>3. ASSUME NEW r \in Runs,
               \/ StartAssemble(r) \/ PrepareOutput(r) \/ VerifyReceipt(r) \/ DigestInputs(r)
               \/ OpenArchive(r) \/ WriteArchive(r) \/ DigestArchive(r)
               \/ CreatePackage(r) \/ CopyBinaries(r) \/ DigestPackage(r) \/ WriteManifest(r)
        PROVE  Owed
    BY <1>2, <2>3, StartAssembleStep, PrepareOutputStep, VerifyReceiptStep, DigestInputsStep,
       OpenArchiveStep, WriteArchiveStep, DigestArchiveStep,
       CreatePackageStep, CopyBinariesStep, DigestPackageStep, WriteManifestStep
  <2>4. ASSUME NEW r \in Runs,
               \/ PlanPublication(r) \/ VerifyPublishable(r) \/ ValidateRelease(r)
               \/ PushImage(r) \/ PublishNpm(r) \/ PublishGithub(r)
               \/ PubStop(r)
        PROVE  Owed
    BY <1>2, <2>4, PlanPublicationStep, VerifyPublishableStep, ValidateReleaseStep,
       SendSteps, StopStep
  <2>5. CASE ChangeRepository
    BY <1>2, <2>5, ChangeRepositoryStep DEF Owed
  <2>6. CASE ClearOutput
    BY <1>2, <2>6, ClearOutputStep DEF Owed
  <2>. QED  BY <1>2, <2>1, <2>2, <2>3, <2>4, <2>5, <2>6 DEF PubNext, Owed
<1>. QED  BY <1>1, <1>2, PTL DEF PubSpec, PublishedIsBuilt, Claim
=============================================================================
