-------------------------- MODULE ReleaseStageProofs --------------------------
(***************************************************************************)
(* A release assembly that reports success published what it validated,    *)
(* and one that is refused leaves nothing: for any number of runs, files   *)
(* and edits made by others.                                               *)
(*                                                                         *)
(* What a run publishes is a name in a directory that others may change;   *)
(* the invariant says which directory a name can refer to at every point   *)
(* of the run that made it, and what the run's inventory is worth from the *)
(* point where it was taken.  Until then it says what assemble's evidence  *)
(* and its comparison with the stage are worth: as long as nobody edits    *)
(* anything, the stage has the evidence and the attested files.            *)
(***************************************************************************)
EXTENDS ReleaseStage, TLAPS

\* A run is none of the marks and names that are numbers too.
RunNumbers == {Unset, Output, Foreign} \cap StageRuns = {}

\* The points of a run that has a stage, that has an inventory, and that may have published.
Taken  == {"sources", "namespace", "fragments", "validate", "rename"}
Staged == {"exists", "copy", "read", "evidence", "compare", "inventory"} \cup Taken
Past   == {"confirm", "ok", "err", "killed"}
Points == {"new", "create", "rescan"} \cup Staged \cup Past

Record(x) ==
    /\ x = [pc |-> x.pc, kind |-> x.kind, parent |-> x.parent, fragment |-> x.fragment,
            file |-> x.file, seen |-> x.seen, copied |-> x.copied, gap |-> x.gap,
            inventory |-> x.inventory]
    /\ x.parent \in Parents /\ x.pc \in Points
    /\ x.kind = "verify" => x.pc \in {"rescan", "ok", "err", "killed"}
    /\ x.pc = "rescan" => x.kind = "verify"

Content(c) == c = [files |-> c.files, evidence |-> c.evidence, sums |-> c.sums]

Typed ==
    /\ relRun = [r \in StageRuns |-> relRun[r]]
    /\ \A r \in StageRuns : Record(relRun[r])
    /\ relParent \in Parents
    /\ relNames \in [Parents -> [Names -> StageRuns \cup {Unset, Foreign}]]
    /\ relLock \in [Parents -> StageRuns \cup {Unset}]
    /\ relContent = [d \in Directories |-> relContent[d]]
    /\ \A d \in Directories : Content(relContent[d])
    /\ relEdits \in Nat

\* A stage's name refers to the stage while its run works, or was killed at it.
StageIs(x, r) ==
    \A p \in Parents :
        /\ relNames[p][r] \in {Unset, r, Foreign}
        /\ relNames[p][r] = r => p = x.parent /\ x.pc \in Staged \cup {"killed"} /\ x.kind # "verify"

\* An output is the work of a run that has done the rename.
OutputIs(x, r) == \A p \in Parents : relNames[p][Output] = r => x.pc \in Past

\* A run that works holds the lock of its parent.
LockIs(x, r) == x.pc \in Staged \cup {"confirm"} => relLock[x.parent] = r

\* After its evidence was written and compared, a stage has the evidence of what was copied, and
\* the attested files as they were copied, until somebody makes an edit.
ComparedIs(x, r) ==
    /\ x.pc = "compare" =>
         /\ x.gap \in Nat /\ x.gap <= relEdits
         /\ x.gap = relEdits => relContent[r].evidence = x.copied
    /\ x.pc = "inventory" /\ x.kind = "assemble" =>
         /\ x.gap \in Nat /\ x.gap <= relEdits
         /\ x.gap = relEdits =>
              MatchesEvidence(relContent[r], x.copied) /\ relContent[r].evidence = x.copied

\* What the inventory of compose and of assemble is worth.
InventoryIs(x) ==
    x.pc \in Taken \cup {"confirm"} =>
        /\ x.kind = "compose" => Whole(x.inventory.files)
        /\ x.kind = "assemble" =>
             /\ x.inventory.sums = Digests(x.inventory)
             /\ x.gap = 0 =>
                  x.inventory.evidence = x.copied /\ MatchesEvidence(x.inventory, x.copied)

\* verify scans again only what it accepted at first.
VerifiedIs(x) == x.pc = "rescan" => Consistent(x.inventory)

RunIs(x, r) ==
    StageIs(x, r) /\ OutputIs(x, r) /\ LockIs(x, r) /\ ComparedIs(x, r) /\ InventoryIs(x) /\ VerifiedIs(x)

Inv == Typed /\ \A r \in StageRuns : RunIs(relRun[r], r)

-----------------------------------------------------------------------------
(* What a step keeps.                                                      *)

\* What a run that succeeds has published.
Published(r) ==
    LET x == relRun[r]
        d == relNames'[relParent'][Output]
        c == relContent'[d]
    IN  /\ c = x.inventory
        /\ x.kind # "verify" => d = r
        /\ x.kind = "compose" => Whole(c.files)
        /\ x.kind = "assemble" =>
             /\ c.sums = Digests(c)
             /\ x.gap = 0 => c.evidence = x.copied /\ MatchesEvidence(c, x.copied)
        /\ x.kind = "verify" => Consistent(c)

\* What a run that fails has left.
Cleared(r) ==
    /\ \A p \in Parents : relNames'[p][r] # r
    /\ ~RelAt(r, "confirm") => \A p \in Parents : relNames'[p][Output] # r

OutputsStay == \A p \in Parents : relNames[p][Output] \in {Unset, relNames'[p][Output]}

Promise ==
    /\ OutputsStay
    /\ \A r \in StageRuns : (Succeeds(r) => Published(r)) /\ (Fails(r) => Cleared(r))

Kept == Inv' /\ Promise

NamesTyped == relNames \in [Parents -> [Names -> StageRuns \cup {Unset, Foreign}]]
LocksTyped == relLock \in [Parents -> StageRuns \cup {Unset}]
ContentTyped ==
    /\ relContent = [d \in Directories |-> relContent[d]]
    /\ \A d \in Directories : Content(relContent[d])

\* One directory changes, the others do not.
LEMMA OneDirectory ==
    ASSUME Typed, NEW d \in Directories, NEW c, Content(c), relContent' = [relContent EXCEPT ![d] = c]
    PROVE  /\ ContentTyped' /\ relContent'[d] = c
           /\ \A q \in StageRuns \ {d} : relContent'[q] = relContent[q]
<1>1. \A e \in Directories : relContent'[e] = IF e = d THEN c ELSE relContent[e]
  BY DEF Typed
<1>2. relContent' = [e \in Directories |-> relContent'[e]]
  BY DEF Typed
<1>3. \A e \in Directories : Content(relContent'[e])
  BY <1>1 DEF Typed
<1>4. StageRuns \subseteq Directories
  BY DEF Directories
<1>. QED  BY <1>1, <1>2, <1>3, <1>4 DEF ContentTyped

\* A run moves to x: no name or lock of another run changes, an output appears only where none
\* was, and a run that is past its publication stays so.
LEMMA RunMove ==
    ASSUME RunNumbers, Inv, NEW r \in StageRuns, NEW x, Record(x), relRun' = [relRun EXCEPT ![r] = x],
           relRun[r].pc \notin {"ok", "err", "killed"},
           UNCHANGED <<relParent, relEdits>>, NamesTyped', LocksTyped', ContentTyped',
           \A q \in StageRuns \ {r} : relContent'[q] = relContent[q],
           \A p \in Parents, q \in StageRuns \ {r} : relNames'[p][q] = relNames[p][q],
           \A p \in Parents :
               \/ relNames'[p][Output] = relNames[p][Output]
               \/ /\ x.pc = "confirm"
                  /\ relNames[p][Output] = Unset /\ relNames'[p][Output] \in {r, Foreign},
           \A p \in Parents : relLock[p] \in StageRuns \ {r} => relLock'[p] = relLock[p],
           relRun[r].pc \in Past => x.pc \in Past,
           RunIs(x, r)',
           x.pc = "ok" => Published(r)
    PROVE  Kept
<1>0. Typed /\ \A q \in StageRuns : RunIs(relRun[q], q)
  BY DEF Inv
<1>1. relRun'[r] = x /\ \A q \in StageRuns \ {r} : relRun'[q] = relRun[q]
  BY <1>0 DEF Typed
<1>2. Typed'
  <2>1. relRun' = [q \in StageRuns |-> relRun'[q]]
    BY <1>0 DEF Typed
  <2>2. \A q \in StageRuns : Record(relRun'[q])
    BY <1>0, <1>1 DEF Typed
  <2>. QED  BY <1>0, <2>1, <2>2 DEF Typed, NamesTyped, LocksTyped, ContentTyped
<1>3. ASSUME NEW q \in StageRuns \ {r}
      PROVE  RunIs(relRun[q], q)'
  <2>1. PICK y : y = relRun[q]
    OBVIOUS
  <2>2. RunIs(y, q) /\ y.parent \in Parents /\ y = relRun'[q]
    BY <1>0, <1>1, <2>1 DEF Typed, Record
  <2>3. StageIs(y, q)'
    BY <2>2 DEF RunIs, StageIs
  <2>4. OutputIs(y, q)'
    <3>1. q # Foreign
      BY DEF RunNumbers
    <3>. QED  BY <2>2, <3>1 DEF RunIs, OutputIs
  <2>5. LockIs(y, q)'
    BY <2>2 DEF RunIs, LockIs
  <2>6. ComparedIs(y, q)'
    BY <2>2 DEF RunIs, ComparedIs
  <2>7. InventoryIs(y)' /\ VerifiedIs(y)'
    BY <2>2 DEF RunIs, InventoryIs, VerifiedIs, Whole, Consistent, Documented, Digests
  <2>8. RunIs(y, q)'
    BY <2>3, <2>4, <2>5, <2>6, <2>7 DEF RunIs
  <2>. QED  BY <2>2, <2>8
<1>4. Inv'
  BY <1>1, <1>2, <1>3 DEF Inv
<1>5. OutputsStay
  BY DEF OutputsStay
<1>6. \A q \in StageRuns \ {r} : ~Succeeds(q) /\ ~Fails(q)
  BY <1>1 DEF Succeeds, Fails, RelAt
<1>7. Fails(r) => Cleared(r)
  <2>. SUFFICES ASSUME x.pc = "err"
                PROVE  Cleared(r)
    BY <1>1 DEF Fails
  <2>1. \A p \in Parents : relNames'[p][r] # r
    BY DEF RunIs, StageIs, Staged, Taken
  <2>2. ~RelAt(r, "confirm") => \A p \in Parents : relNames'[p][Output] # r
    BY <1>0 DEF RunIs, OutputIs, Past, RelAt
  <2>. QED  BY <2>1, <2>2 DEF Cleared
<1>8. Succeeds(r) => Published(r)
  BY <1>1 DEF Succeeds
<1>. QED  BY <1>4, <1>5, <1>6, <1>7, <1>8 DEF Kept, Promise

\* Others move the parent's path, or put a directory of theirs under a name.
LEMMA OthersMove ==
    ASSUME RunNumbers, Inv, UNCHANGED <<relRun, relLock>>, relEdits' = relEdits + 1, relParent' \in Parents,
           NamesTyped', ContentTyped',
           \A p \in Parents, n \in Names : relNames'[p][n] \in {relNames[p][n], Foreign},
           OutputsStay
    PROVE  Kept
<1>0. Typed /\ \A q \in StageRuns : RunIs(relRun[q], q)
  BY DEF Inv
<1>1. Typed'
  BY <1>0 DEF Typed, NamesTyped, ContentTyped
<1>2. ASSUME NEW q \in StageRuns
      PROVE  RunIs(relRun[q], q)'
  <2>1. PICK y : y = relRun[q]
    OBVIOUS
  <2>2. RunIs(y, q) /\ y = relRun'[q]
    BY <1>0, <2>1
  <2>3. q # Foreign /\ q \in Names /\ Output \in Names
    BY DEF RunNumbers, Names
  <2>4. StageIs(y, q)' /\ OutputIs(y, q)'
    BY <2>2, <2>3 DEF RunIs, StageIs, OutputIs
  <2>5. LockIs(y, q)' /\ InventoryIs(y)' /\ VerifiedIs(y)'
    BY <2>2 DEF RunIs, LockIs, InventoryIs, VerifiedIs, Whole, Consistent, Documented, Digests
  <2>6. ComparedIs(y, q)'
    <3>1. relEdits \in Nat /\ ComparedIs(y, q)
      BY <1>0, <2>2 DEF Typed, RunIs
    <3>2. y.gap \in Nat /\ y.gap <= relEdits => y.gap <= relEdits' /\ y.gap # relEdits'
      BY <3>1
    <3>. QED  BY <3>1, <3>2 DEF ComparedIs
  <2>. QED  BY <2>2, <2>4, <2>5, <2>6 DEF RunIs
<1>3. \A q \in StageRuns : ~Succeeds(q) /\ ~Fails(q)
  BY DEF Succeeds, Fails, RelAt
<1>. QED  BY <1>1, <1>2, <1>3 DEF Kept, Promise, Inv

\* A run with a stage goes on: no name and no lock changes.
LEMMA GoesOn ==
    ASSUME RunNumbers, Inv, NEW r \in StageRuns, NEW x, Record(x), relRun' = [relRun EXCEPT ![r] = x],
           relRun[r].pc \in Staged, x.pc \in Staged,
           x.parent = relRun[r].parent, x.kind = relRun[r].kind, InventoryIs(x), ComparedIs(x, r)',
           UNCHANGED <<relNames, relLock, relParent, relEdits>>, ContentTyped',
           \A q \in StageRuns \ {r} : relContent'[q] = relContent[q]
    PROVE  Kept
<1>0. Typed /\ RunIs(relRun[r], r)
  BY DEF Inv
<1>1. NamesTyped' /\ LocksTyped'
  BY <1>0 DEF Typed, NamesTyped, LocksTyped
<1>2. x.pc \notin {"ok", "rescan"} \cup Past /\ relRun[r].pc \notin {"ok", "err", "killed"} \cup Past
  BY DEF Staged, Taken, Past
<1>3. x.kind # "verify"
  BY <1>2 DEF Record, Past
<1>4. RunIs(x, r)'
  <2>1. StageIs(x, r)'
    BY <1>0, <1>3 DEF RunIs, StageIs
  <2>2. OutputIs(x, r)'
    BY <1>0, <1>2 DEF RunIs, OutputIs
  <2>3. LockIs(x, r)'
    BY <1>0 DEF RunIs, LockIs
  <2>4. InventoryIs(x)' /\ VerifiedIs(x)'
    BY <1>2 DEF InventoryIs, VerifiedIs, Whole, Consistent, Documented, Digests
  <2>. QED  BY <2>1, <2>2, <2>3, <2>4 DEF RunIs
<1>. QED  BY <1>1, <1>2, <1>4, RunMove

\* A run with a stage is refused: the stage goes, and then the lock.
LEMMA RefuseStep ==
    ASSUME RunNumbers, Inv, NEW r \in StageRuns, relRun[r].pc \in Staged, Refuse(r),
           UNCHANGED <<relParent, relEdits>>
    PROVE  Kept
<1>0. Typed /\ RunIs(relRun[r], r) /\ Record(relRun[r])
  BY DEF Inv, Typed
<1>1. PICK x : x = [relRun[r] EXCEPT !.pc = "err"]
  OBVIOUS
<1>2. relRun' = [relRun EXCEPT ![r] = x]
  BY <1>1 DEF Refuse, RelGoto
<1>3. Record(x) /\ x.pc = "err" /\ x.parent = Dir(r) /\ x.parent \in Parents
  BY <1>0, <1>1 DEF Record, Points, Past, Dir
<1>4. r \in Names /\ Output \in Names /\ r # Output /\ r # Unset
  BY DEF Names, RunNumbers
<1>5. relNames' = [relNames EXCEPT ![Dir(r)][r] = IF relNames[Dir(r)][r] = r THEN Unset ELSE @]
  BY <1>0, <1>3, <1>4 DEF Refuse, StageMatches, Typed
<1>6. NamesTyped' /\ LocksTyped'
  <2>1. NamesTyped'
    BY <1>0, <1>3, <1>4, <1>5 DEF NamesTyped, Typed
  <2>2. LocksTyped'
    BY <1>0 DEF LocksTyped, Typed, Refuse, Unlock
  <2>. QED  BY <2>1, <2>2
<1>7. \A p \in Parents, q \in Names \ {r} : relNames'[p][q] = relNames[p][q]
  BY <1>0, <1>3, <1>4, <1>5 DEF Typed
<1>8. \A p \in Parents : relNames'[p][r] = IF relNames[p][r] = r THEN Unset ELSE relNames[p][r]
  BY <1>0, <1>3, <1>4, <1>5 DEF Typed, RunIs, StageIs, Dir
<1>9. \A p \in Parents : relLock[p] \in StageRuns \ {r} => relLock'[p] = relLock[p]
  BY DEF Refuse, Unlock
<1>10. RunIs(x, r)'
  <2>1. StageIs(x, r)'
    BY <1>0, <1>4, <1>8 DEF RunIs, StageIs
  <2>2. OutputIs(x, r)'
    BY <1>3 DEF OutputIs, Past
  <2>3. LockIs(x, r)' /\ ComparedIs(x, r)' /\ InventoryIs(x)' /\ VerifiedIs(x)'
    BY <1>3 DEF LockIs, ComparedIs, InventoryIs, VerifiedIs, Staged, Taken
  <2>. QED  BY <2>1, <2>2, <2>3 DEF RunIs
<1>11. relRun[r].pc \notin Past /\ relRun[r].pc \notin {"ok", "err", "killed"}
  BY DEF Staged, Taken, Past
<1>12. \A p \in Parents, q \in StageRuns \ {r} : relNames'[p][q] = relNames[p][q]
  BY <1>7 DEF Names
<1>13. \A p \in Parents : relNames'[p][Output] = relNames[p][Output]
  BY <1>4, <1>7
<1>14. ContentTyped' /\ \A q \in StageRuns \ {r} : relContent'[q] = relContent[q]
  <2>1. CASE UNCHANGED relContent
    BY <1>0, <2>1 DEF Typed, ContentTyped
  <2>2. CASE relContent' = [relContent EXCEPT ![r] = Blank]
    <3>1. Content(Blank) /\ r \in Directories
      BY DEF Content, Blank, Directories
    <3>. QED  BY <1>0, <2>2, <3>1, OneDirectory
  <2>. QED  BY <2>1, <2>2 DEF Refuse
<1>. QED  BY <1>2, <1>3, <1>6, <1>9, <1>10, <1>11, <1>12, <1>13, <1>14, RunMove

-----------------------------------------------------------------------------
(* The initial state.                                                      *)

\* No run has begun, and no name refers to anything.
LEMMA InitInv ==
    ASSUME RunNumbers, RelInit
    PROVE  Inv
<1>1. Typed
  <2>1. relRun = [r \in StageRuns |-> relRun[r]]
    BY DEF RelInit
  <2>2. \A r \in StageRuns : Record(relRun[r])
    BY DEF RelInit, Record, Parents, Points
  <2>3. relParent \in Parents /\ NamesTyped /\ LocksTyped
    BY DEF RelInit, Parents, NamesTyped, LocksTyped
  <2>4. ContentTyped /\ relEdits \in Nat
    BY DEF RelInit, ContentTyped, Content, Blank, Documented
  <2>. QED  BY <2>1, <2>2, <2>3, <2>4 DEF Typed, NamesTyped, LocksTyped, ContentTyped
<1>2. ASSUME NEW r \in StageRuns
      PROVE  RunIs(relRun[r], r)
  <2>1. relRun[r].pc = "new"
    BY DEF RelInit
  <2>2. r \in Names /\ Output \in Names /\ r # Unset
    BY DEF Names, RunNumbers
  <2>3. \A p \in Parents : relNames[p][r] = Unset /\ relNames[p][Output] = Unset
    BY <2>2 DEF RelInit
  <2>4. StageIs(relRun[r], r) /\ OutputIs(relRun[r], r)
    BY <2>2, <2>3 DEF StageIs, OutputIs
  <2>5. /\ LockIs(relRun[r], r) /\ ComparedIs(relRun[r], r)
        /\ InventoryIs(relRun[r]) /\ VerifiedIs(relRun[r])
    BY <2>1 DEF LockIs, ComparedIs, InventoryIs, VerifiedIs, Staged, Taken
  <2>. QED  BY <2>4, <2>5 DEF RunIs
<1>. QED  BY <1>1, <1>2 DEF Inv

-----------------------------------------------------------------------------
(* Every action.                                                           *)

\* A run begins: it has no stage yet, and either prepares one or is refused.
LEMMA BeginStep ==
    ASSUME RunNumbers, Inv, NEW r \in StageRuns, BeginAssemble(r) \/ BeginCompose(r)
    PROVE  Kept
<1>0. Typed /\ RunIs(relRun[r], r) /\ Record(relRun[r])
  BY DEF Inv, Typed
<1>1. PICK x : relRun' = [relRun EXCEPT ![r] = x] /\ Record(x) /\ x.pc \in {"create", "err"}
  <2>1. CASE BeginAssemble(r)
    <3>1. PICK x : x = [relRun[r] EXCEPT !.kind = "assemble",
                                         !.pc = IF SourcesExpected THEN "create" ELSE "err"]
      OBVIOUS
    <3>2. relRun' = [relRun EXCEPT ![r] = x]
      BY <2>1, <3>1 DEF BeginAssemble
    <3>3. Record(x) /\ x.pc \in {"create", "err"}
      BY <1>0, <3>1 DEF Record, Points, Past
    <3>. QED  BY <3>2, <3>3
  <2>2. CASE BeginCompose(r)
    <3>1. PICK x : x = [relRun[r] EXCEPT !.kind = "compose", !.pc = "create", !.fragment = relFragment]
      OBVIOUS
    <3>2. relRun' = [relRun EXCEPT ![r] = x]
      BY <2>2, <3>1 DEF BeginCompose
    <3>3. Record(x) /\ x.pc \in {"create", "err"}
      BY <1>0, <3>1 DEF Record, Points
    <3>. QED  BY <3>2, <3>3
  <2>. QED  BY <2>1, <2>2
<1>3. relRun[r].pc = "new" /\ UNCHANGED <<relParent, relEdits, relNames, relLock, relContent>>
  BY DEF BeginAssemble, BeginCompose, RelAt, World
<1>4. NamesTyped' /\ LocksTyped' /\ ContentTyped'
  BY <1>0, <1>3 DEF Typed, NamesTyped, LocksTyped, ContentTyped
<1>5. RunIs(x, r)'
  <2>1. StageIs(x, r)' /\ OutputIs(x, r)'
    BY <1>0, <1>3 DEF RunIs, StageIs, OutputIs, Staged, Taken, Past
  <2>2. LockIs(x, r)' /\ ComparedIs(x, r)' /\ InventoryIs(x)' /\ VerifiedIs(x)'
    BY <1>1 DEF LockIs, ComparedIs, InventoryIs, VerifiedIs, Staged, Taken
  <2>. QED  BY <2>1, <2>2 DEF RunIs
<1>. QED  BY <1>1, <1>3, <1>4, <1>5, RunMove DEF Past

\* A stage is created in a parent nobody holds, or the run is refused.
LEMMA CreateStep ==
    ASSUME RunNumbers, Inv, NEW r \in StageRuns, CreateStage(r)
    PROVE  Kept
<1>0. Typed /\ RunIs(relRun[r], r) /\ Record(relRun[r]) /\ relParent \in Parents
  BY DEF Inv, Typed
<1>1. /\ relRun[r].pc = "create" /\ UNCHANGED <<relParent, relEdits, relContent>>
      /\ ContentTyped'
  BY <1>0 DEF CreateStage, RelAt, World, Typed, ContentTyped
<1>2. r \in Names /\ Output \in Names /\ r # Output /\ r # Unset
  BY DEF Names, RunNumbers
<1>3. \A p \in Parents : relNames[p][r] # r
  BY <1>0, <1>1 DEF RunIs, StageIs, Staged, Taken
<1>4. relRun[r].kind # "verify"
  BY <1>0, <1>1 DEF Record
<1>5. CASE relLock[relParent] = Unset
  <2>0. PICK x : x = [relRun[r] EXCEPT !.pc = "exists", !.parent = relParent]
    OBVIOUS
  <2>1. /\ relRun' = [relRun EXCEPT ![r] = x] /\ x.pc = "exists" /\ x.parent = relParent
        /\ x.kind = relRun[r].kind /\ Record(x)
    <3>1. relRun' = [relRun EXCEPT ![r] = x]
      BY <1>5, <2>0 DEF CreateStage
    <3>2. x.pc = "exists" /\ x.parent = relParent /\ x.kind = relRun[r].kind /\ Record(x)
      BY <1>0, <1>4, <2>0 DEF Record, Points, Staged
    <3>. QED  BY <3>1, <3>2
  <2>2. /\ relLock' = [relLock EXCEPT ![relParent] = r]
        /\ relNames' = [relNames EXCEPT ![relParent][r] = r]
    BY <1>5 DEF CreateStage
  <2>3. NamesTyped' /\ LocksTyped'
    BY <1>0, <1>2, <2>2 DEF Typed, NamesTyped, LocksTyped
  <2>4. \A p \in Parents, q \in Names \ {r} : relNames'[p][q] = relNames[p][q]
    BY <1>0, <1>2, <2>2 DEF Typed
  <2>5. \A p \in Parents : relNames'[p][r] = IF p = relParent THEN r ELSE relNames[p][r]
    BY <1>0, <1>2, <2>2 DEF Typed
  <2>6. \A p \in Parents : relLock[p] \in StageRuns \ {r} => relLock'[p] = relLock[p]
    BY <1>0, <1>5, <2>2 DEF Typed, RunNumbers
  <2>7. RunIs(x, r)'
    <3>1. StageIs(x, r)'
      BY <1>0, <1>3, <1>4, <2>1, <2>5 DEF RunIs, StageIs, Staged
    <3>2. OutputIs(x, r)'
      BY <1>0, <1>1, <1>2, <2>4 DEF RunIs, OutputIs, Past
    <3>3. LockIs(x, r)'
      BY <1>0, <2>1, <2>2 DEF LockIs, Typed
    <3>4. ComparedIs(x, r)' /\ InventoryIs(x)' /\ VerifiedIs(x)'
      BY <2>1 DEF ComparedIs, InventoryIs, VerifiedIs, Taken
    <3>. QED  BY <3>1, <3>2, <3>3, <3>4 DEF RunIs
  <2>8. \A p \in Parents, q \in StageRuns \ {r} : relNames'[p][q] = relNames[p][q]
    BY <2>4 DEF Names
  <2>9. \A p \in Parents : relNames'[p][Output] = relNames[p][Output]
    BY <1>2, <2>4
  <2>. QED  BY <1>1, <2>1, <2>3, <2>6, <2>7, <2>8, <2>9, RunMove DEF Past
<1>6. CASE relLock[relParent] # Unset
  <2>0. PICK x : x = [relRun[r] EXCEPT !.pc = "err"]
    OBVIOUS
  <2>1. relRun' = [relRun EXCEPT ![r] = x] /\ x.pc = "err" /\ Record(x)
    <3>1. relRun' = [relRun EXCEPT ![r] = x]
      BY <1>6, <2>0 DEF CreateStage, RelGoto
    <3>2. x.pc = "err" /\ Record(x)
      BY <1>0, <2>0 DEF Record, Points, Past
    <3>. QED  BY <3>1, <3>2
  <2>2. UNCHANGED <<relNames, relLock>>
    BY <1>6 DEF CreateStage
  <2>3. NamesTyped' /\ LocksTyped'
    BY <1>0, <2>2 DEF Typed, NamesTyped, LocksTyped
  <2>4. RunIs(x, r)'
    <3>1. StageIs(x, r)' /\ OutputIs(x, r)'
      BY <1>0, <1>1, <1>3, <2>2 DEF RunIs, StageIs, OutputIs, Past
    <3>2. LockIs(x, r)' /\ ComparedIs(x, r)' /\ InventoryIs(x)' /\ VerifiedIs(x)'
      BY <2>1 DEF LockIs, ComparedIs, InventoryIs, VerifiedIs, Staged, Taken
    <3>. QED  BY <3>1, <3>2 DEF RunIs
  <2>. QED  BY <1>1, <2>1, <2>2, <2>3, <2>4, RunMove DEF Past
<1>. QED  BY <1>5, <1>6

\* A check of the stage, or of what is around it: the run goes on or is refused.
LEMMA CheckStep ==
    ASSUME RunNumbers, Inv, NEW r \in StageRuns, NEW p \in Staged, relRun[r].pc \in Staged,
           p \in Taken => relRun[r].pc \in Taken, p \notin {"evidence", "compare", "inventory"},
           UNCHANGED <<relParent, relEdits>>,
           \/ RelGoto(r, p) /\ UNCHANGED <<relNames, relContent, relLock>>
           \/ Refuse(r)
    PROVE  Kept
<1>1. CASE Refuse(r)
  BY <1>1, RefuseStep
<1>2. CASE RelGoto(r, p) /\ UNCHANGED <<relNames, relContent, relLock>>
  <2>1. Typed /\ RunIs(relRun[r], r) /\ Record(relRun[r])
    BY DEF Inv, Typed
  <2>2. PICK x : x = [relRun[r] EXCEPT !.pc = p]
    OBVIOUS
  <2>3. relRun' = [relRun EXCEPT ![r] = x]
    BY <1>2, <2>2 DEF RelGoto
  <2>4. Record(x) /\ x.pc = p /\ x.parent = relRun[r].parent /\ x.kind = relRun[r].kind
    <3>1. relRun[r].kind # "verify" /\ p # "rescan"
      BY <2>1 DEF Record, Staged, Taken
    <3>. QED  BY <2>1, <2>2, <3>1 DEF Record, Points
  <2>5. InventoryIs(x)
    <3>1. p # "confirm"
      BY DEF Staged, Taken
    <3>2. x.inventory = relRun[r].inventory /\ x.copied = relRun[r].copied
          /\ x.gap = relRun[r].gap
      BY <2>1, <2>2 DEF Record
    <3>. QED  BY <2>1, <2>4, <3>1, <3>2 DEF InventoryIs, RunIs
  <2>6. ComparedIs(x, r)' /\ ContentTyped'
    BY <1>2, <2>1, <2>4 DEF ComparedIs, Typed, ContentTyped
  <2>. QED  BY <1>2, <2>3, <2>4, <2>5, <2>6, GoesOn
<1>. QED  BY <1>1, <1>2

\* Every check before the publication.
LEMMA ChecksStep ==
    ASSUME RunNumbers, Inv, NEW r \in StageRuns,
           \/ CheckOutput(r) \/ FinishSources(r) \/ CheckNamespace(r)
           \/ CheckFragments(r) \/ ValidateStage(r)
    PROVE  Kept
<1>. USE DEF Staged, Taken, RelAt, Check, World
<1>1. CASE CheckOutput(r)
  BY <1>1, CheckStep DEF CheckOutput
<1>2. CASE FinishSources(r)
  BY <1>2, CheckStep DEF FinishSources
<1>3. CASE CheckNamespace(r)
  BY <1>3, CheckStep DEF CheckNamespace
<1>4. CASE CheckFragments(r)
  BY <1>4, CheckStep DEF CheckFragments
<1>5. CASE ValidateStage(r)
  BY <1>5, CheckStep DEF ValidateStage
<1>. QED  BY <1>1, <1>2, <1>3, <1>4, <1>5

\* The files are copied one by one, compared with the evidence, and then the inventory is taken.
LEMMA MaterialStep ==
    ASSUME RunNumbers, Inv, NEW r \in StageRuns,
           BeginCopy(r) \/ EndCopy(r) \/ WriteEvidence(r) \/ CompareEvidence(r)
           \/ TakeInventory(r)
    PROVE  Kept
<1>0. Typed /\ RunIs(relRun[r], r) /\ Record(relRun[r])
  BY DEF Inv, Typed
<1>1. /\ UNCHANGED <<relParent, relEdits>>
      /\ relRun[r].pc \in {"copy", "read", "evidence", "compare", "inventory"}
  BY DEF BeginCopy, EndCopy, WriteEvidence, CompareEvidence, TakeInventory, RelAt, World
<1>2. relRun[r].pc \in Staged /\ relRun[r].kind # "verify"
  BY <1>0, <1>1 DEF Staged, Record
<1>3. CASE Refuse(r)
  BY <1>1, <1>2, <1>3, RefuseStep
<1>4. CASE ~Refuse(r)
  <2>1. UNCHANGED <<relNames, relLock>>
    BY <1>4 DEF BeginCopy, EndCopy, WriteEvidence, CompareEvidence, TakeInventory, Check
  <2>2. CASE BeginCopy(r)
    <3>1. PICK m \in Material : relRun' = [relRun EXCEPT ![r].pc = "read", ![r].file = m,
                                                        ![r].seen = relSource[m]]
      BY <2>2 DEF BeginCopy
    <3>2. PICK x : x = [relRun[r] EXCEPT !.pc = "read", !.file = m, !.seen = relSource[m]]
      OBVIOUS
    <3>3. relRun' = [relRun EXCEPT ![r] = x]
      BY <3>1, <3>2
    <3>4. Record(x) /\ x.pc = "read" /\ x.parent = relRun[r].parent /\ x.kind = relRun[r].kind
      BY <1>0, <1>2, <3>2 DEF Record, Points, Staged
    <3>5. x.pc \in Staged /\ InventoryIs(x) /\ ComparedIs(x, r)'
      BY <3>4 DEF Staged, InventoryIs, ComparedIs, Taken
    <3>6. ContentTyped' /\ \A q \in StageRuns \ {r} : relContent'[q] = relContent[q]
      BY <1>0, <2>2 DEF BeginCopy, Typed, ContentTyped
    <3>. QED  BY <1>1, <1>2, <2>1, <3>3, <3>4, <3>5, <3>6, GoesOn
  <2>3. CASE EndCopy(r)
    <3>0. PICK c : c = [relRun[r].copied EXCEPT ![relRun[r].file] = relRun[r].seen]
      OBVIOUS
    <3>1. PICK p : /\ p \in {"evidence", "inventory", "copy"}
                   /\ p = "inventory" => relRun[r].kind # "assemble"
                   /\ relRun' = [relRun EXCEPT ![r].copied = c, ![r].pc = p]
      <4>1. relRun' = [relRun EXCEPT ![r].copied = c,
                                     ![r].pc = IF ~Whole(c) THEN "copy"
                                               ELSE IF relRun[r].kind = "assemble" THEN "evidence"
                                               ELSE "inventory"]
        BY <1>4, <2>3, <3>0 DEF EndCopy
      <4>. QED  BY <4>1
    <3>2. PICK x : x = [relRun[r] EXCEPT !.copied = c, !.pc = p]
      OBVIOUS
    <3>3. relRun' = [relRun EXCEPT ![r] = x]
      BY <3>1, <3>2
    <3>4. /\ Record(x) /\ x.pc = p /\ x.parent = relRun[r].parent /\ x.kind = relRun[r].kind
          /\ x.copied = c
      BY <1>0, <1>2, <3>1, <3>2 DEF Record, Points, Staged
    <3>5. x.pc \in Staged /\ InventoryIs(x)
      BY <3>1, <3>4 DEF Staged, InventoryIs, Taken
    <3>6. ComparedIs(x, r)'
      BY <3>1, <3>4 DEF ComparedIs
    <3>7. ContentTyped' /\ \A q \in StageRuns \ {r} : relContent'[q] = relContent[q]
      <4>1. PICK e : e = [relContent[r] EXCEPT !.files[relRun[r].file] = relRun[r].seen]
        OBVIOUS
      <4>2. relContent' = [relContent EXCEPT ![r] = e]
        BY <1>4, <2>3, <4>1 DEF EndCopy, Write
      <4>3. r \in Directories
        BY DEF Directories
      <4>4. Content(e)
        BY <1>0, <4>1, <4>3 DEF Typed, Content
      <4>. QED  BY <1>0, <4>2, <4>3, <4>4, OneDirectory
    <3>. QED  BY <1>1, <1>2, <2>1, <3>3, <3>4, <3>5, <3>6, <3>7, GoesOn
  <2>4. CASE WriteEvidence(r)
    <3>1. /\ relRun' = [relRun EXCEPT ![r].pc = "compare", ![r].gap = relEdits]
          /\ relContent' = [relContent EXCEPT ![r].evidence = relRun[r].copied]
          /\ relRun[r].pc = "evidence"
      BY <2>4 DEF WriteEvidence, RelAt
    <3>2. PICK x : x = [relRun[r] EXCEPT !.pc = "compare", !.gap = relEdits]
      OBVIOUS
    <3>3. relRun' = [relRun EXCEPT ![r] = x]
      BY <3>1, <3>2
    <3>4. /\ Record(x) /\ x.pc = "compare" /\ x.parent = relRun[r].parent
          /\ x.kind = relRun[r].kind /\ x.copied = relRun[r].copied /\ x.gap = relEdits
      BY <1>0, <1>2, <3>2 DEF Record, Points, Staged, Taken
    <3>5. x.pc \in Staged /\ InventoryIs(x)
      BY <3>4 DEF Staged, Taken, InventoryIs
    <3>6. /\ relContent'[r].files = relContent[r].files /\ relContent'[r].evidence = x.copied
          /\ ContentTyped' /\ \A q \in StageRuns \ {r} : relContent'[q] = relContent[q]
      <4>1. PICK e : e = [relContent[r] EXCEPT !.evidence = relRun[r].copied]
        OBVIOUS
      <4>2. relContent' = [relContent EXCEPT ![r] = e]
        BY <3>1, <4>1
      <4>3. r \in Directories /\ Content(relContent[r])
        BY <1>0 DEF Directories, Typed
      <4>4. Content(e) /\ e.files = relContent[r].files /\ e.evidence = relRun[r].copied
        BY <4>1, <4>3 DEF Content
      <4>. QED  BY <1>0, <3>4, <4>2, <4>3, <4>4, OneDirectory
    <3>7. ComparedIs(x, r)'
      <4>1. relEdits \in Nat
        BY <1>0 DEF Typed
      <4>. QED  BY <1>1, <3>4, <3>6, <4>1 DEF ComparedIs
    <3>. QED  BY <1>1, <1>2, <2>1, <3>3, <3>4, <3>5, <3>6, <3>7, GoesOn
  <2>5. CASE CompareEvidence(r)
    <3>1. PICK x : x = [relRun[r] EXCEPT !.pc = "inventory"]
      OBVIOUS
    <3>2. /\ relRun' = [relRun EXCEPT ![r] = x] /\ UNCHANGED relContent
          /\ MatchesEvidence(relContent[r], relRun[r].copied) /\ relRun[r].pc = "compare"
      BY <1>4, <2>5, <3>1 DEF CompareEvidence, Check, RelGoto, Scan, RelAt
    <3>3. /\ Record(x) /\ x.pc = "inventory" /\ x.parent = relRun[r].parent
          /\ x.kind = relRun[r].kind /\ x.copied = relRun[r].copied /\ x.gap = relRun[r].gap
      BY <1>0, <1>2, <3>1 DEF Record, Points, Staged, Taken
    <3>4. x.pc \in Staged /\ InventoryIs(x)
      BY <3>3 DEF Staged, Taken, InventoryIs
    <3>5. ContentTyped' /\ \A q \in StageRuns \ {r} : relContent'[q] = relContent[q]
      BY <1>0, <3>2 DEF Typed, ContentTyped
    <3>6. ComparedIs(x, r)'
      <4>1. /\ relRun[r].gap \in Nat /\ relRun[r].gap <= relEdits
            /\ relRun[r].gap = relEdits => relContent[r].evidence = relRun[r].copied
        BY <1>0, <3>2 DEF RunIs, ComparedIs
      <4>. QED  BY <1>1, <3>2, <3>3, <4>1 DEF ComparedIs, MatchesEvidence
    <3>. QED  BY <1>1, <1>2, <2>1, <3>2, <3>3, <3>4, <3>5, <3>6, GoesOn
  <2>6. CASE TakeInventory(r)
    <3>0. PICK c : c = IF relRun[r].kind = "assemble" THEN [Scan(r) EXCEPT !.sums = Digests(Scan(r))]
                       ELSE Scan(r)
      OBVIOUS
    <3>1. /\ relRun' = [relRun EXCEPT ![r].pc = "sources", ![r].inventory = c,
                                      ![r].gap = relEdits - relRun[r].gap]
          /\ relContent' = [relContent EXCEPT ![r] = c]
          /\ relRun[r].kind = "assemble" \/ Whole(c.files)
          /\ relRun[r].pc = "inventory"
      <4>1. /\ relRun' = [relRun EXCEPT ![r].pc = "sources", ![r].inventory = c,
                                        ![r].gap = relEdits - @]
            /\ relContent' = [relContent EXCEPT ![r] = c]
            /\ relRun[r].kind = "assemble" \/ Whole(c.files)
            /\ relRun[r].pc = "inventory"
        BY <1>4, <2>6, <3>0 DEF TakeInventory, RelAt
      <4>. QED  BY <4>1
    <3>2. PICK x : x = [relRun[r] EXCEPT !.pc = "sources", !.inventory = c,
                                         !.gap = relEdits - relRun[r].gap]
      OBVIOUS
    <3>3. relRun' = [relRun EXCEPT ![r] = x]
      BY <3>1, <3>2
    <3>4. /\ Record(x) /\ x.pc = "sources" /\ x.parent = relRun[r].parent
          /\ x.kind = relRun[r].kind /\ x.inventory = c /\ x.copied = relRun[r].copied
          /\ x.gap = relEdits - relRun[r].gap
      BY <1>0, <1>2, <3>2 DEF Record, Points, Staged, Taken
    <3>5. /\ Content(relContent[r]) /\ Content(c) /\ c.files = relContent[r].files
          /\ relRun[r].kind = "assemble" => c.evidence = relContent[r].evidence /\ c.sums = Digests(c)
      <4>1. Content(relContent[r])
        BY <1>0 DEF Directories, Typed
      <4>2. PICK e : e = relContent[r]
        OBVIOUS
      <4>3. CASE relRun[r].kind = "assemble"
        <5>1. c = [e EXCEPT !.sums = Digests(e)]
          BY <3>0, <4>2, <4>3 DEF Scan
        <5>2. /\ c = [files |-> e.files, evidence |-> e.evidence, sums |-> Digests(e)]
              /\ c.files = e.files /\ c.evidence = e.evidence /\ c.sums = Digests(e)
          BY <4>1, <4>2, <5>1 DEF Content
        <5>. QED  BY <4>1, <4>2, <5>2 DEF Content, Digests
      <4>4. CASE relRun[r].kind # "assemble"
        BY <3>0, <4>1, <4>4 DEF Scan
      <4>. QED  BY <4>3, <4>4
    <3>6. InventoryIs(x)
      <4>1. ASSUME x.kind = "assemble", x.gap = 0
            PROVE  c.evidence = x.copied /\ MatchesEvidence(c, x.copied)
        <5>1. /\ relRun[r].gap \in Nat /\ relEdits \in Nat
              /\ relRun[r].gap = relEdits =>
                   MatchesEvidence(relContent[r], x.copied) /\ relContent[r].evidence = x.copied
          BY <1>0, <3>1, <3>4, <4>1 DEF RunIs, ComparedIs, Typed
        <5>2. relRun[r].gap = relEdits
          BY <3>4, <4>1, <5>1
        <5>. QED  BY <3>4, <3>5, <4>1, <5>1, <5>2 DEF MatchesEvidence
      <4>. QED  BY <3>1, <3>4, <3>5, <4>1 DEF InventoryIs
    <3>7. x.pc \in Staged /\ ComparedIs(x, r)'
      BY <3>4 DEF Staged, Taken, ComparedIs
    <3>8. ContentTyped' /\ \A q \in StageRuns \ {r} : relContent'[q] = relContent[q]
      BY <1>0, <3>1, <3>5 DEF Typed, ContentTyped, Directories
    <3>. QED  BY <1>1, <1>2, <2>1, <3>3, <3>4, <3>6, <3>7, <3>8, GoesOn
  <2>. QED  BY <2>2, <2>3, <2>4, <2>5, <2>6
<1>. QED  BY <1>3, <1>4

\* The rename: what the stage name refers to becomes the output, if there was none.
LEMMA RenameStep ==
    ASSUME RunNumbers, Inv, NEW r \in StageRuns, RenameStage(r)
    PROVE  Kept
<1>0. Typed /\ RunIs(relRun[r], r) /\ Record(relRun[r])
  BY DEF Inv, Typed
<1>1. relRun[r].pc = "rename" /\ UNCHANGED <<relParent, relEdits>>
  BY DEF RenameStage, RelAt, World
<1>2. relRun[r].pc \in Staged /\ relRun[r].pc \in Taken /\ relRun[r].kind # "verify"
  BY <1>0, <1>1 DEF Staged, Taken, Record
<1>3. CASE Refuse(r)
  BY <1>1, <1>2, <1>3, RefuseStep
<1>4. CASE ~Refuse(r)
  <2>1. PICK n : n = relNames[Dir(r)]
    OBVIOUS
  <2>2. /\ n[Output] = Unset /\ n[r] # Unset
        /\ relNames' = [relNames EXCEPT ![Dir(r)] = [n EXCEPT ![Output] = n[r], ![r] = Unset]]
        /\ RelGoto(r, "confirm") /\ UNCHANGED <<relContent, relLock>>
    BY <1>4, <2>1 DEF RenameStage
  <2>3. PICK x : x = [relRun[r] EXCEPT !.pc = "confirm"]
    OBVIOUS
  <2>4. relRun' = [relRun EXCEPT ![r] = x]
    BY <2>2, <2>3 DEF RelGoto
  <2>5. /\ Record(x) /\ x.pc = "confirm" /\ x.parent = Dir(r) /\ x.parent \in Parents
        /\ x.kind = relRun[r].kind /\ x.inventory = relRun[r].inventory
        /\ x.copied = relRun[r].copied /\ x.gap = relRun[r].gap
    BY <1>0, <1>2, <2>3 DEF Record, Points, Past, Dir
  <2>6. r \in Names /\ Output \in Names /\ r # Output /\ r # Unset
    BY DEF Names, RunNumbers
  <2>7. n \in [Names -> StageRuns \cup {Unset, Foreign}] /\ n[r] \in {r, Foreign}
    BY <1>0, <2>1, <2>2, <2>5 DEF Typed, RunIs, StageIs
  <2>8. NamesTyped' /\ LocksTyped' /\ ContentTyped'
    <3>1. [n EXCEPT ![Output] = n[r], ![r] = Unset] \in [Names -> StageRuns \cup {Unset, Foreign}]
      BY <2>6, <2>7
    <3>. QED  BY <1>0, <2>2, <2>5, <3>1 DEF Typed, NamesTyped, LocksTyped, ContentTyped
  <2>9. /\ relNames'[Dir(r)][Output] = n[r] /\ relNames'[Dir(r)][r] = Unset
        /\ \A q \in Names \ {r, Output} : relNames'[Dir(r)][q] = n[q]
        /\ \A p \in Parents \ {Dir(r)} : relNames'[p] = relNames[p]
    BY <1>0, <2>2, <2>5, <2>6, <2>7 DEF Typed
  <2>10. \A p \in Parents, q \in StageRuns \ {r} : relNames'[p][q] = relNames[p][q]
    <3>1. \A q \in StageRuns \ {r} : q \in Names \ {r, Output}
      BY DEF Names, RunNumbers
    <3>. QED  BY <2>1, <2>9, <3>1
  <2>11. \A p \in Parents :
           \/ relNames'[p][Output] = relNames[p][Output]
           \/ /\ x.pc = "confirm"
              /\ relNames[p][Output] = Unset /\ relNames'[p][Output] \in {r, Foreign}
    BY <2>1, <2>2, <2>5, <2>7, <2>9
  <2>12. RunIs(x, r)'
    <3>1. StageIs(x, r)'
      <4>1. \A p \in Parents : relNames'[p][r] \in {Unset, r, Foreign} /\ relNames'[p][r] # r
        BY <1>0, <2>5, <2>6, <2>9 DEF RunIs, StageIs, Dir
      <4>. QED  BY <4>1 DEF StageIs
    <3>2. OutputIs(x, r)' /\ VerifiedIs(x)' /\ ComparedIs(x, r)'
      BY <2>5 DEF OutputIs, VerifiedIs, ComparedIs, Past
    <3>3. LockIs(x, r)'
      BY <1>0, <1>2, <2>2, <2>5 DEF RunIs, LockIs, Dir
    <3>4. InventoryIs(x)'
      BY <1>0, <1>2, <2>5 DEF RunIs, InventoryIs, Whole, Consistent, Documented, Digests
    <3>. QED  BY <3>1, <3>2, <3>3, <3>4 DEF RunIs
  <2>13. relRun[r].pc \notin Past /\ relRun[r].pc \notin {"ok", "err", "killed"} /\ x.pc # "ok"
    BY <1>1, <2>5 DEF Past
  <2>14. \A p \in Parents : relLock[p] \in StageRuns \ {r} => relLock'[p] = relLock[p]
    BY <2>2
  <2>15. \A q \in StageRuns \ {r} : relContent'[q] = relContent[q]
    BY <2>2
  <2>. QED  BY <1>1, <2>4, <2>5, <2>8, <2>10, <2>11, <2>12, <2>13, <2>14, <2>15, RunMove
<1>. QED  BY <1>3, <1>4

\* A run is over, by its own report or by a kill: its lock is free and the names stay.
LEMMA EndStep ==
    ASSUME RunNumbers, Inv, NEW r \in StageRuns, NEW p \in {"ok", "err", "killed"}, RelGoto(r, p),
           relRun[r].pc \notin {"ok", "err", "killed"}, UNCHANGED <<relParent, relEdits, relNames, relContent>>,
           Unlock(r) \/ UNCHANGED relLock,
           p # "killed" => relRun[r].pc \in {"confirm", "rescan"},
           p = "ok" => Published(r)
    PROVE  Kept
<1>0. Typed /\ RunIs(relRun[r], r) /\ Record(relRun[r])
  BY DEF Inv, Typed
<1>1. PICK x : x = [relRun[r] EXCEPT !.pc = p]
  OBVIOUS
<1>2. relRun' = [relRun EXCEPT ![r] = x]
  BY <1>1 DEF RelGoto
<1>3. /\ Record(x) /\ x.pc = p /\ x.parent = relRun[r].parent /\ x.kind = relRun[r].kind
      /\ x.pc \in Past
  BY <1>0, <1>1 DEF Record, Points, Past
<1>4. NamesTyped' /\ LocksTyped' /\ ContentTyped'
  BY <1>0 DEF Typed, NamesTyped, LocksTyped, ContentTyped, Unlock
<1>5. \A q \in Parents : relLock[q] \in StageRuns \ {r} => relLock'[q] = relLock[q]
  BY DEF Unlock
<1>6. RunIs(x, r)'
  <2>1. StageIs(x, r)'
    <3>1. \A q \in Parents : relNames[q][r] = r => relRun[r].pc \notin {"confirm", "rescan"}
      BY <1>0 DEF RunIs, StageIs, Staged, Taken
    <3>. QED  BY <1>0, <1>3, <3>1 DEF RunIs, StageIs
  <2>2. OutputIs(x, r)'
    BY <1>3 DEF OutputIs
  <2>3. LockIs(x, r)' /\ ComparedIs(x, r)' /\ InventoryIs(x)' /\ VerifiedIs(x)'
    BY <1>3 DEF LockIs, ComparedIs, InventoryIs, VerifiedIs, Staged, Taken
  <2>. QED  BY <2>1, <2>2, <2>3 DEF RunIs
<1>. QED  BY <1>2, <1>3, <1>4, <1>5, <1>6, RunMove

\* A run that confirms has published what it took the inventory of.
LEMMA ConfirmStep ==
    ASSUME RunNumbers, Inv, NEW r \in StageRuns, Confirm(r)
    PROVE  Kept
<1>0. /\ RunIs(relRun[r], r) /\ relRun[r].pc = "confirm" /\ relRun[r].kind # "verify"
      /\ UNCHANGED <<relParent, relEdits, relNames, relContent>>
  BY DEF Inv, Typed, Record, Confirm, RelAt, World
<1>1. CASE /\ relNames[Dir(r)][Output] = r /\ Unchanged(r, r) /\ ParentMatches(r)
  <2>1. Published(r)
    <3>1. relNames'[relParent'][Output] = r
      BY <1>0, <1>1 DEF ParentMatches
    <3>2. relContent'[r] = relRun[r].inventory
      BY <1>0, <1>1 DEF Unchanged, Scan
    <3>3. InventoryIs(relRun[r])
      BY <1>0 DEF RunIs
    <3>. QED  BY <1>0, <3>1, <3>2, <3>3 DEF Published, InventoryIs
  <2>2. RelGoto(r, "ok") /\ Unlock(r)
    BY <1>1 DEF Confirm
  <2>. QED  BY <1>0, <2>1, <2>2, EndStep
<1>2. CASE ~(/\ relNames[Dir(r)][Output] = r /\ Unchanged(r, r) /\ ParentMatches(r))
  <2>1. RelGoto(r, "err") /\ Unlock(r)
    BY <1>2 DEF Confirm
  <2>. QED  BY <1>0, <2>1, EndStep
<1>. QED  BY <1>1, <1>2

\* verify begins: the directory it found describes its own files, or it is refused.
LEMMA StartVerifyStep ==
    ASSUME RunNumbers, Inv, NEW r \in StageRuns, BeginVerify(r)
    PROVE  Kept
<1>0. Typed /\ RunIs(relRun[r], r) /\ Record(relRun[r]) /\ relParent \in Parents
  BY DEF Inv, Typed
<1>1. relRun[r].pc = "new" /\ UNCHANGED <<relParent, relEdits, relNames, relContent, relLock>>
  BY DEF BeginVerify, RelAt, World
<1>2. PICK d : d = relNames[relParent][Output]
  OBVIOUS
<1>3. PICK x : x = [relRun[r] EXCEPT !.kind = "verify", !.parent = relParent, !.seen = d,
                       !.pc = IF Consistent(Scan(d)) THEN "rescan" ELSE "err",
                       !.inventory = Scan(d)]
  OBVIOUS
<1>4. relRun' = [relRun EXCEPT ![r] = x]
  BY <1>2, <1>3 DEF BeginVerify
<1>5. /\ Record(x) /\ x.kind = "verify" /\ x.inventory = Scan(d)
      /\ x.pc = IF Consistent(Scan(d)) THEN "rescan" ELSE "err"
  BY <1>0, <1>3 DEF Record, Points, Past
<1>6. NamesTyped' /\ LocksTyped' /\ ContentTyped'
  BY <1>0, <1>1 DEF Typed, NamesTyped, LocksTyped, ContentTyped
<1>7. StageIs(x, r)' /\ OutputIs(x, r)'
  BY <1>0, <1>1 DEF RunIs, StageIs, OutputIs, Staged, Taken, Past
<1>8. LockIs(x, r)' /\ ComparedIs(x, r)' /\ InventoryIs(x)'
  BY <1>5 DEF LockIs, ComparedIs, InventoryIs, Staged, Taken
<1>9. VerifiedIs(x)'
  <2>1. VerifiedIs(x)
    BY <1>5 DEF VerifiedIs
  <2>. QED  BY <2>1 DEF VerifiedIs, Consistent, Documented, Whole
<1>10. RunIs(x, r)'
  BY <1>7, <1>8, <1>9 DEF RunIs
<1>. QED  BY <1>1, <1>4, <1>5, <1>6, <1>10, RunMove DEF Past

\* verify accepts what it scanned twice, under the path it was given.
LEMMA RescanStep ==
    ASSUME RunNumbers, Inv, NEW r \in StageRuns, Rescan(r)
    PROVE  Kept
<1>0. RunIs(relRun[r], r) /\ relRun[r].pc = "rescan" /\ relRun[r].kind = "verify"
  BY DEF Inv, Typed, Record, Rescan, RelAt
<1>1. UNCHANGED <<relParent, relEdits, relNames, relContent, relLock>>
  BY DEF Rescan, World
<1>2. PICK d : d = relRun[r].seen
  OBVIOUS
<1>3. CASE Unchanged(d, r) /\ relNames[relParent][Output] = d
  <2>1. Consistent(relRun[r].inventory)
    BY <1>0 DEF RunIs, VerifiedIs
  <2>2. relNames'[relParent'][Output] = d /\ relContent'[d] = relRun[r].inventory
    BY <1>1, <1>3 DEF Unchanged, Scan
  <2>3. Published(r)
    BY <1>0, <2>1, <2>2 DEF Published
  <2>4. RelGoto(r, "ok")
    BY <1>2, <1>3 DEF Rescan
  <2>. QED  BY <1>0, <1>1, <2>3, <2>4, EndStep
<1>4. CASE ~(Unchanged(d, r) /\ relNames[relParent][Output] = d)
  <2>1. RelGoto(r, "err")
    BY <1>2, <1>4 DEF Rescan
  <2>. QED  BY <1>0, <1>1, <2>1, EndStep
<1>. QED  BY <1>3, <1>4

\* A kill, at any point of a run.
LEMMA KillStep ==
    ASSUME RunNumbers, Inv, NEW r \in StageRuns, RelKill(r)
    PROVE  Kept
BY EndStep DEF RelKill, Ended, World

\* Nobody else moves a name back to a run's directory, or an output away.
LEMMA EnvironmentStep ==
    ASSUME RunNumbers, Inv, Environment
    PROVE  Kept
<1>0. Typed /\ NamesTyped /\ ContentTyped
  BY DEF Inv, Typed, NamesTyped, ContentTyped
<1>1. CASE EditInputs \/ Tamper \/ SwapParent
  <2>1. /\ UNCHANGED <<relRun, relLock, relNames>> /\ relParent' \in Parents
        /\ relEdits' = relEdits + 1
    BY <1>0, <1>1 DEF EditInputs, Tamper, SwapParent, Edit, Typed
  <2>2. ContentTyped'
    <3>1. CASE UNCHANGED relContent
      BY <1>0, <3>1 DEF ContentTyped
    <3>2. CASE Tamper
      <4>0. PICK d \in Directories, m \in Material :
              \E c \in Edited(relContent[d], m, relEdits + 2) : relContent' = [relContent EXCEPT ![d] = c]
        BY <3>2 DEF Tamper
      <4>1. PICK c \in Edited(relContent[d], m, relEdits + 2) : relContent' = [relContent EXCEPT ![d] = c]
        BY <4>0
      <4>2. Content(c)
        BY <1>0, <4>1 DEF Edited, ContentTyped, Content, Documented
      <4>. QED  BY <1>0, <4>1, <4>2 DEF ContentTyped
    <3>. QED  BY <1>1, <3>1, <3>2 DEF EditInputs, SwapParent
  <2>. QED  BY <1>0, <2>1, <2>2, OthersMove DEF NamesTyped, OutputsStay
<1>2. CASE PlaceForeign
  <2>1. PICK n \in Names :
          /\ n = Output => relNames[relParent][Output] = Unset
          /\ relNames' = [relNames EXCEPT ![relParent][n] = Foreign]
    BY <1>2 DEF PlaceForeign
  <2>2. /\ UNCHANGED <<relRun, relLock, relParent>> /\ relParent \in Parents
        /\ relEdits' = relEdits + 1 /\ ContentTyped'
    BY <1>0, <1>2 DEF PlaceForeign, Edit, Typed, ContentTyped
  <2>3. \A p \in Parents, m \in Names :
          relNames'[p][m] = IF p = relParent /\ m = n THEN Foreign ELSE relNames[p][m]
    BY <1>0, <2>1, <2>2 DEF NamesTyped
  <2>4. NamesTyped'
    BY <1>0, <2>1, <2>2 DEF NamesTyped
  <2>5. OutputsStay
    BY <2>1, <2>3 DEF OutputsStay, Names
  <2>. QED  BY <2>2, <2>3, <2>4, <2>5, OthersMove
<1>. QED  BY <1>1, <1>2 DEF Environment

\* Every step keeps the invariant and what the release promises.
LEMMA NextKeeps ==
    ASSUME RunNumbers, Inv, RelNext
    PROVE  Kept
BY BeginStep, CreateStep, ChecksStep, MaterialStep, RenameStep, ConfirmStep, StartVerifyStep,
   RescanStep, KillStep, EnvironmentStep DEF RelNext

\* So does a step in which nothing happens.
LEMMA StutterKeeps ==
    ASSUME Inv, UNCHANGED relVars
    PROVE  Kept
<1>1. Inv'
  <2>1. Typed'
    BY DEF relVars, Inv, Typed
  <2>2. ASSUME NEW r \in StageRuns
        PROVE  RunIs(relRun[r], r)'
    <3>1. PICK y : y = relRun[r]
      OBVIOUS
    <3>2. RunIs(y, r) /\ y = relRun'[r]
      BY <3>1 DEF Inv, relVars
    <3>3. StageIs(y, r)' /\ OutputIs(y, r)' /\ LockIs(y, r)'
      BY <3>2 DEF relVars, RunIs, StageIs, OutputIs, LockIs
    <3>4. ComparedIs(y, r)' /\ InventoryIs(y)' /\ VerifiedIs(y)'
      BY <3>2 DEF relVars, RunIs, ComparedIs, InventoryIs, VerifiedIs, Whole, Consistent,
                  Documented, Digests
    <3>. QED  BY <3>2, <3>3, <3>4 DEF RunIs
  <2>. QED  BY <2>1, <2>2 DEF Inv
<1>2. Promise
  BY DEF relVars, Promise, OutputsStay, Succeeds, Fails, RelAt
<1>. QED  BY <1>1, <1>2 DEF Kept

\* Two runs that work at a stage hold locks of different parents.
LEMMA WorkApart ==
    ASSUME RunNumbers, Inv, NEW r \in StageRuns, NEW s \in StageRuns, r # s, Working(r), Working(s)
    PROVE  Dir(r) # Dir(s)
<1>1. ASSUME NEW q \in StageRuns, Working(q)
      PROVE  relLock[Dir(q)] = q
  <2>1. relRun[q].pc \in Staged \cup {"confirm"}
    BY <1>1 DEF Inv, Typed, Record, Points, Past, Working, Ended
  <2>. QED  BY <2>1 DEF Inv, RunIs, LockIs, Dir
<1>. QED  BY <1>1

-----------------------------------------------------------------------------
(* The theorems.                                                           *)

\* What every name refers to, who holds every lock, and what every inventory is worth
\* (Stage and its Drop, release_materials.rs), at every point of every run.
THEOREM StageInvariant ==
    ASSUME RunNumbers
    PROVE  RelSpec => []Inv
<1>1. RelInit => Inv
  BY InitInv
<1>2. Inv /\ [RelNext]_relVars => Inv'
  BY NextKeeps, StutterKeeps DEF Kept
<1>. QED  BY <1>1, <1>2, PTL DEF RelSpec

\* A run that reports success has, under the path it was given, the content it took the
\* inventory of: in the directory it made; from assemble, if nobody edited anything between the
\* comparison with the evidence and the inventory, exactly the files it copied, with documents
\* that verify accepts; and verify accepts only what describes itself.
THEOREM ReleaseSafety ==
    ASSUME RunNumbers
    PROVE  RelSpec => ReleaseIsTrue
<1>1. Inv /\ [RelNext]_relVars => \A r \in StageRuns : Succeeds(r) => Published(r)
  BY NextKeeps, StutterKeeps DEF Kept, Promise
<1>2. (\A r \in StageRuns : Succeeds(r) => Published(r)) => (\A r \in StageRuns : Succeeds(r) =>
        LET x == relRun[r]
            d == relNames'[relParent'][Output]
            c == relContent'[d]
        IN  /\ c = x.inventory
            /\ x.kind # "verify" => d = r
            /\ x.kind = "compose" => Whole(c.files)
            /\ x.kind = "assemble" =>
                 /\ c.sums = Digests(c)
                 /\ x.gap = 0 => c.evidence = x.copied /\ MatchesEvidence(c, x.copied)
            /\ x.kind = "verify" => Consistent(c))
  BY DEF Published
<1>. QED  BY <1>1, <1>2, StageInvariant, PTL DEF RelSpec, ReleaseIsTrue

\* An output is never replaced, a run that fails leaves no stage and, before the rename, no
\* output, and two runs never work at stages in one parent.
THEOREM RefusalSafety ==
    ASSUME RunNumbers
    PROVE  RelSpec => RefusalLeavesNothing
<1>1. Inv /\ [RelNext]_relVars =>
        /\ \A p \in Parents : relNames[p][Output] \in {Unset, relNames'[p][Output]}
        /\ \A r \in StageRuns : Fails(r) =>
             /\ \A p \in Parents : relNames'[p][r] # r
             /\ ~RelAt(r, "confirm") => \A p \in Parents : relNames'[p][Output] # r
        /\ \A r, s \in StageRuns : r # s /\ Working(r) /\ Working(s) => Dir(r) # Dir(s)
  <2>1. Inv /\ [RelNext]_relVars => OutputsStay /\ \A r \in StageRuns : Fails(r) => Cleared(r)
    BY NextKeeps, StutterKeeps DEF Kept, Promise
  <2>2. Inv => \A r, s \in StageRuns : r # s /\ Working(r) /\ Working(s) => Dir(r) # Dir(s)
    BY WorkApart
  <2>. QED  BY <2>1, <2>2 DEF OutputsStay, Cleared
<1>. QED  BY <1>1, StageInvariant, PTL DEF RelSpec, RefusalLeavesNothing
=============================================================================
