------------------------ MODULE DeploymentStoreProofs ------------------------
(***************************************************************************)
(* Ownership in the deployment store, for any number of processes,         *)
(* operations, targets and connector instances.                            *)
(*                                                                         *)
(* The heart of the argument is Succession: an operation that does not     *)
(* own its target is either untouched or retired, and the predecessor of   *)
(* an owner or of a retired operation is retired itself.  Hence the        *)
(* predecessor that a retired operation named never owns the target again, *)
(* and the exact replay of its claim is refused.                           *)
(***************************************************************************)
EXTENDS DeploymentStore, TLAPS

Over == {"Completed", "RollbackConverged", "ExpiredUnclaimed"}

Owns(i) == owner[records[i].identity.target] = records[i].identity

Retired(i) ==
    /\ records[i] # None
    /\ records[i].phase \in Over
    /\ owner[records[i].identity.target] # None
    /\ ~Owns(i)

\* What validate_owner_transition established, as long as the lock is held.
OwnerOver(r) ==
    \/ owner[r.target] = None /\ r.pred = None
    \/ owner[r.target] = r
    \/ /\ owner[r.target] # None
       /\ owner[r.target].id # r.id
       /\ r.pred = owner[r.target].id
       /\ records[r.pred] # None
       /\ records[r.pred].identity = owner[r.target]
       /\ records[r.pred].phase \in Over

LocksExclude ==
    \A p, q \in Procs : p # q =>
        /\ calls[p].at \in {"claim", "own"} /\ calls[q].at \in {"claim", "own"}
               => calls[p].request.id # calls[q].request.id
        /\ calls[p].at \in {"own", "handoff"} /\ calls[q].at \in {"own", "handoff"}
               => calls[p].request.target # calls[q].request.target

CallsAgree ==
    \A p \in Procs :
        /\ calls[p].at = "claim" /\ calls[p].fresh =>
               /\ records[calls[p].request.id] = None
               /\ NoOtherOwnerNames(calls[p].request)
        /\ calls[p].at = "claim" /\ ~calls[p].fresh =>
               /\ records[calls[p].request.id] # None
               /\ records[calls[p].request.id].identity = calls[p].request
        /\ calls[p].at = "own" =>
               /\ records[calls[p].request.id] = Planned(calls[p].request)
               /\ OwnerOver(calls[p].request)

FilesKeyed ==
    /\ \A i \in Ids : records[i] # None => records[i].identity.id = i
    /\ \A t \in Targets : owner[t] # None => owner[t].target = t
    /\ \A i \in Ids : records[i] # None /\ records[i].phase = "FailedRecoverable"
                          => records[i].proven \in ForwardPhases

OwnersAgree ==
    \A t \in Targets :
        owner[t] # None /\ records[owner[t].id] # None =>
            records[owner[t].id].identity = owner[t]

OutsidersUntouched ==
    \A i \in Ids : records[i] # None /\ ~Owns(i) =>
        records[i] = Planned(records[i].identity) \/ Retired(i)

RetiredDescend ==
    \A i \in Ids : Retired(i) =>
        records[i].identity.pred = None \/ Retired(records[i].identity.pred)

OwnersDescend ==
    \A t \in Targets : owner[t] # None =>
        owner[t].pred = None \/ Retired(owner[t].pred)

Succession == OutsidersUntouched /\ RetiredDescend /\ OwnersDescend

Inv == /\ TypeOK /\ LocksExclude /\ CallsAgree /\ FilesKeyed
       /\ OwnersAgree /\ OneTargetPerOperation /\ Succession

-----------------------------------------------------------------------------
\* A call in progress carries a request: the fields its locks are keyed by.
LEMMA CallInProgress ==
    ASSUME TypeOK, NEW p \in Procs, calls[p].at # "idle"
    PROVE  /\ calls[p].request \in Identity
           /\ calls[p].request.id \in Ids
           /\ calls[p].request.target \in Targets
           /\ calls[p].request.pred \in Ids \cup {None}
           /\ calls[p].instance \in Instances \cup {None}
           /\ calls[p].fresh \in BOOLEAN
  BY DEF TypeOK, Call, Idle, Identity

\* The files of the store hold operations of their own keys' types.
LEMMA FileTypes ==
    ASSUME TypeOK
    PROVE  /\ \A i \in Ids : records[i] # None =>
                  /\ records[i] \in OperationRecord
                  /\ records[i].identity \in Identity
                  /\ records[i].identity.target \in Targets
                  /\ records[i].identity.pred \in Ids \cup {None}
           /\ \A t \in Targets : owner[t] # None =>
                  /\ owner[t] \in Identity
                  /\ owner[t].id \in Ids
                  /\ owner[t].pred \in Ids \cup {None}
  BY DEF TypeOK, OperationRecord, Identity

-----------------------------------------------------------------------------
\* The store starts without records, at most with one legacy owner.
LEMMA InitInv == Init => Inv
<1> SUFFICES ASSUME Init PROVE Inv
  OBVIOUS
<1> USE StoreAssumption
<1>1. TypeOK
  BY DEF Init, TypeOK, Requests, Identity, Call
<1>2. LocksExclude
  BY DEF Init, LocksExclude, Idle
<1>3. CallsAgree
  BY DEF Init, CallsAgree, Idle
<1>4. FilesKeyed
  BY DEF Init, FilesKeyed, Requests
<1>5. OwnersAgree
  BY <1>1, FileTypes DEF Init, OwnersAgree
<1>6. OneTargetPerOperation
  BY DEF Init, OneTargetPerOperation
<1>7. Succession
  BY DEF Init, Succession, OutsidersUntouched, RetiredDescend, OwnersDescend,
         Retired, Requests
<1> QED
  BY <1>1, <1>2, <1>3, <1>4, <1>5, <1>6, <1>7 DEF Inv

-----------------------------------------------------------------------------
\* Steps that leave the files of operations and targets alone and end a call.
LEMMA EndCall ==
    ASSUME Inv, NEW p \in Procs, calls' = [calls EXCEPT ![p] = Idle],
           UNCHANGED <<records, owner, connectorOwner>>,
           claims' \in [Instances -> [Ids -> ClaimPhases \cup {None}]]
    PROVE  Inv'
<1> USE DEF Inv
<1>1. TypeOK'
  BY DEF TypeOK, Call
<1>2. \A q \in Procs : calls'[q].at # "idle" => calls'[q] = calls[q]
  BY DEF TypeOK, Idle
<1>3. LocksExclude'
  BY <1>2 DEF LocksExclude
<1>4. CallsAgree'
  BY <1>2 DEF CallsAgree, NoOtherOwnerNames, OwnerOver
<1>5. (FilesKeyed /\ OwnersAgree /\ OneTargetPerOperation /\ Succession)'
  BY DEF FilesKeyed, OwnersAgree, OneTargetPerOperation, Succession,
         OutsidersUntouched, RetiredDescend, OwnersDescend, Retired, Owns
<1> QED
  BY <1>1, <1>3, <1>4, <1>5

\* claim: the id lock is taken and the record, if any, compared.
LEMMA ClaimInv ==
    ASSUME Inv, NEW p \in Procs, NEW r \in Requests, Claim(p, r)
    PROVE  Inv'
<1> USE DEF Inv
<1> DEFINE call == [at |-> "claim", request |-> r, fresh |-> records[r.id] = None,
                    instance |-> None]
<1>0. /\ r \in Identity
      /\ calls' = [calls EXCEPT ![p] = call]
      /\ UNCHANGED <<records, owner, connectorOwner, claims>>
  BY DEF Claim, Requests
<1>1. call \in Call
  BY <1>0 DEF Call
<1>2. TypeOK'
  BY <1>0, <1>1 DEF TypeOK
<1>3. /\ calls'[p] = call
      /\ \A q \in Procs : q # p => calls'[q] = calls[q]
  BY <1>0 DEF TypeOK
<1> HIDE DEF call
<1>4. LocksExclude'
  <2>1. \A q \in Procs : calls[q].at \in {"claim", "own"} =>
            calls[q].request.id # r.id
    BY DEF Claim, IdFree
  <2>2. call.at = "claim" /\ call.request = r
    BY DEF call
  <2> QED
    BY <1>3, <2>1, <2>2 DEF LocksExclude
<1>5. CallsAgree'
  <2>1. /\ call.at = "claim" /\ call.request = r
        /\ call.fresh => records[r.id] = None
        /\ ~call.fresh => records[r.id] # None
    BY DEF call
  <2>2. /\ records[r.id] # None => records[r.id].identity = r
        /\ records[r.id] = None => NoOtherOwnerNames(r)
    BY DEF Claim
  <2> QED
    BY <1>0, <1>3, <2>1, <2>2 DEF CallsAgree, NoOtherOwnerNames, OwnerOver
<1>6. (FilesKeyed /\ OwnersAgree /\ OneTargetPerOperation /\ Succession)'
  BY <1>0 DEF FilesKeyed, OwnersAgree, OneTargetPerOperation, Succession,
              OutsidersUntouched, RetiredDescend, OwnersDescend, Retired, Owns
<1> QED
  BY <1>2, <1>4, <1>5, <1>6

-----------------------------------------------------------------------------
\* validate_owner_transition implies OwnerOver.
LEMMA TransitionIsOver ==
    ASSUME NEW r, OwnerTransition(r)
    PROVE  OwnerOver(r)
  BY DEF OwnerTransition, OwnerOver, Over

\* claim: the record of a new operation is written under both locks.
LEMMA WriteRecordInv ==
    ASSUME Inv, NEW p \in Procs, calls[p].at = "claim", calls[p].fresh,
           NEW r, r = calls[p].request,
           TargetFree(r.target), OwnerTransition(r),
           records' = [records EXCEPT ![r.id] = Planned(r)],
           calls' = [calls EXCEPT ![p].at = "own"],
           UNCHANGED <<owner, connectorOwner, claims>>
    PROVE  Inv'
<1> USE DEF Inv
<1>0. /\ r \in Identity /\ r.id \in Ids /\ r.target \in Targets
      /\ r.pred \in Ids \cup {None}
      /\ records[r.id] = None /\ NoOtherOwnerNames(r)
  BY CallInProgress DEF CallsAgree
<1>1. /\ Planned(r) \in OperationRecord /\ Planned(r) # None
      /\ Planned(r).identity = r /\ Planned(r).phase = "Planned"
      /\ calls[p] \in [at : {"claim", "own", "handoff"}, request : Identity,
                       fresh : BOOLEAN, instance : Instances \cup {None}]
  <2>1. Planned(r) \in OperationRecord
    BY <1>0 DEF Planned, OperationRecord, OperationPhases, ForwardPhases
  <2>2. Planned(r) # None
    BY <2>1, StoreAssumption
  <2> QED
    BY <2>1, <2>2 DEF Planned, TypeOK, Call, Idle
<1>2. TypeOK'
  BY <1>0, <1>1 DEF TypeOK, Call
<1>3. /\ calls'[p] = [calls[p] EXCEPT !.at = "own"]
      /\ calls'[p].at = "own" /\ calls'[p].request = r
      /\ \A q \in Procs : q # p => calls'[q] = calls[q]
  BY <1>1 DEF TypeOK
<1>4. /\ records'[r.id] = Planned(r)
      /\ \A i \in Ids : i # r.id => records'[i] = records[i]
  BY <1>0 DEF TypeOK
<1>5. LocksExclude'
  BY <1>3 DEF LocksExclude, TargetFree
<1>6. CallsAgree'
  <2>1. OwnerOver(r) /\ OwnerOver(r)'
    <3>1. OwnerOver(r)
      BY TransitionIsOver
    <3> QED
      BY <1>0, <1>4, <3>1 DEF OwnerOver
  <2>2. ASSUME NEW q \in Procs, q # p
        PROVE  /\ calls[q].at = "claim" =>
                      records'[calls[q].request.id] = records[calls[q].request.id]
               /\ calls[q].at = "own" =>
                      /\ records'[calls[q].request.id] = Planned(calls[q].request)
                      /\ OwnerOver(calls[q].request)'
    <3>1. calls[q].at \in {"claim", "own"} =>
              calls[q].request.id \in Ids /\ calls[q].request.id # r.id
      BY <2>2, CallInProgress DEF LocksExclude
    <3>2. ASSUME calls[q].at = "own" PROVE OwnerOver(calls[q].request)'
      <4>1. OwnerOver(calls[q].request) /\ calls[q].request.pred \in Ids \cup {None}
        BY <3>2, CallInProgress DEF CallsAgree
      <4>2. records[calls[q].request.pred] # None =>
                calls[q].request.pred # r.id
        BY <1>0
      <4>3. owner[calls[q].request.target] # None =>
                owner[calls[q].request.target].id \in Ids
        BY <3>2, CallInProgress, FileTypes
      <4> QED
        BY <1>4, <4>1, <4>2, <4>3 DEF OwnerOver
    <3> QED
      BY <1>4, <3>1, <3>2 DEF CallsAgree
  <2> QED
    BY <1>3, <1>4, <2>1, <2>2 DEF CallsAgree, NoOtherOwnerNames
<1>7. FilesKeyed'
  BY <1>0, <1>1, <1>4 DEF FilesKeyed, Identity
<1>8. OwnersAgree'
  BY <1>0, <1>1, <1>4, FileTypes DEF OwnersAgree, NoOtherOwnerNames
<1>9. OneTargetPerOperation'
  BY DEF OneTargetPerOperation
<1>10. Succession'
  <2>1. \A i \in Ids : Retired(i) => Retired(i)' /\ i # r.id
    BY <1>0, <1>4 DEF Retired, Owns
  <2>2. \A i \in Ids : Retired(i)' => Retired(i) /\ i # r.id
    BY <1>1, <1>4 DEF Retired, Owns, Over
  <2>3. OutsidersUntouched'
    BY <1>1, <1>4, <2>1 DEF Succession, OutsidersUntouched, Owns
  <2>4. RetiredDescend'
    <3> SUFFICES ASSUME NEW i \in Ids, Retired(i)'
                 PROVE  \/ records'[i].identity.pred = None
                        \/ (Retired(records[i].identity.pred))'
      BY <1>4, <2>2 DEF RetiredDescend
    <3>1. Retired(i) /\ records'[i] = records[i]
      BY <1>4, <2>2
    <3>2. records[i].identity.pred \in Ids \cup {None}
      BY <3>1, FileTypes DEF Retired
    <3>3. \/ records[i].identity.pred = None
          \/ Retired(records[i].identity.pred)
      BY <3>1 DEF Succession, RetiredDescend
    <3> QED
      BY <2>1, <3>1, <3>2, <3>3
  <2>5. OwnersDescend'
    BY <2>1, FileTypes DEF Succession, OwnersDescend
  <2> QED
    BY <2>3, <2>4, <2>5 DEF Succession
<1> QED
  BY <1>2, <1>5, <1>6, <1>7, <1>8, <1>9, <1>10

-----------------------------------------------------------------------------
\* Writing the owner file, for an operation whose transition was validated:
\* the operation that takes over has done nothing yet.
LEMMA FreshOwner ==
    ASSUME Inv, NEW r \in Identity, OwnerOver(r),
           records[r.id] # None, records[r.id].identity = r,
           owner[r.target] # r
    PROVE  records[r.id] = Planned(r) /\ ~Retired(r.id)
<1> USE DEF Inv
<1>1. r.id \in Ids /\ r.target \in Targets /\ ~Owns(r.id)
  BY DEF Identity, Owns
<1>2. ASSUME Retired(r.id) PROVE FALSE
  <2>1. owner[r.target] # None /\ r.pred = owner[r.target].id
    BY <1>2 DEF Retired, OwnerOver
  <2>2. r.pred \in Ids /\ r.pred # None
    BY <1>1, <2>1, FileTypes, StoreAssumption
  <2>3. Retired(r.pred)
    BY <1>1, <1>2, <2>2 DEF Succession, RetiredDescend
  <2>4. records[r.pred] # None /\ records[r.pred].identity = owner[r.target]
    BY <1>1, <2>1, <2>3 DEF OwnersAgree, Retired
  <2> QED
    BY <1>1, <2>1, <2>3, <2>4 DEF FilesKeyed, Retired, Owns
<1> QED
  BY <1>1, <1>2 DEF Succession, OutsidersUntouched

LEMMA WriteOwner ==
    ASSUME Inv, NEW r \in Identity, OwnerOver(r),
           records[r.id] # None, records[r.id].identity = r,
           owner' = [owner EXCEPT ![r.target] = r], UNCHANGED records
    PROVE  (FilesKeyed /\ OwnersAgree /\ OneTargetPerOperation /\ Succession)'
<1> USE DEF Inv
<1>0. /\ r.id \in Ids /\ r.target \in Targets /\ r # None
      /\ r.pred \in Ids \cup {None}
      /\ owner'[r.target] = r
      /\ \A t \in Targets : t # r.target => owner'[t] = owner[t]
  BY StoreAssumption DEF Identity, TypeOK
<1>1. CASE owner[r.target] = r
  <2>1. owner' = owner
    BY <1>1 DEF TypeOK
  <2>2. (FilesKeyed /\ OwnersAgree /\ OneTargetPerOperation)'
    BY <2>1 DEF FilesKeyed, OwnersAgree, OneTargetPerOperation
  <2>3. \A i : Retired(i)' <=> Retired(i)
    BY <2>1 DEF Retired, Owns
  <2>4. Succession'
    BY <2>1, <2>3 DEF Succession, OutsidersUntouched, RetiredDescend,
                      OwnersDescend, Owns
  <2> QED
    BY <2>2, <2>4
<1>2. CASE owner[r.target] # r
  <2>0. records[r.id] = Planned(r) /\ ~Retired(r.id)
    BY <1>2, FreshOwner
  <2>1. FilesKeyed'
    BY <1>0 DEF FilesKeyed
  <2>2. OwnersAgree'
    BY <1>0 DEF OwnersAgree
  <2>3. OneTargetPerOperation'
    <3>1. ASSUME NEW t \in Targets, owner[t] # None, owner[t].id = r.id
          PROVE  t = r.target
      BY <3>1 DEF OwnersAgree, FilesKeyed
    <3> QED
      BY <1>0, <3>1 DEF OneTargetPerOperation
  <2>4. ASSUME NEW i \in Ids, Retired(i) PROVE Retired(i)' /\ i # r.id
    <3>1. i # r.id /\ records[i].identity # r
      BY <2>0, <2>4 DEF FilesKeyed, Retired
    <3>2. records[i].identity.target \in Targets
      BY <2>4, FileTypes DEF Retired
    <3> QED
      BY <1>0, <2>4, <3>1, <3>2 DEF Retired, Owns
  <2>5. ASSUME NEW i \in Ids, records[i] # None, Owns(i), ~Owns(i)'
        PROVE  Retired(i)' /\ owner[r.target] = records[i].identity
    <3>1. /\ records[i].identity.target = r.target
          /\ owner[r.target] = records[i].identity
      BY <1>0, <2>5, FileTypes DEF Owns
    <3>2. owner[r.target] # None /\ owner[r.target].id = i
      BY <2>5, <3>1, FileTypes, StoreAssumption DEF FilesKeyed
    <3>3. records[i].phase \in Over
      BY <1>2, <3>2 DEF OwnerOver
    <3> QED
      BY <1>0, <2>5, <3>1, <3>3 DEF Retired
  <2>6. OutsidersUntouched'
    BY <2>4, <2>5 DEF Succession, OutsidersUntouched
  <2>7. RetiredDescend'
    <3> SUFFICES ASSUME NEW i \in Ids, Retired(i)'
                 PROVE  \/ records[i].identity.pred = None
                        \/ (Retired(records[i].identity.pred))'
      BY DEF RetiredDescend
    <3>1. records[i] # None /\ records[i].identity.pred \in Ids \cup {None}
      BY FileTypes DEF Retired
    <3>2. CASE Retired(i)
      BY <2>4, <3>1, <3>2 DEF Succession, RetiredDescend
    <3>3. CASE ~Retired(i)
      <4>1. Owns(i)
        <5>1. i # r.id
          BY <1>0 DEF Retired, Owns
        <5>2. ~Owns(i) => records[i] = Planned(records[i].identity)
          BY <3>1, <3>3 DEF Succession, OutsidersUntouched
        <5> QED
          BY <5>2 DEF Retired, Planned, Over
      <4>2. owner[r.target] = records[i].identity
        BY <2>5, <3>1, <4>1 DEF Retired
      <4>3. owner[r.target] # None
        BY <3>1, <4>2, FileTypes, StoreAssumption
      <4> QED
        BY <1>0, <2>4, <3>1, <4>2, <4>3 DEF Succession, OwnersDescend
    <3> QED
      BY <3>2, <3>3
  <2>8. OwnersDescend'
    <3>1. r.pred = None \/ (Retired(r.pred))'
      <4>1. CASE owner[r.target] = None
        BY <1>2, <4>1 DEF OwnerOver
      <4>2. CASE owner[r.target] # None
        <5>1. /\ owner[r.target].id # r.id /\ r.pred = owner[r.target].id
              /\ records[r.pred] # None
              /\ records[r.pred].identity = owner[r.target]
              /\ r.pred \in Ids /\ owner[r.target].target = r.target
          BY <1>0, <1>2, <4>2, FileTypes DEF OwnerOver, FilesKeyed
        <5>2. Owns(r.pred) /\ ~Owns(r.pred)'
          BY <1>0, <1>2, <5>1 DEF Owns
        <5> QED
          BY <2>5, <5>1, <5>2
      <4> QED
        BY <4>1, <4>2
    <3>2. ASSUME NEW t \in Targets, t # r.target, owner[t] # None
          PROVE  owner[t].pred = None \/ (Retired(owner[t].pred))'
      BY <2>4, <3>2, FileTypes DEF Succession, OwnersDescend
    <3> QED
      BY <1>0, <3>1, <3>2 DEF OwnersDescend
  <2> QED
    BY <2>1, <2>2, <2>3, <2>6, <2>7, <2>8 DEF Succession
<1> QED
  BY <1>1, <1>2

\* claim: the owner file is written under both locks and the call returns.
LEMMA WriteOwnerInv ==
    ASSUME Inv, NEW p \in Procs, calls[p].at \in {"claim", "own"},
           NEW r, r = calls[p].request, OwnerOver(r),
           records[r.id] # None, records[r.id].identity = r,
           \A q \in Procs : q # p /\ calls[q].at = "own" =>
                              calls[q].request.target # r.target,
           owner' = [owner EXCEPT ![r.target] = r],
           calls' = [calls EXCEPT ![p] = Idle],
           UNCHANGED <<records, connectorOwner, claims>>
    PROVE  Inv'
<1> USE DEF Inv
<1>0. /\ r \in Identity /\ r.id \in Ids /\ r.target \in Targets
      /\ owner'[r.target] = r
      /\ \A t \in Targets : t # r.target => owner'[t] = owner[t]
  BY CallInProgress DEF TypeOK
<1>1. TypeOK'
  BY <1>0 DEF TypeOK, Call
<1>2. /\ \A q \in Procs : q # p => calls'[q] = calls[q]
      /\ calls'[p].at = "idle"
  BY DEF TypeOK, Idle
<1>3. LocksExclude'
  BY <1>2 DEF LocksExclude
<1>4. CallsAgree'
  <2>1. ASSUME NEW q \in Procs, q # p, calls[q].at = "claim", calls[q].fresh
        PROVE  NoOtherOwnerNames(calls[q].request)'
    <3>1. calls[q].request.id # r.id /\ calls'[q] = calls[q]
      BY <1>2, <2>1 DEF LocksExclude
    <3>2. NoOtherOwnerNames(calls[q].request)
      BY <2>1 DEF CallsAgree
    <3> QED
      BY <1>0, <3>1, <3>2 DEF NoOtherOwnerNames
  <2>2. ASSUME NEW q \in Procs, q # p, calls[q].at = "own"
        PROVE  OwnerOver(calls[q].request)'
    <3>1. /\ owner'[calls[q].request.target] = owner[calls[q].request.target]
          /\ calls'[q] = calls[q]
      BY <1>0, <1>2, <2>2, CallInProgress
    <3>2. OwnerOver(calls[q].request)
      BY <2>2 DEF CallsAgree
    <3> QED
      BY <3>1, <3>2 DEF OwnerOver
  <2> QED
    BY <1>2, <2>1, <2>2 DEF CallsAgree
<1>5. (FilesKeyed /\ OwnersAgree /\ OneTargetPerOperation /\ Succession)'
  BY <1>0, WriteOwner
<1> QED
  BY <1>1, <1>3, <1>4, <1>5

\* claim: the step under the target lock.
LEMMA ClaimRecordInv ==
    ASSUME Inv, NEW p \in Procs, ClaimRecord(p)
    PROVE  Inv'
<1> DEFINE r == calls[p].request
           valid == TargetFree(r.target) /\ OwnerTransition(r)
<1>1. CASE valid /\ calls[p].fresh
  BY <1>1, WriteRecordInv DEF ClaimRecord
<1>2. CASE valid /\ ~calls[p].fresh
  <2>1. records[r.id] # None /\ records[r.id].identity = r
    BY <1>2 DEF ClaimRecord, Inv, CallsAgree
  <2>2. OwnerOver(r)
    BY <1>2, TransitionIsOver
  <2>3. \A q \in Procs : q # p /\ calls[q].at = "own" =>
                            calls[q].request.target # r.target
    BY <1>2 DEF TargetFree
  <2> QED
    BY <1>2, <2>1, <2>2, <2>3, WriteOwnerInv DEF ClaimRecord
<1>3. CASE ~valid
  BY <1>3, EndCall DEF ClaimRecord, Inv, TypeOK
<1> QED
  BY <1>1, <1>2, <1>3

\* claim: the owner file of a new operation.
LEMMA ClaimOwnerInv ==
    ASSUME Inv, NEW p \in Procs, ClaimOwner(p)
    PROVE  Inv'
<1> DEFINE r == calls[p].request
<1>1. calls[p].at = "own" /\ r \in Identity
  BY CallInProgress DEF ClaimOwner, Inv
<1>2. records[r.id] = Planned(r) /\ OwnerOver(r)
  BY <1>1 DEF Inv, CallsAgree
<1>3. records[r.id] # None /\ records[r.id].identity = r
  <2>1. Planned(r) \in OperationRecord
    BY <1>1 DEF Planned, OperationRecord, OperationPhases, ForwardPhases
  <2> QED
    BY <1>2, <2>1, StoreAssumption DEF Planned
<1>4. \A q \in Procs : q # p /\ calls[q].at = "own" =>
                          calls[q].request.target # r.target
  BY <1>1 DEF Inv, LocksExclude
<1> QED
  BY <1>1, <1>2, <1>3, <1>4, WriteOwnerInv DEF ClaimOwner

-----------------------------------------------------------------------------
\* Every transition of a record that passed lock_current.
LEMMA RecordInv ==
    ASSUME Inv, NEW i \in Ids, Current(i),
           NEW phase \in OperationPhases, NEW proven \in OperationPhases,
           phase = "FailedRecoverable" => proven \in ForwardPhases,
           Record(i, phase, proven)
    PROVE  Inv'
<1> USE DEF Inv
<1> DEFINE new == [identity |-> records[i].identity, phase |-> phase,
                   proven |-> proven]
<1>0. /\ records[i] # None /\ records[i].identity \in Identity
      /\ records[i].identity.id = i /\ Owns(i)
      /\ new \in OperationRecord /\ new # None
  <2>1. records[i] # None /\ records[i].identity \in Identity
    BY FileTypes DEF Current
  <2>2. new \in OperationRecord
    BY <2>1 DEF OperationRecord
  <2> QED
    BY <2>1, <2>2, StoreAssumption DEF Current, Owns, FilesKeyed
<1>1. /\ records'[i] = new
      /\ \A j \in Ids : j # i => records'[j] = records[j]
      /\ new.identity = records[i].identity
      /\ new.phase = phase /\ new.proven = proven
      /\ UNCHANGED <<owner, connectorOwner, claims, calls>>
  BY DEF TypeOK, Record
<1>2. TypeOK'
  BY <1>0 DEF TypeOK, Record
<1> HIDE DEF new
<1>3. LocksExclude' /\ OneTargetPerOperation'
  BY <1>1 DEF LocksExclude, OneTargetPerOperation
<1>4. FilesKeyed'
  BY <1>0, <1>1 DEF FilesKeyed
<1>5. OwnersAgree'
  BY <1>0, <1>1, FileTypes DEF OwnersAgree
<1>6. \A j \in Ids : /\ Owns(j)' <=> Owns(j)
                     /\ Retired(j)' <=> Retired(j)
                     /\ records'[j] # None <=> records[j] # None
                     /\ records'[j].identity = records[j].identity
  BY <1>0, <1>1 DEF Owns, Retired
<1>7. Succession'
  <2>1. OutsidersUntouched'
    BY <1>0, <1>1, <1>6 DEF Succession, OutsidersUntouched
  <2>2. RetiredDescend'
    <3> SUFFICES ASSUME NEW j \in Ids, Retired(j)'
                 PROVE  \/ records'[j].identity.pred = None
                        \/ (Retired(records[j].identity.pred))'
      BY <1>6 DEF RetiredDescend
    <3>1. Retired(j) /\ records[j].identity.pred \in Ids \cup {None}
      BY <1>6, FileTypes DEF Retired
    <3> QED
      BY <1>6, <3>1 DEF Succession, RetiredDescend
  <2>3. OwnersDescend'
    BY <1>1, <1>6, FileTypes DEF Succession, OwnersDescend
  <2> QED
    BY <2>1, <2>2, <2>3 DEF Succession
<1>8. CallsAgree'
  <2>1. ASSUME NEW p \in Procs, calls[p].at = "own"
        PROVE  /\ records'[calls[p].request.id] = Planned(calls[p].request)
               /\ OwnerOver(calls[p].request)'
    <3> DEFINE r == calls[p].request
    <3>1. /\ r \in Identity /\ r.id \in Ids /\ r.target \in Targets
          /\ records[r.id] = Planned(r) /\ OwnerOver(r)
      BY <2>1, CallInProgress DEF CallsAgree
    <3>2. r.target # records[i].identity.target
      BY <2>1 DEF Current, TargetFree
    <3>3. r.id # i
      BY <3>1, <3>2 DEF Planned
    <3>4. owner[r.target] # None =>
              owner[r.target].target = r.target /\ owner[r.target].id \in Ids
      BY <3>1, FileTypes DEF FilesKeyed
    <3>5. OwnerOver(r)'
      BY <1>1, <1>6, <3>1, <3>2, <3>4 DEF OwnerOver
    <3> QED
      BY <1>1, <3>1, <3>3, <3>5
  <2>2. ASSUME NEW p \in Procs, calls[p].at = "claim"
        PROVE  /\ records'[calls[p].request.id] # None <=>
                      records[calls[p].request.id] # None
               /\ records'[calls[p].request.id].identity =
                      records[calls[p].request.id].identity
    BY <1>6, <2>2, CallInProgress
  <2> QED
    BY <1>1, <2>1, <2>2 DEF CallsAgree, NoOtherOwnerNames
<1> QED
  BY <1>2, <1>3, <1>4, <1>5, <1>7, <1>8

-----------------------------------------------------------------------------
\* claim_connector: the target is locked for the write of the claim.
LEMMA ClaimConnectorInv ==
    ASSUME Inv, NEW p \in Procs, NEW i \in Ids, NEW c \in Instances,
           ClaimConnector(p, i, c)
    PROVE  Inv'
<1> USE DEF Inv
<1> DEFINE r == records[i].identity
           call == [at |-> "handoff", request |-> r, fresh |-> FALSE,
                    instance |-> c]
<1>0. /\ r \in Identity /\ TargetFree(r.target)
      /\ calls' = [calls EXCEPT ![p] = call]
      /\ connectorOwner' \in [Instances -> Ids \cup {None}]
      /\ UNCHANGED <<records, owner, claims>>
  BY FileTypes DEF ClaimConnector, Current, TypeOK
<1>1. call \in Call
  BY <1>0 DEF Call
<1>2. TypeOK'
  BY <1>0, <1>1 DEF TypeOK
<1>3. /\ calls'[p] = call /\ call.at = "handoff" /\ call.request = r
      /\ \A q \in Procs : q # p => calls'[q] = calls[q]
  BY <1>0 DEF TypeOK
<1> HIDE DEF call
<1>4. LocksExclude'
  BY <1>0, <1>3 DEF LocksExclude, TargetFree
<1>5. CallsAgree'
  BY <1>0, <1>3 DEF CallsAgree, NoOtherOwnerNames, OwnerOver
<1>6. (FilesKeyed /\ OwnersAgree /\ OneTargetPerOperation)'
  BY <1>0 DEF FilesKeyed, OwnersAgree, OneTargetPerOperation
<1>7. Succession'
  BY <1>0 DEF Succession, OutsidersUntouched, RetiredDescend, OwnersDescend,
              Retired, Owns
<1> QED
  BY <1>2, <1>4, <1>5, <1>6, <1>7

\* Steps that change claim files only.
LEMMA ClaimsInv ==
    ASSUME Inv, UNCHANGED <<records, owner, connectorOwner, calls>>,
           claims' \in [Instances -> [Ids -> ClaimPhases \cup {None}]]
    PROVE  Inv'
<1> USE DEF Inv
<1>1. TypeOK'
  BY DEF TypeOK
<1>2. (LocksExclude /\ CallsAgree)'
  BY DEF LocksExclude, CallsAgree, NoOtherOwnerNames, OwnerOver
<1>3. (FilesKeyed /\ OwnersAgree /\ OneTargetPerOperation)'
  BY DEF FilesKeyed, OwnersAgree, OneTargetPerOperation
<1>4. Succession'
  BY DEF Succession, OutsidersUntouched, RetiredDescend, OwnersDescend,
         Retired, Owns
<1> QED
  BY <1>1, <1>2, <1>3, <1>4

-----------------------------------------------------------------------------
\* OperationPhase::next leads from a forward phase to a phase that is not
\* a failure.
LEMMA SuccessorPhase ==
    ASSUME NEW r, NEW phase \in ForwardPhases
    PROVE  /\ Successor(r)[phase] \in ForwardPhases \cup {"Completed"}
           /\ Successor(r)[phase] \in OperationPhases
           /\ Successor(r)[phase] # "FailedRecoverable"
<1>1. Successor(r)[phase] \in ForwardPhases \cup {"Completed"}
  BY DEF Successor, ForwardPhases
<1> QED
  BY <1>1 DEF ForwardPhases, OperationPhases

\* Every step of the store keeps the invariant.
LEMMA NextInv == Inv /\ [Next]_vars => Inv'
<1> SUFFICES ASSUME Inv, [Next]_vars PROVE Inv'
  OBVIOUS
<1>0. /\ ForwardPhases \subseteq OperationPhases
      /\ RollbackPhases \subseteq OperationPhases
      /\ {"Completed", "ExpiredUnclaimed", "FailedRecoverable"} \subseteq
             OperationPhases
      /\ "FailedRecoverable" \notin ForwardPhases \cup RollbackPhases
      /\ \A i \in Ids : records[i] # None => records[i].proven \in OperationPhases
  BY FileTypes DEF OperationPhases, ForwardPhases, RollbackPhases, Inv,
                   OperationRecord
<1>1. ASSUME NEW p \in Procs, NEW r \in Requests, Claim(p, r) PROVE Inv'
  BY <1>1, ClaimInv
<1>2. ASSUME NEW p \in Procs, NEW i \in Ids, NEW c \in Instances,
             ClaimConnector(p, i, c)
      PROVE  Inv'
  BY <1>2, ClaimConnectorInv
<1>3. ASSUME NEW p \in Procs, ClaimRecord(p) \/ ClaimOwner(p) PROVE Inv'
  BY <1>3, ClaimRecordInv, ClaimOwnerInv
<1>4. ASSUME NEW p \in Procs, ConvergeClaim(p) PROVE Inv'
  <2>1. claims' \in [Instances -> [Ids -> ClaimPhases \cup {None}]]
    BY <1>4 DEF ConvergeClaim, Inv, TypeOK, ClaimPhases
  <2> QED
    BY <1>4, <2>1, EndCall DEF ConvergeClaim
<1>5. ASSUME NEW p \in Procs, Crash(p) PROVE Inv'
  BY <1>5, EndCall DEF Crash, Inv, TypeOK
<1>6. ASSUME NEW i \in Ids, Advance(i) PROVE Inv'
  <2>1. PICK r : /\ Record(i, Successor(r)[records[i].phase],
                              Successor(r)[records[i].phase])
                 /\ Current(i) /\ records[i].phase \in ForwardPhases
    BY <1>6 DEF Advance
  <2> QED
    BY <2>1, SuccessorPhase, RecordInv
<1>7. ASSUME NEW i \in Ids, Fail(i) PROVE Inv'
  BY <1>0, <1>7, RecordInv DEF Fail
<1>8. ASSUME NEW i \in Ids, Resume(i) PROVE Inv'
  <2>1. records[i].proven \in ForwardPhases
    BY <1>8 DEF Resume, Current, Inv, FilesKeyed
  <2> QED
    BY <1>0, <1>8, <2>1, RecordInv DEF Resume
<1>9. ASSUME NEW i \in Ids, RollbackFence(i) PROVE Inv'
  <2>1. records[i].proven \in OperationPhases
    BY <1>0, <1>9 DEF RollbackFence, Current
  <2> QED
    BY <1>0, <1>9, <2>1, RecordInv DEF RollbackFence, RollbackPhases
<1>10. ASSUME NEW i \in Ids, NEW c \in Instances, ExpireOperation(i, c)
       PROVE  Inv'
  BY <1>0, <1>10, RecordInv DEF ExpireOperation
<1>11. ASSUME NEW i \in Ids, NEW phase \in {"RollbackConverged", "RollbackBlocked"},
              FinishRollback(i, phase)
       PROVE  Inv'
  <2>1. records[i].proven \in OperationPhases
    BY <1>0, <1>11 DEF FinishRollback, Current
  <2> QED
    BY <1>0, <1>11, <2>1, RecordInv DEF FinishRollback, RollbackPhases
<1>12. ASSUME NEW c \in Instances, ObserveHandoff(c) \/ ReleaseClaim(c) \/ ExpireClaim(c)
       PROVE  Inv'
  <2>1. PICK to \in ClaimPhases : \E from : MoveClaim(c, from, to)
    BY <1>12 DEF ObserveHandoff, ReleaseClaim, ExpireClaim, ClaimPhases
  <2>2. claims' \in [Instances -> [Ids -> ClaimPhases \cup {None}]]
    BY <2>1 DEF MoveClaim, Inv, TypeOK
  <2> QED
    BY <2>1, <2>2, ClaimsInv DEF MoveClaim
<1>13. CASE UNCHANGED vars
  BY <1>13, ClaimsInv DEF vars, Inv, TypeOK
<1> QED
  BY <1>1, <1>2, <1>3, <1>4, <1>5, <1>6, <1>7, <1>8, <1>9, <1>10, <1>11,
     <1>12, <1>13 DEF Next

-----------------------------------------------------------------------------
(* The theorems.                                                           *)

\* The invariant holds in every state of the store, whatever processes are
\* killed and however their calls of claim interleave.
THEOREM Safety == Spec => []Inv
<1>1. Init => Inv
  BY InitInv
<1>2. Inv /\ [Next]_vars => Inv'
  BY NextInv
<1> QED
  BY <1>1, <1>2, PTL DEF Spec

\* Type correctness: every file holds what deployment.rs would read back.
THEOREM TypeCorrect == Spec => []TypeOK
<1>1. Inv => TypeOK
  BY DEF Inv
<1> QED
  BY <1>1, Safety, PTL

\* claim: an operation id is never published as the owner of two targets.
THEOREM OneTarget == Spec => []OneTargetPerOperation
<1>1. Inv => OneTargetPerOperation
  BY DEF Inv
<1> QED
  BY <1>1, Safety, PTL

-----------------------------------------------------------------------------
(* How records and claims change.                                          *)

Transition(i) ==
    \/ Advance(i) \/ Fail(i) \/ Resume(i) \/ RollbackFence(i)
    \/ \E c \in Instances : ExpireOperation(i, c)
    \/ \E phase \in {"RollbackConverged", "RollbackBlocked"} :
           FinishRollback(i, phase)

\* A transition of an operation changes its record only, and only while it
\* owns its target.
LEMMA TransitionShape ==
    ASSUME Inv, NEW i \in Ids, Transition(i)
    PROVE  /\ Current(i)
           /\ \A j \in Ids : j # i => records'[j] = records[j]
           /\ records'[i].identity = records[i].identity
           /\ UNCHANGED <<owner, connectorOwner, claims, calls>>
<1>1. Current(i) /\ \E phase, proven : Record(i, phase, proven)
  BY DEF Transition, Advance, Fail, Resume, RollbackFence, ExpireOperation,
         FinishRollback
<1>2. records \in [Ids -> OperationRecord \cup {None}]
  BY DEF Inv, TypeOK
<1> QED
  BY <1>1, <1>2 DEF Record

\* A record changes by a transition of its operation, or appears as planned.
LEMMA RecordStep ==
    ASSUME Inv, [Next]_vars, NEW i \in Ids, records'[i] # records[i]
    PROVE  \/ records[i] = None /\ records'[i] = Planned(records'[i].identity)
           \/ Transition(i)
<1>1. ASSUME NEW p \in Procs, ClaimRecord(p)
      PROVE  records[i] = None /\ records'[i] = Planned(records'[i].identity)
  <2> DEFINE r == calls[p].request
  <2>1. calls[p].at = "claim" /\ calls[p].fresh
        /\ records' = [records EXCEPT ![r.id] = Planned(r)]
    BY <1>1 DEF ClaimRecord
  <2>2. records[r.id] = None
    BY <2>1 DEF Inv, CallsAgree
  <2>3. r.id = i /\ records'[i] = Planned(r)
    BY <2>1 DEF Inv, TypeOK
  <2> QED
    BY <2>2, <2>3 DEF Planned
<1>2. ASSUME NEW j \in Ids, Transition(j) PROVE Transition(i)
  BY <1>2, TransitionShape
<1>3. \/ \E p \in Procs : ClaimRecord(p)
      \/ \E j \in Ids : Transition(j)
      \/ UNCHANGED records
  BY DEF Next, Transition, Claim, ClaimConnector, ClaimOwner, ConvergeClaim,
         Crash, ObserveHandoff, ReleaseClaim, ExpireClaim, MoveClaim, vars
<1> QED
  BY <1>1, <1>2, <1>3

Frozen ==
    \A i \in Ids :
        records[i] # None
        /\ owner[records[i].identity.target] # records[i].identity
            => records'[i] = records[i]

\* lock_current: the record of an operation that does not own its target
\* never changes.
THEOREM SupersededIsFrozen == Spec => SupersededNeverChanges
<1>1. Inv /\ [Next]_vars => Frozen
  <2> SUFFICES ASSUME Inv, [Next]_vars, NEW i \in Ids, records[i] # None,
                      records'[i] # records[i]
               PROVE  owner[records[i].identity.target] = records[i].identity
    BY DEF Frozen
  <2>1. Transition(i)
    BY RecordStep
  <2> QED
    BY <2>1, TransitionShape DEF Current
<1>2. Inv /\ [Next]_vars => [Frozen]_vars
  BY <1>1
<1> QED
  BY <1>2, Safety, PTL DEF Spec, SupersededNeverChanges, Frozen

Fenced ==
    \A t \in Targets :
        owner[t] # None /\ owner'[t] # owner[t] =>
            /\ owner'[t].pred = owner[t].id
            /\ records[owner[t].id].phase \in
                   {"Completed", "RollbackConverged", "ExpiredUnclaimed"}
            /\ records[owner'[t].id] = Planned(owner'[t])

\* An owner file is written for an operation whose record exists and whose
\* transition was validated under the lock of the target.
LEMMA OwnerStep ==
    ASSUME Inv, [Next]_vars, NEW t \in Targets, owner'[t] # owner[t]
    PROVE  /\ owner'[t] \in Identity /\ owner'[t].target = t
           /\ OwnerOver(owner'[t])
           /\ records[owner'[t].id] # None
           /\ records[owner'[t].id].identity = owner'[t]
<1>1. PICK p \in Procs :
          /\ calls[p].at # "idle"
          /\ owner' = [owner EXCEPT ![calls[p].request.target] = calls[p].request]
          /\ \/ ClaimOwner(p)
             \/ /\ ClaimRecord(p) /\ calls[p].at = "claim" /\ ~calls[p].fresh
                /\ OwnerTransition(calls[p].request)
  <2>1. \/ \E p \in Procs : ClaimRecord(p) \/ ClaimOwner(p)
        \/ UNCHANGED owner
    BY DEF Next, Claim, ClaimConnector, ConvergeClaim, Crash, ObserveHandoff,
           ReleaseClaim, ExpireClaim, MoveClaim, vars, Advance, Fail, Resume,
           RollbackFence, ExpireOperation, FinishRollback, Record
  <2> QED
    BY <2>1 DEF ClaimRecord, ClaimOwner
<1> DEFINE r == calls[p].request
<1>2. r \in Identity /\ r.target = t /\ owner'[t] = r
  BY <1>1, CallInProgress DEF Inv, TypeOK
<1>3. CASE ClaimOwner(p)
  <2>1. records[r.id] = Planned(r) /\ OwnerOver(r)
    BY <1>3 DEF ClaimOwner, Inv, CallsAgree
  <2>2. Planned(r) # None /\ Planned(r).identity = r
    <3>1. Planned(r) \in OperationRecord
      BY <1>2 DEF Planned, OperationRecord, OperationPhases, ForwardPhases
    <3> QED
      BY <3>1, StoreAssumption DEF Planned
  <2> QED
    BY <1>2, <2>1, <2>2
<1>4. CASE calls[p].at = "claim" /\ ~calls[p].fresh /\ OwnerTransition(r)
  BY <1>2, <1>4, TransitionIsOver DEF Inv, CallsAgree
<1> QED
  BY <1>1, <1>3, <1>4

\* validate_owner_transition: a target changes hands only when its owner is
\* over, to an operation that named it and has done nothing yet.  An exact
\* replay never brings a superseded operation back.
THEOREM Fencing == Spec => SuccessionIsFenced
<1>1. Inv /\ [Next]_vars => Fenced
  <2> SUFFICES ASSUME Inv, [Next]_vars, NEW t \in Targets, owner[t] # None,
                      owner'[t] # owner[t]
               PROVE  /\ owner'[t].pred = owner[t].id
                      /\ records[owner[t].id].phase \in Over
                      /\ records[owner'[t].id] = Planned(owner'[t])
    BY DEF Fenced, Over
  <2> DEFINE r == owner'[t]
  <2>1. /\ r \in Identity /\ r.target = t /\ OwnerOver(r)
        /\ records[r.id] # None /\ records[r.id].identity = r
    BY OwnerStep
  <2>2. records[r.id] = Planned(r)
    BY <2>1, FreshOwner
  <2> QED
    BY <2>1, <2>2 DEF OwnerOver
<1>2. Inv /\ [Next]_vars => [Fenced]_vars
  BY <1>1
<1> QED
  BY <1>2, Safety, PTL DEF Spec, SuccessionIsFenced, Fenced

-----------------------------------------------------------------------------
(* Claims of connector instances.                                          *)

ClaimsKept ==
    \A c \in Instances, i \in Ids :
        /\ claims[c][i] # None => claims'[c][i] # None
        /\ claims[c][i] = "HandoffObserved" =>
               claims'[c][i] \in {"HandoffObserved", "Released"}
        /\ claims[c][i] \in {"Released", "ExpiredUnclaimed"} =>
               claims'[c][i] = claims[c][i]

\* A step moves the claim of one instance and operation forward, or creates
\* it, or leaves every claim alone.
LEMMA ClaimsStep == Inv /\ [Next]_vars => ClaimsKept
<1> SUFFICES ASSUME Inv, [Next]_vars PROVE ClaimsKept
  OBVIOUS
<1>0. /\ claims \in [Instances -> [Ids -> ClaimPhases \cup {None}]]
      /\ calls \in [Procs -> Call]
  BY DEF Inv, TypeOK
<1>1. ASSUME NEW p \in Procs, ConvergeClaim(p) PROVE ClaimsKept
  <2> DEFINE d == calls[p].instance
             j == calls[p].request.id
  <2>1. claims' = [claims EXCEPT ![d][j] = IF @ = None THEN "Prepared" ELSE @]
    BY <1>1 DEF ConvergeClaim
  <2>2. ASSUME NEW c \in Instances, NEW i \in Ids, claims'[c][i] # claims[c][i]
        PROVE  claims[c][i] = None /\ claims'[c][i] = "Prepared"
    BY <1>0, <2>1, <2>2
  <2>3. "Prepared" # None
    BY StoreAssumption DEF ClaimPhases
  <2>4. ASSUME NEW c \in Instances, NEW i \in Ids
        PROVE  \/ claims'[c][i] = claims[c][i]
               \/ claims[c][i] = None /\ claims'[c][i] = "Prepared"
    BY <2>2
  <2> QED
    BY <2>3, <2>4, StoreAssumption DEF ClaimsKept, ClaimPhases
<1>2. ASSUME NEW d \in Instances, NEW from \in ClaimPhases, NEW to \in ClaimPhases,
             MoveClaim(d, from, to),
             \/ from = "Prepared"
             \/ from = "HandoffObserved" /\ to = "Released"
      PROVE  ClaimsKept
  <2>1. ASSUME NEW c \in Instances, NEW i \in Ids
        PROVE  \/ claims'[c][i] = claims[c][i]
               \/ claims[c][i] = from /\ claims'[c][i] = to
    BY <1>0, <1>2 DEF MoveClaim
  <2> QED
    BY <1>2, <2>1, StoreAssumption DEF ClaimsKept, ClaimPhases
<1>3. ASSUME NEW d \in Instances,
             ObserveHandoff(d) \/ ReleaseClaim(d) \/ ExpireClaim(d)
      PROVE  ClaimsKept
  BY <1>2, <1>3 DEF ObserveHandoff, ReleaseClaim, ExpireClaim, ClaimPhases
<1>4. \/ \E p \in Procs : ConvergeClaim(p)
      \/ \E d \in Instances : ObserveHandoff(d) \/ ReleaseClaim(d) \/ ExpireClaim(d)
      \/ UNCHANGED claims
  BY DEF Next, Claim, ClaimConnector, ClaimRecord, ClaimOwner, Crash, vars,
         Advance, Fail, Resume, RollbackFence, ExpireOperation,
         FinishRollback, Record
<1>5. CASE UNCHANGED claims
  BY <1>5 DEF ClaimsKept
<1> QED
  BY <1>1, <1>3, <1>4, <1>5

\* claim_connector: a claim whose handoff was observed, released or expired
\* is never reset, whatever is replayed.
THEOREM ClaimsMoveForward == Spec => ClaimsNeverRegress
<1>1. Inv /\ [Next]_vars => [ClaimsKept]_vars
  BY ClaimsStep
<1> QED
  BY <1>1, Safety, PTL DEF Spec, ClaimsNeverRegress, ClaimsKept

Active == {"Prepared", "HandoffObserved"}

\* An instance's owner file names the operation that holds it, and stays as
\* it is while a call of claim_connector is about to write the claim.
HandoffHeld ==
    /\ \A c \in Instances, i \in Ids : claims[c][i] \in Active => connectorOwner[c] = i
    /\ \A p \in Procs : calls[p].at = "handoff" =>
           /\ calls[p].instance \in Instances
           /\ connectorOwner[calls[p].instance] = calls[p].request.id

LEMMA HandoffHeldStep ==
    ASSUME Inv, HandoffHeld, [Next]_vars
    PROVE  HandoffHeld'
<1>0. /\ claims \in [Instances -> [Ids -> ClaimPhases \cup {None}]]
      /\ connectorOwner \in [Instances -> Ids \cup {None}]
      /\ calls \in [Procs -> Call]
      /\ None \notin Active
  BY StoreAssumption DEF Inv, TypeOK, Active, ClaimPhases
<1>1. ASSUME NEW p \in Procs, NEW i \in Ids, NEW c \in Instances, ClaimConnector(p, i, c)
      PROVE  HandoffHeld'
  <2>1. /\ records[i].identity.id = i /\ UNCHANGED claims
        /\ calls' = [calls EXCEPT ![p] = [at |-> "handoff", request |-> records[i].identity,
                                          fresh |-> FALSE, instance |-> c]]
    BY <1>1 DEF ClaimConnector, Current, Inv, FilesKeyed
  <2>2. /\ connectorOwner' = [connectorOwner EXCEPT ![c] = i]
        /\ \A q \in Procs : calls[q].at = "handoff" => calls[q].instance # c
    BY <1>0, <1>1 DEF ClaimConnector, InstanceFree
  \* The claim of an owner that is replaced is over, or there was no owner.
  <2>3. \A j \in Ids : claims[c][j] \in Active => j = i
    <3>1. \/ connectorOwner[c] = i
          \/ connectorOwner[c] = None
          \/ claims[c][connectorOwner[c]] \in {"Released", "ExpiredUnclaimed"}
      BY <1>1 DEF ClaimConnector, PriorIsOver
    <3>2. \A j \in Ids : claims[c][j] \in Active => connectorOwner[c] = j
      BY DEF HandoffHeld
    <3> QED
      BY <3>1, <3>2, StoreAssumption DEF Active
  <2>4. ASSUME NEW d \in Instances, NEW j \in Ids, claims'[d][j] \in Active
        PROVE  connectorOwner'[d] = j
    BY <1>0, <2>1, <2>2, <2>3, <2>4 DEF HandoffHeld
  <2>5. ASSUME NEW q \in Procs, calls'[q].at = "handoff"
        PROVE  /\ calls'[q].instance \in Instances
               /\ connectorOwner'[calls'[q].instance] = calls'[q].request.id
    BY <1>0, <2>1, <2>2, <2>5 DEF HandoffHeld
  <2> QED
    BY <2>4, <2>5 DEF HandoffHeld
<1>2. ASSUME NEW p \in Procs, ConvergeClaim(p)
      PROVE  HandoffHeld'
  <2> DEFINE d == calls[p].instance
             j == calls[p].request.id
  <2>1. /\ claims' = [claims EXCEPT ![d][j] = IF @ = None THEN "Prepared" ELSE @]
        /\ calls' = [calls EXCEPT ![p] = Idle] /\ UNCHANGED connectorOwner
        /\ d \in Instances /\ connectorOwner[d] = j
    BY <1>2 DEF ConvergeClaim, HandoffHeld
  <2>2. ASSUME NEW c \in Instances, NEW i \in Ids
        PROVE  claims'[c][i] = claims[c][i] \/ (c = d /\ i = j)
    BY <1>0, <2>1
  <2>3. ASSUME NEW c \in Instances, NEW i \in Ids, claims'[c][i] \in Active
        PROVE  connectorOwner[c] = i
    BY <2>1, <2>2, <2>3 DEF HandoffHeld
  <2>4. ASSUME NEW q \in Procs, calls'[q].at = "handoff"
        PROVE  calls'[q] = calls[q]
    BY <1>0, <2>1, <2>4 DEF Idle
  <2> HIDE DEF d, j
  <2> QED
    BY <2>1, <2>3, <2>4 DEF HandoffHeld
<1>3. ASSUME NEW c \in Instances, NEW from \in Active, NEW to \in ClaimPhases, MoveClaim(c, from, to)
      PROVE  HandoffHeld'
  <2>1. ASSUME NEW d \in Instances, NEW i \in Ids
        PROVE  claims'[d][i] = claims[d][i] \/ (d = c /\ i = connectorOwner[c])
    BY <1>0, <1>3 DEF MoveClaim
  <2> QED
    BY <1>3, <2>1 DEF MoveClaim, HandoffHeld
<1>4. ASSUME NEW d \in Instances, ObserveHandoff(d) \/ ReleaseClaim(d) \/ ExpireClaim(d)
      PROVE  HandoffHeld'
  BY <1>3, <1>4 DEF ObserveHandoff, ReleaseClaim, ExpireClaim, Active, ClaimPhases
<1>5. ASSUME UNCHANGED <<claims, connectorOwner>>,
             \A p \in Procs : calls'[p].at = "handoff" => calls'[p] = calls[p]
      PROVE  HandoffHeld'
  BY <1>5 DEF HandoffHeld
<1>6. ASSUME NEW p \in Procs, NEW r \in Requests, Claim(p, r)
      PROVE  HandoffHeld'
  BY <1>0, <1>5, <1>6 DEF Claim
<1>7. ASSUME NEW p \in Procs, ClaimRecord(p) \/ ClaimOwner(p) \/ Crash(p)
      PROVE  HandoffHeld'
  <2>1. UNCHANGED <<claims, connectorOwner>>
    BY <1>7 DEF ClaimRecord, ClaimOwner, Crash
  <2>2. calls' = [calls EXCEPT ![p] = Idle] \/ calls' = [calls EXCEPT ![p].at = "own"]
    BY <1>7 DEF ClaimRecord, ClaimOwner, Crash
  <2>3. Idle.at = "idle" /\ calls \in [Procs -> Call]
    BY <1>0 DEF Idle
  <2>4. CASE calls' = [calls EXCEPT ![p] = Idle]
    BY <1>5, <2>1, <2>3, <2>4
  <2>5. CASE calls' = [calls EXCEPT ![p].at = "own"]
    <3>1. calls'[p].at = "own" /\ \A q \in Procs : q # p => calls'[q] = calls[q]
      BY <2>3, <2>5 DEF Call, Idle
    <3> QED
      BY <1>5, <2>1, <3>1
  <2> QED
    BY <2>2, <2>4, <2>5
<1>8. CASE \/ \E i \in Ids : Transition(i)
           \/ UNCHANGED vars
  BY <1>5, <1>8, TransitionShape DEF vars
<1> QED
  BY <1>1, <1>2, <1>4, <1>6, <1>7, <1>8 DEF Next, Transition

\* claim_connector: two operations never hold the same instance, because the
\* instance passes on only when the claim of its holder is over.
THEOREM HandoffIsExclusive == Spec => []ExclusiveHandoff
<1>1. Init => HandoffHeld
  BY StoreAssumption DEF Init, HandoffHeld, Active, ClaimPhases, Idle
<1>2. Inv /\ HandoffHeld /\ [Next]_vars => HandoffHeld'
  BY HandoffHeldStep
<1>3. HandoffHeld => ExclusiveHandoff
  BY DEF HandoffHeld, ExclusiveHandoff, Active
<1> QED
  BY <1>1, <1>2, <1>3, Safety, PTL DEF Spec

\* The end of an operation is recorded only when its claims agree, and they
\* stay as they were then.
LEMMA EndAgreesStep ==
    ASSUME Inv, EndAgreesWithClaims, [Next]_vars
    PROVE  EndAgreesWithClaims'
<1> SUFFICES ASSUME NEW i \in Ids, records'[i] # None
             PROVE  /\ records'[i].phase \in {"Completed"} \cup RollbackPhases =>
                           \A c \in records'[i].identity.connectors :
                               claims'[c][i] = "Released"
                    /\ records'[i].phase = "ExpiredUnclaimed" =>
                           \A c \in records'[i].identity.connectors :
                               claims'[c][i] = "ExpiredUnclaimed"
  BY DEF EndAgreesWithClaims
<1>0. records[i] # None =>
          /\ records[i].identity.id = i
          /\ records[i].identity.connectors \subseteq Instances
  BY DEF Inv, FilesKeyed, TypeOK, OperationRecord, Identity
<1>1. CASE records'[i] = records[i]
  BY <1>0, <1>1, ClaimsStep DEF EndAgreesWithClaims, ClaimsKept
<1>2. CASE records[i] = None /\ records'[i] = Planned(records'[i].identity)
  BY <1>2 DEF Planned, RollbackPhases
<1>3. CASE Transition(i)
  <2>1. /\ records[i] # None /\ UNCHANGED claims
        /\ records'[i].identity = records[i].identity
    BY <1>3, TransitionShape DEF Current
  <2>2. ASSUME NEW phase, NEW proven, Record(i, phase, proven)
        PROVE  records'[i].phase = phase
    BY <2>2 DEF Record, Inv, TypeOK
  <2>3. CASE Advance(i)
    <3> DEFINE next == Successor(records[i].identity)[records[i].phase]
    <3>1. /\ records[i].phase \in ForwardPhases
          /\ next = "Completed" => ConnectorsReleased(records[i].identity)
          /\ Record(i, next, next)
      BY <2>3 DEF Advance
    <3>2. records'[i].phase = next /\ next \in ForwardPhases \cup {"Completed"}
      BY <2>2, <3>1, SuccessorPhase
    <3> QED
      BY <1>0, <2>1, <3>1, <3>2
      DEF ConnectorsReleased, ForwardPhases, RollbackPhases
  <2>4. CASE Fail(i) \/ Resume(i)
    <3>1. records'[i].phase \in ForwardPhases \cup {"FailedRecoverable"}
      BY <2>2, <2>4 DEF Fail, Resume, Current, Inv, FilesKeyed
    <3> QED
      BY <3>1 DEF ForwardPhases, RollbackPhases
  <2>5. CASE \/ RollbackFence(i)
             \/ \E phase \in {"RollbackConverged", "RollbackBlocked"} :
                    FinishRollback(i, phase)
    <3>1. /\ records[i].phase \in {"Completed"} \cup RollbackPhases
          /\ records'[i].phase \in RollbackPhases
      BY <2>2, <2>5 DEF RollbackFence, FinishRollback, RollbackPhases
    <3> QED
      BY <2>1, <3>1 DEF EndAgreesWithClaims, RollbackPhases
  <2>6. CASE \E c \in Instances : ExpireOperation(i, c)
    <3>1. /\ \A c \in records[i].identity.connectors :
                 claims[c][i] = "ExpiredUnclaimed"
          /\ records'[i].phase = "ExpiredUnclaimed"
      BY <2>2, <2>6 DEF ExpireOperation
    <3> QED
      BY <2>1, <3>1 DEF RollbackPhases
  <2> QED
    BY <1>3, <2>3, <2>4, <2>5, <2>6 DEF Transition
<1> QED
  BY <1>1, <1>2, <1>3, RecordStep

\* verify_connector_completion and expire_unclaimed_operation: how an
\* operation ended is what its claims say, now and after it was superseded.
THEOREM EndAgrees == Spec => []EndAgreesWithClaims
<1>1. Init => EndAgreesWithClaims
  BY DEF Init, EndAgreesWithClaims
<1>2. Inv /\ EndAgreesWithClaims /\ [Next]_vars => EndAgreesWithClaims'
  BY EndAgreesStep
<1> QED
  BY <1>1, <1>2, Safety, PTL DEF Spec

-----------------------------------------------------------------------------
(* Records can be read back.                                               *)

\* OperationPhase::next keeps valid_record's restriction of the migration.
LEMMA SuccessorValid ==
    ASSUME NEW r, NEW phase \in ForwardPhases,
           phase = "MigrationApplied" => r.connectors = {}
    PROVE  ValidRecord([identity |-> r, phase |-> Successor(r)[phase],
                        proven |-> Successor(r)[phase]])
<1> DEFINE next == Successor(r)[phase]
<1>1. next \in ForwardPhases \cup {"Completed"}
  BY SuccessorPhase
<1>2. next = "MigrationApplied" => r.connectors = {}
  BY DEF Successor, ForwardPhases
<1> HIDE DEF next
<1> DEFINE new == [identity |-> r, phase |-> next, proven |-> next]
<1>3. new.identity = r /\ new.phase = next /\ new.proven = next
  OBVIOUS
<1> HIDE DEF new
<1>4. ValidRecord(new)
  BY <1>1, <1>2, <1>3 DEF ValidRecord, ForwardPhases, RollbackPhases
<1> QED
  BY <1>4 DEF new, next

\* persist_record never refuses: every legal transition of a valid record
\* makes a valid record.
THEOREM RecordsReadBack == Spec => []RecordsStayValid
<1>1. Init => RecordsStayValid
  BY DEF Init, RecordsStayValid
<1>2. Inv /\ RecordsStayValid /\ [Next]_vars => RecordsStayValid'
  <2> SUFFICES ASSUME Inv, RecordsStayValid, [Next]_vars,
                      NEW i \in Ids, records'[i] # None
               PROVE  ValidRecord(records'[i])
    BY DEF RecordsStayValid
  <2>1. CASE records'[i] = records[i]
    BY <2>1 DEF RecordsStayValid
  <2>2. CASE records'[i] = Planned(records'[i].identity)
    <3>1. /\ records'[i].phase = "Planned" /\ records'[i].proven = "Planned"
      BY <2>2 DEF Planned
    <3> QED
      BY <3>1 DEF ValidRecord, RollbackPhases
  <2>3. CASE Transition(i)
    <3> DEFINE r == records[i].identity
               new(phase, proven) ==
                   [identity |-> r, phase |-> phase, proven |-> proven]
    <3>1. records[i] # None /\ ValidRecord(records[i])
      BY <2>3, TransitionShape DEF Current, RecordsStayValid
    <3>2. ASSUME NEW phase, NEW proven, Record(i, phase, proven)
          PROVE  records'[i] = new(phase, proven)
      BY <3>2 DEF Record, Inv, TypeOK
    <3>3. CASE Advance(i)
      <4>1. /\ records[i].phase \in ForwardPhases
            /\ Record(i, Successor(r)[records[i].phase],
                      Successor(r)[records[i].phase])
        BY <3>3 DEF Advance
      <4>2. records[i].phase = "MigrationApplied" => r.connectors = {}
        BY <3>1 DEF ValidRecord
      <4>3. ValidRecord(new(Successor(r)[records[i].phase],
                            Successor(r)[records[i].phase]))
        BY <4>1, <4>2, SuccessorValid
      <4> QED
        BY <3>2, <4>1, <4>3
    <3>4. CASE Fail(i)
      <4>1. /\ records[i].phase \in ForwardPhases
            /\ records'[i] = new("FailedRecoverable", records[i].phase)
        BY <3>2, <3>4 DEF Fail
      <4> QED
        BY <3>1, <4>1 DEF ValidRecord, RollbackPhases
    <3>5. CASE Resume(i)
      <4>1. /\ records[i].phase = "FailedRecoverable"
            /\ records'[i] = new(records[i].proven, records[i].proven)
        BY <3>2, <3>5 DEF Resume
      <4> QED
        BY <3>1, <4>1 DEF ValidRecord, ForwardPhases, RollbackPhases
    <3>6. CASE RollbackFence(i)
      <4>1. /\ records[i].phase = "Completed"
            /\ records'[i] = new("RollbackFenced", records[i].proven)
        BY <3>2, <3>6 DEF RollbackFence
      <4> QED
        BY <3>1, <4>1 DEF ValidRecord, RollbackPhases
    <3>7. CASE \E c \in Instances : ExpireOperation(i, c)
      <4>1. PICK c \in Instances :
                /\ r.connectors = {c}
                /\ records'[i] = new("ExpiredUnclaimed", "ExpiredUnclaimed")
        BY <3>2, <3>7 DEF ExpireOperation
      <4> QED
        BY <4>1 DEF ValidRecord, RollbackPhases
    <3>8. CASE \E phase \in {"RollbackConverged", "RollbackBlocked"} :
                   FinishRollback(i, phase)
      <4>1. PICK phase \in {"RollbackConverged", "RollbackBlocked"} :
                /\ records[i].phase = "RollbackFenced"
                /\ records'[i] = new(phase, records[i].proven)
        BY <3>2, <3>8 DEF FinishRollback
      <4> QED
        BY <3>1, <4>1 DEF ValidRecord, RollbackPhases
    <3> QED
      BY <2>3, <3>3, <3>4, <3>5, <3>6, <3>7, <3>8 DEF Transition
  <2> QED
    BY <2>1, <2>2, <2>3, RecordStep
<1> QED
  BY <1>1, <1>2, Safety, PTL DEF Spec
=============================================================================
