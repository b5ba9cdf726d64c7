--------------------------- MODULE DeploymentStore ---------------------------
(***************************************************************************)
(* The durable state of deployment operations on a node (deployment.rs):   *)
(* a record per operation, an owner file per target, and for every         *)
(* connector instance an owner file and a claim file per operation.        *)
(* Processes share it through lock files: one per operation id, one per    *)
(* target, one per connector instance.  Locks are only tried, never waited *)
(* for, so an action whose lock is taken is an error return, a stutter.    *)
(*                                                                         *)
(* A call that writes one file under its locks is one action.  claim and   *)
(* claim_connector write two files; a crash may fall between the writes.   *)
(***************************************************************************)
EXTENDS Naturals, FiniteSets

CONSTANTS
    Procs,      \* processes that use the store
    Ids,        \* operation ids that operators draw
    Targets,    \* ownership fences: a target together with its host
    Instances,  \* connector instances
    None

VARIABLES
    records,         \* operation-<id>.json
    owner,           \* target-owner-<fence>.json
    connectorOwner,  \* connector-owner-<instance>.json
    claims,          \* connector-<instance>-operation-<id>.json
    calls            \* the call of claim or claim_connector in each process

vars == <<records, owner, connectorOwner, claims, calls>>

-----------------------------------------------------------------------------
(* OperationPhase.                                                         *)

ForwardPhases ==
    {"Planned", "Claimed", "HostBound", "ArtifactsVerified",
     "MaterialPrepared", "ConfigsWritten", "MigrationApplied",
     "ServicesConverged", "ReadinessVerified"}

RollbackPhases == {"RollbackFenced", "RollbackConverged", "RollbackBlocked"}

OperationPhases ==
    ForwardPhases \cup RollbackPhases
        \cup {"Completed", "ExpiredUnclaimed", "FailedRecoverable"}

ClaimPhases == {"Prepared", "HandoffObserved", "Released", "ExpiredUnclaimed"}

(* What operation_identity_digest covers.  An operation without connectors *)
(* is one of a node.                                                       *)
Identity ==
    [id : Ids, target : Targets, pred : Ids \cup {None},
     connectors : SUBSET Instances]

Requests == {r \in Identity : r.pred # r.id}

OperationRecord ==
    [identity : Identity, phase : OperationPhases, proven : OperationPhases]

ASSUME StoreAssumption ==
    /\ None \notin Procs \cup Ids \cup Targets \cup Instances \cup ClaimPhases
    /\ None \notin Identity
    /\ None \notin OperationRecord

Planned(r) == [identity |-> r, phase |-> "Planned", proven |-> "Planned"]

\* OperationPhase::next; a connector host has no migration.
Successor(r) ==
    [Planned           |-> "Claimed",
     Claimed           |-> "HostBound",
     HostBound         |-> "ArtifactsVerified",
     ArtifactsVerified |-> "MaterialPrepared",
     MaterialPrepared  |-> "ConfigsWritten",
     ConfigsWritten    |-> IF r.connectors = {} THEN "MigrationApplied"
                                                ELSE "ServicesConverged",
     MigrationApplied  |-> "ServicesConverged",
     ServicesConverged |-> "ReadinessVerified",
     ReadinessVerified |-> "Completed"]

-----------------------------------------------------------------------------
(* Calls in progress and the locks they hold.  In "claim" a process holds  *)
(* the id lock, in "own" also the target lock, in "handoff" the locks of   *)
(* the target and of the instance.                                         *)

Idle == [at |-> "idle", request |-> None, fresh |-> FALSE, instance |-> None]

Call ==
    {Idle} \cup
    [at : {"claim", "own", "handoff"}, request : Identity, fresh : BOOLEAN,
     instance : Instances \cup {None}]

IdFree(i) ==
    \A p \in Procs : calls[p].at \in {"claim", "own"} => calls[p].request.id # i

TargetFree(t) ==
    \A p \in Procs :
        calls[p].at \in {"own", "handoff"} => calls[p].request.target # t

InstanceFree(c) ==
    \A p \in Procs : calls[p].at = "handoff" => calls[p].instance # c

TypeOK ==
    /\ records \in [Ids -> OperationRecord \cup {None}]
    /\ owner \in [Targets -> Identity \cup {None}]
    /\ connectorOwner \in [Instances -> Ids \cup {None}]
    /\ claims \in [Instances -> [Ids -> ClaimPhases \cup {None}]]
    /\ calls \in [Procs -> Call]

\* An earlier version wrote the owner file first; a crash of it may have left
\* one owner file without a record.
Init ==
    /\ records = [i \in Ids |-> None]
    /\ \/ owner = [t \in Targets |-> None]
       \/ \E r \in Requests :
              /\ r.pred = None
              /\ owner = [t \in Targets |-> IF t = r.target THEN r ELSE None]
    /\ connectorOwner = [c \in Instances |-> None]
    /\ claims = [c \in Instances |-> [i \in Ids |-> None]]
    /\ calls = [p \in Procs |-> Idle]

-----------------------------------------------------------------------------
(* claim.                                                                  *)

\* reconcile_legacy_owner_for_absent_operation.
NoOtherOwnerNames(r) ==
    \A t \in Targets :
        owner[t] # None /\ owner[t].id = r.id => t = r.target /\ owner[t] = r

\* Mutant: owner files of other targets are not searched.
ClaimUnreconciled(p, r) ==
    /\ calls[p] = Idle
    /\ IdFree(r.id)
    /\ records[r.id] # None => records[r.id].identity = r
    /\ calls' = [calls EXCEPT ![p] =
           [at |-> "claim", request |-> r, fresh |-> records[r.id] = None,
            instance |-> None]]
    /\ UNCHANGED <<records, owner, connectorOwner, claims>>

\* The id lock is taken and an existing record is compared.
Claim(p, r) ==
    /\ calls[p] = Idle
    /\ IdFree(r.id)
    /\ \/ records[r.id] # None /\ records[r.id].identity = r
       \/ records[r.id] = None /\ NoOtherOwnerNames(r)
    /\ calls' = [calls EXCEPT ![p] =
           [at |-> "claim", request |-> r, fresh |-> records[r.id] = None,
            instance |-> None]]
    /\ UNCHANGED <<records, owner, connectorOwner, claims>>

\* validate_expired_unclaimed_successor.
SucceedsExpired(prior, next) ==
    \E c \in Instances :
        /\ prior.connectors = {c} /\ next.connectors = {c}
        /\ claims[c][prior.id] = "ExpiredUnclaimed"

\* Mutant: any terminal owner may be replaced, by whomever.
AnyTerminalOwner(r) ==
    LET current == owner[r.target] IN
    \/ current = None
    \/ current = r
    \/ /\ current # None
       /\ current.id # r.id
       /\ records[current.id] # None
       /\ records[current.id].phase \in {"Completed", "RollbackConverged"}

\* validate_owner_transition.
OwnerTransition(r) ==
    LET current == owner[r.target] IN
    \/ current = None /\ r.pred = None
    \/ current = r
    \/ /\ current # None
       /\ current.id # r.id
       /\ r.pred = current.id
       /\ records[current.id] # None
       /\ records[current.id].identity = current
       /\ \/ records[current.id].phase \in {"Completed", "RollbackConverged"}
          \/ /\ records[current.id].phase = "ExpiredUnclaimed"
             /\ SucceedsExpired(current, r)

\* Mutant: an existing record is returned as it is.
ClaimReturnsExisting(p) ==
    LET r == calls[p].request IN
    /\ calls[p].at = "claim"
    /\ \/ /\ TargetFree(r.target) /\ OwnerTransition(r)
          /\ calls[p].fresh
          /\ records' = [records EXCEPT ![r.id] = Planned(r)]
          /\ calls' = [calls EXCEPT ![p].at = "own"]
       \/ /\ ~(TargetFree(r.target) /\ OwnerTransition(r) /\ calls[p].fresh)
          /\ calls' = [calls EXCEPT ![p] = Idle]
          /\ UNCHANGED records
    /\ UNCHANGED <<owner, connectorOwner, claims>>

\* The target lock is tried; a new record is written before the owner file,
\* an existing one makes the call an exact replay.
ClaimRecord(p) ==
    LET r == calls[p].request IN
    /\ calls[p].at = "claim"
    /\ \/ /\ TargetFree(r.target) /\ OwnerTransition(r)
          /\ calls[p].fresh
          /\ records' = [records EXCEPT ![r.id] = Planned(r)]
          /\ calls' = [calls EXCEPT ![p].at = "own"]
          /\ UNCHANGED owner
       \/ /\ TargetFree(r.target) /\ OwnerTransition(r)
          /\ ~calls[p].fresh
          /\ owner' = [owner EXCEPT ![r.target] = r]
          /\ calls' = [calls EXCEPT ![p] = Idle]
          /\ UNCHANGED records
       \/ /\ ~(TargetFree(r.target) /\ OwnerTransition(r))
          /\ calls' = [calls EXCEPT ![p] = Idle]
          /\ UNCHANGED <<records, owner>>
    /\ UNCHANGED <<connectorOwner, claims>>

ClaimOwner(p) ==
    /\ calls[p].at = "own"
    /\ owner' = [owner EXCEPT ![calls[p].request.target] = calls[p].request]
    /\ calls' = [calls EXCEPT ![p] = Idle]
    /\ UNCHANGED <<records, connectorOwner, claims>>

\* The process dies; its locks are released with its files.
Crash(p) ==
    /\ calls[p] # Idle
    /\ calls' = [calls EXCEPT ![p] = Idle]
    /\ UNCHANGED <<records, owner, connectorOwner, claims>>

-----------------------------------------------------------------------------
(* Transitions of the operation that owns its target.                      *)

\* Mutant: the owner file is not consulted.
RecordExists(i) == records[i] # None /\ TargetFree(records[i].identity.target)

\* lock_current.
Current(i) ==
    /\ records[i] # None
    /\ TargetFree(records[i].identity.target)
    /\ owner[records[i].identity.target] = records[i].identity

\* persist_record.
Record(i, phase, proven) ==
    /\ records' = [records EXCEPT ![i] =
           [identity |-> records[i].identity, phase |-> phase,
            proven |-> proven]]
    /\ UNCHANGED <<owner, connectorOwner, claims, calls>>

\* Mutant: an observed handoff counts as a release.
ConnectorsObserved(r) ==
    \A c \in r.connectors :
        connectorOwner[c] = r.id
        /\ claims[c][r.id] \in {"HandoffObserved", "Released"}

\* verify_connector_completion.
ConnectorsReleased(r) ==
    \A c \in r.connectors :
        connectorOwner[c] = r.id /\ claims[c][r.id] = "Released"

Advance(i) ==
    /\ Current(i)
    /\ records[i].phase \in ForwardPhases
    /\ LET r == records[i].identity
           next == Successor(r)[records[i].phase]
       IN /\ next = "Completed" => ConnectorsReleased(r)
          /\ Record(i, next, next)

\* Mutant: the phase that was proven is lost.
FailForgets(i) ==
    /\ Current(i)
    /\ records[i].phase \in ForwardPhases
    /\ Record(i, "FailedRecoverable", None)

Fail(i) ==
    /\ Current(i)
    /\ records[i].phase \in ForwardPhases
    /\ Record(i, "FailedRecoverable", records[i].phase)

\* Mutant: the phase that was proven stays the failed one.
ResumeUnproven(i) ==
    /\ Current(i)
    /\ records[i].phase = "FailedRecoverable"
    /\ Record(i, records[i].proven, "FailedRecoverable")

Resume(i) ==
    /\ Current(i)
    /\ records[i].phase = "FailedRecoverable"
    /\ Record(i, records[i].proven, records[i].proven)

ExpireOperation(i, c) ==
    /\ Current(i)
    /\ claims[c][i] = "ExpiredUnclaimed"
    /\ records[i].phase = "ArtifactsVerified"
    /\ records[i].identity.connectors = {c}
    /\ Record(i, "ExpiredUnclaimed", "ExpiredUnclaimed")

RollbackFence(i) ==
    /\ Current(i)
    /\ records[i].phase = "Completed"
    /\ Record(i, "RollbackFenced", records[i].proven)

FinishRollback(i, phase) ==
    /\ Current(i)
    /\ records[i].phase = "RollbackFenced"
    /\ Record(i, phase, records[i].proven)

-----------------------------------------------------------------------------
(* claim_connector.  The claim's predecessor is a function of the parent   *)
(* and the instance, and never changes: it is not stored here.             *)

\* connector_predecessor_for_parent.
ConnectorPredecessor(r, c) ==
    IF r.pred # None /\ c \in records[r.pred].identity.connectors
    THEN r.pred ELSE None

\* Mutant: neither the prior claim nor its operation need be over.
PriorUnchecked(r, c) ==
    ConnectorPredecessor(r, c) \in {None, connectorOwner[c]}

PriorIsOver(r, c) ==
    LET prior == connectorOwner[c] IN
    /\ ConnectorPredecessor(r, c) \in {None, prior}
    /\ records[prior].identity.target = r.target
    /\ \/ /\ claims[c][prior] = "Released"
          /\ records[prior].phase \in {"Completed", "RollbackConverged"}
       \/ /\ claims[c][prior] = "ExpiredUnclaimed"
          /\ records[prior].phase = "ExpiredUnclaimed"
          /\ r.pred = prior

\* Both locks are tried and the instance's owner file is written.
ClaimConnector(p, i, c) ==
    /\ calls[p] = Idle
    /\ Current(i)
    /\ InstanceFree(c)
    /\ LET r == records[i].identity IN
       /\ c \in r.connectors
       /\ r.pred # None =>
              /\ records[r.pred] # None
              /\ records[r.pred].identity.target = r.target
       /\ \/ connectorOwner[c] = i /\ UNCHANGED connectorOwner
          \/ /\ IF connectorOwner[c] = None
                THEN ConnectorPredecessor(r, c) = None
                ELSE connectorOwner[c] # i /\ PriorIsOver(r, c)
             /\ connectorOwner' = [connectorOwner EXCEPT ![c] = i]
       /\ calls' = [calls EXCEPT ![p] =
              [at |-> "handoff", request |-> r, fresh |-> FALSE,
               instance |-> c]]
    /\ UNCHANGED <<records, owner, claims>>

\* Mutant: the claim file is always rewritten.
RestartClaim(p) ==
    /\ calls[p].at = "handoff"
    /\ claims' = [claims EXCEPT
           ![calls[p].instance][calls[p].request.id] = "Prepared"]
    /\ calls' = [calls EXCEPT ![p] = Idle]
    /\ UNCHANGED <<records, owner, connectorOwner>>

\* converge_connector_claim.
ConvergeClaim(p) ==
    /\ calls[p].at = "handoff"
    /\ claims' = [claims EXCEPT ![calls[p].instance][calls[p].request.id] =
                      IF @ = None THEN "Prepared" ELSE @]
    /\ calls' = [calls EXCEPT ![p] = Idle]
    /\ UNCHANGED <<records, owner, connectorOwner>>

-----------------------------------------------------------------------------
(* Transitions of the current claim of an instance.                        *)

\* lock_current_connector, and persist_connector_claim.
MoveClaim(c, from, to) ==
    LET i == connectorOwner[c] IN
    /\ i # None
    /\ Current(i)
    /\ InstanceFree(c)
    /\ claims[c][i] = from
    /\ claims' = [claims EXCEPT ![c][i] = to]
    /\ UNCHANGED <<records, owner, connectorOwner, calls>>

ObserveHandoff(c) == MoveClaim(c, "Prepared", "HandoffObserved")
ReleaseClaim(c) == MoveClaim(c, "HandoffObserved", "Released")
ExpireClaim(c) == MoveClaim(c, "Prepared", "ExpiredUnclaimed")

-----------------------------------------------------------------------------
Next ==
    \/ \E p \in Procs :
          \/ \E r \in Requests : Claim(p, r)
          \/ \E i \in Ids, c \in Instances : ClaimConnector(p, i, c)
          \/ ClaimRecord(p) \/ ClaimOwner(p) \/ ConvergeClaim(p) \/ Crash(p)
    \/ \E i \in Ids :
          \/ Advance(i) \/ Fail(i) \/ Resume(i) \/ RollbackFence(i)
          \/ \E c \in Instances : ExpireOperation(i, c)
          \/ \E phase \in {"RollbackConverged", "RollbackBlocked"} :
                 FinishRollback(i, phase)
    \/ \E c \in Instances : ObserveHandoff(c) \/ ReleaseClaim(c) \/ ExpireClaim(c)

Spec == Init /\ [][Next]_vars

\* A process that is not killed goes on.  Operators repeat a claim that was
\* cut short until it succeeds: processes may be killed any number of times,
\* but not every time, and one of the repetitions finds the locks free.
Replay(i) ==
    /\ records[i] # None
    /\ \E p \in Procs : Claim(p, records[i].identity)

ReplayRecord(i) ==
    \E p \in Procs :
        /\ calls[p].at = "claim" /\ calls[p].request.id = i
        /\ TargetFree(calls[p].request.target)
        /\ ClaimRecord(p)

ReplayConnector(c) ==
    /\ connectorOwner[c] # None
    /\ \E p \in Procs : ClaimConnector(p, connectorOwner[c], c)

ReplayClaim(c) ==
    \E p \in Procs : calls[p].instance = c /\ ConvergeClaim(p)

FairSpec ==
    /\ Spec
    /\ \A p \in Procs : WF_vars(ClaimRecord(p) \/ ClaimOwner(p) \/ ConvergeClaim(p))
    /\ \A i \in Ids : SF_vars(Replay(i)) /\ SF_vars(ReplayRecord(i))
    /\ \A c \in Instances : SF_vars(ReplayConnector(c)) /\ SF_vars(ReplayClaim(c))

-----------------------------------------------------------------------------
(* Safety.                                                                 *)

\* valid_record, but for failure evidence.
ValidRecord(record) ==
    /\ record.phase = "FailedRecoverable" => record.proven \in ForwardPhases
    /\ record.phase \in RollbackPhases => record.proven = "Completed"
    /\ record.phase = "ExpiredUnclaimed" =>
           \E c \in Instances : record.identity.connectors = {c}
    /\ record.phase \notin RollbackPhases \cup {"FailedRecoverable"} =>
           record.proven = record.phase
    /\ "MigrationApplied" \in {record.phase, record.proven} =>
           record.identity.connectors = {}

\* persist_record and read refuse a record that valid_record rejects: no
\* sequence of failures, resumes and rollbacks leads to such a record, which
\* could be neither stored nor read again.
RecordsStayValid == \A i \in Ids : records[i] # None => ValidRecord(records[i])

\* claim: one operation id is never published as the owner of two targets,
\* also not with an owner file that an earlier version left.
OneTargetPerOperation ==
    \A s, t \in Targets :
        owner[s] # None /\ owner[t] # None /\ owner[s].id = owner[t].id => s = t

\* lock_current: the record of an operation that does not own its target,
\* because its claim was cut short or it was superseded, never changes.
SupersededNeverChanges ==
    [][\A i \in Ids :
          records[i] # None
          /\ owner[records[i].identity.target] # records[i].identity
              => records'[i] = records[i]]_vars

\* validate_owner_transition: a target changes hands only when its owner is
\* over, to an operation that named it as its predecessor and has done
\* nothing yet; so no exact replay brings a superseded operation back.
SuccessionIsFenced ==
    [][\A t \in Targets :
          owner[t] # None /\ owner'[t] # owner[t] =>
              /\ owner'[t].pred = owner[t].id
              /\ records[owner[t].id].phase \in
                     {"Completed", "RollbackConverged", "ExpiredUnclaimed"}
              /\ records[owner'[t].id] = Planned(owner'[t])]_vars

\* verify_connector_completion and expire_unclaimed_operation: how an
\* operation ended is what its claims say, now and after it was superseded.
EndAgreesWithClaims ==
    \A i \in Ids : records[i] # None =>
        /\ records[i].phase \in {"Completed"} \cup RollbackPhases =>
               \A c \in records[i].identity.connectors :
                   claims[c][i] = "Released"
        /\ records[i].phase = "ExpiredUnclaimed" =>
               \A c \in records[i].identity.connectors :
                   claims[c][i] = "ExpiredUnclaimed"

\* claim_connector: two operations never hold the same instance.
ExclusiveHandoff ==
    \A c \in Instances, i, j \in Ids :
        claims[c][i] \in {"Prepared", "HandoffObserved"}
        /\ claims[c][j] \in {"Prepared", "HandoffObserved"} => i = j

\* A claim whose handoff was observed, released or expired is never reset,
\* whatever is replayed.
ClaimsNeverRegress ==
    [][\A c \in Instances, i \in Ids :
          /\ claims[c][i] # None => claims'[c][i] # None
          /\ claims[c][i] = "HandoffObserved" =>
                 claims'[c][i] \in {"HandoffObserved", "Released"}
          /\ claims[c][i] \in {"Released", "ExpiredUnclaimed"} =>
                 claims'[c][i] = claims[c][i]]_vars

(* Liveness.                                                               *)

Interrupted(i) ==
    /\ records[i] # None
    /\ owner[records[i].identity.target] # records[i].identity
    /\ OwnerTransition(records[i].identity)

\* claim writes the record before the owner file, claim_connector the owner
\* before the claim: a crash in between is repaired by the exact replay, unless
\* the target went to another operation meanwhile.
InterruptedClaimsComplete ==
    /\ \A i \in Ids : []<>~Interrupted(i)
    /\ \A c \in Instances :
           []<>(connectorOwner[c] = None \/ claims[c][connectorOwner[c]] # None)
=============================================================================
