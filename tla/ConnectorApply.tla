---------------------------- MODULE ConnectorApply ----------------------------
(***************************************************************************)
(* Bootstrapping a Connector (connector_apply.rs, connector_claim.rs).     *)
(* apply drives one deployment operation through the Host Supervisor:      *)
(* prepare, start, observe, finalize; or, if the plan expired first, the   *)
(* proof that the host did nothing.  Its durable progress is an execution  *)
(* record per operation, written under a lease, and projected onto the     *)
(* claim and the operation in the deployment store.                        *)
(*                                                                         *)
(* A call of the deployment store, an exchange with the host and a write   *)
(* of the record are steps of their own; a process may stop before each,   *)
(* by an error, a rejection, a timeout or a kill.                          *)
(***************************************************************************)
EXTENDS Naturals, Sequences

CONSTANTS
    Procs, Ids, Targets, Instances, None,   \* as in DeploymentStore
    Keys,       \* Host operation ids
    Bundled,    \* operations whose plan carries an agent bundle
    ShortLived  \* operations whose plan may expire while they run

VARIABLES
    records, owner, connectorOwner, claims, calls,   \* the deployment store
    execution,  \* connector-execution-<id>.json: [instance, key, phase] or None
    host,       \* what the Host Supervisor did for an operation, by key
    late,       \* requests of processes that did not wait for the answer
    expired,    \* operations whose plan expired
    jobs        \* the run of apply in each process, or None: its operation and
                \* instance, its point (at), the record, claim and expiry it read
                \* before it had the lease, the calls of the store it has still to
                \* make (todo) and the host's answer to be persisted (result)

Store == INSTANCE DeploymentStore

storeVars == <<records, owner, connectorOwner, claims, calls>>
hostVars == <<host, late>>
vars == <<storeVars, execution, hostVars, expired, jobs>>

-----------------------------------------------------------------------------
(* The execution record.                                                   *)

\* phase_rank.
Rank ==
    [Absent |-> 0, Claimed |-> 0, ExpiredUnclaimed |-> 0, Prepared |-> 1,
     Started |-> 2, Running |-> 3, Finalized |-> 4]

\* The mark of what is absent is none of what is there.
ASSUME ConnectorAssumption ==
    /\ None \notin Ids \cup Instances \cup DOMAIN Rank \cup Store!ClaimPhases
    /\ None \notin [instance : Instances, key : Keys, phase : DOMAIN Rank]
    /\ None \notin Store!OperationRecord

(* Projection of a phase onto the store, as tasks of a run.                *)

\* connector_phase_rank.
ConnectorRank ==
    [Planned |-> 0, Claimed |-> 1, HostBound |-> 2, ArtifactsVerified |-> 3,
     MaterialPrepared |-> 4, ConfigsWritten |-> 5, ServicesConverged |-> 6,
     ReadinessVerified |-> 7, Completed |-> 8]

Reached(seen, target) ==
    seen \in DOMAIN ConnectorRank /\ ConnectorRank[seen] >= ConnectorRank[target]

\* advance_to does nothing for a phase that the operation has left behind.
Ahead(job, target) == IF Reached(job.seen, target) THEN <<>> ELSE <<target>>

\* Mutant: the claim is released when the Connector runs.
ReleaseWhenRunning(job, phase) ==
    CASE phase = "Prepared"  -> <<"ObserveHandoff">> \o Ahead(job, "ConfigsWritten")
      [] phase = "Started"   -> Ahead(job, "ServicesConverged")
      [] phase = "Running"   -> Ahead(job, "ReadinessVerified") \o <<"ReleaseClaim">>
      [] phase = "Finalized" -> Ahead(job, "Completed")
      [] OTHER -> <<>>

\* What apply does after it persisted a phase.
Projection(job, phase) ==
    CASE phase = "Prepared"  -> <<"ObserveHandoff">> \o Ahead(job, "ConfigsWritten")
      [] phase = "Started"   -> Ahead(job, "ServicesConverged")
      [] phase = "Running" /\ job.op \notin Bundled -> Ahead(job, "ReadinessVerified")
      [] phase = "Finalized" -> <<"ReleaseClaim">> \o Ahead(job, "Completed")
      [] phase = "ExpiredUnclaimed" -> <<"ExpireClaim", "ExpireOperation">>
      [] OTHER -> <<>>

\* converge_deployment_projection: the same for every phase up to this one.
Converge(job, phase) ==
    LET upTo(q) == IF Rank[phase] >= Rank[q] THEN Projection(job, q) ELSE <<>>
    IN upTo("Prepared") \o upTo("Started") \o upTo("Running")
           \o upTo("Finalized")

-----------------------------------------------------------------------------
(* A run of apply.  It holds the lease from "snapshot" on.                 *)

Leased ==
    {"snapshot", "project", "ask", "send", "persist", "prove", "present",
     "start", "observe"}

Init ==
    /\ records = [i \in Ids |-> None]
    /\ owner = [t \in Targets |-> None]
    /\ connectorOwner = [c \in Instances |-> None]
    /\ claims = [c \in Instances |-> [i \in Ids |-> None]]
    /\ calls = [p \in Procs |-> Store!Idle]
    /\ execution = [i \in Ids |-> None]
    /\ host = [i \in Ids |-> [k \in Keys |-> "Absent"]]
    /\ late = {}
    /\ expired = {}
    /\ jobs = [p \in Procs |-> None]

At(p, point) == jobs[p] # None /\ jobs[p].at = point

Goto(p, point) == jobs' = [jobs EXCEPT ![p].at = point]

-----------------------------------------------------------------------------
(* deployment-connector-claim.                                             *)

Claim(p, r) ==
    /\ jobs[p] = None
    /\ r.connectors # {}
    /\ Store!Claim(p, r)
    /\ UNCHANGED <<execution, hostVars, expired, jobs>>

FinishClaim(p) ==
    /\ Store!ClaimRecord(p) \/ Store!ClaimOwner(p)
    /\ UNCHANGED <<execution, hostVars, expired, jobs>>

-----------------------------------------------------------------------------
(* apply, before the lease.                                                *)

\* validate_operation: the operation binds the connector of the plan.
BindsConnector(i, c) == records[i] # None /\ c \in records[i].identity.connectors

Begin(p, i, c) ==
    /\ jobs[p] = None /\ calls[p] = Store!Idle
    /\ BindsConnector(i, c)
    /\ jobs' = [jobs EXCEPT ![p] =
           [op |-> i, instance |-> c, at |-> "claim",
            seen |-> records[i].phase, claim |-> None,
            expired |-> i \in expired, todo |-> <<>>, result |-> None]]
    /\ UNCHANGED <<storeVars, execution, hostVars, expired>>

ClaimInstance(p) ==
    /\ At(p, "claim")
    /\ Store!ClaimConnector(p, jobs[p].op, jobs[p].instance)
    /\ Goto(p, "converge")
    /\ UNCHANGED <<execution, hostVars, expired>>

ConvergeInstance(p) ==
    /\ At(p, "converge")
    /\ Store!ConvergeClaim(p)
    /\ jobs' = [jobs EXCEPT
           ![p].at = "verify",
           ![p].claim = claims'[jobs[p].instance][jobs[p].op]]
    /\ UNCHANGED <<execution, hostVars, expired>>

\* advance_to goes by the phase it last saw; the store refuses it if another
\* process moved the operation.
AdvanceSeen(p) ==
    LET i == jobs[p].op IN
    /\ jobs[p].seen \in DOMAIN ConnectorRank
    /\ records[i].phase = jobs[p].seen
    /\ Store!Advance(i)

VerifyArtifacts(p) ==
    /\ At(p, "verify")
    /\ ~Reached(jobs[p].seen, "ArtifactsVerified")
    /\ AdvanceSeen(p)
    /\ jobs' = [jobs EXCEPT ![p].seen = records'[jobs[p].op].phase]
    /\ UNCHANGED <<execution, hostVars, expired>>

-----------------------------------------------------------------------------
(* What apply does next when a phase is on record.                         *)

NextPoint(job, phase) ==
    CASE phase = "Claimed" -> IF job.expired THEN "prove" ELSE "ask"
      [] phase = "Prepared" -> "start"
      [] phase = "Started" -> "observe"
      [] phase = "Running" /\ job.op \notin Bundled -> "ask"
      [] OTHER -> "end"

\* A run with tasks still to do; it ends when there is nothing left.
Continued(job, tasks, phase) ==
    LET point == IF tasks # <<>> THEN "project" ELSE NextPoint(job, phase)
    IN IF point = "end" THEN None
       ELSE [job EXCEPT !.todo = tasks, !.result = None, !.at = point]

-----------------------------------------------------------------------------
(* lock_connector_execution, and the record that is found.                 *)

LeaseFree(i) ==
    \A p \in Procs : jobs[p] # None /\ jobs[p].at \in Leased => jobs[p].op # i

\* new_record: a fresh Host operation id (here: key) for a record that names the
\* connector; validate_record_identity: the record is of the plan at hand.
NewRecord(c, k)   == [instance |-> c, key |-> k, phase |-> "Claimed"]
RecordNames(e, c) == e.instance = c

\* Mutant: two runs of an operation hold its lease.
LeaseShared(p) ==
    LET i == jobs[p].op
        e == execution[i]
    IN
    /\ At(p, "verify") /\ Reached(jobs[p].seen, "ArtifactsVerified")
    /\ \/ e = None /\ Goto(p, "snapshot")
       \/ e # None /\ jobs' = [jobs EXCEPT ![p] =
              Continued(jobs[p], Converge(jobs[p], e.phase), e.phase)]
    /\ UNCHANGED <<storeVars, execution, hostVars, expired>>

\* An expired operation is not reconciled with the claim as it is now, but as
\* it was read before.
ExpiredTasks(p) ==
    IF jobs[p].claim = "ExpiredUnclaimed" THEN <<"ExpireOperation">>
    ELSE Projection(jobs[p], "ExpiredUnclaimed")

Lease(p) ==
    LET i == jobs[p].op
        c == jobs[p].instance
        e == execution[i]
        tasks == IF e.phase = "ExpiredUnclaimed" THEN ExpiredTasks(p)
                 ELSE Converge(jobs[p], e.phase)
    IN
    /\ At(p, "verify") /\ Reached(jobs[p].seen, "ArtifactsVerified")
    /\ LeaseFree(i)
    /\ connectorOwner[c] = i /\ claims[c][i] # None
    /\ \/ /\ e = None /\ jobs[p].claim = "Prepared"
          /\ Goto(p, "snapshot")
       \/ /\ e # None /\ RecordNames(e, c)
          /\ e.phase # "ExpiredUnclaimed" =>
                 /\ jobs[p].claim = "Released" => e.phase = "Finalized"
                 /\ jobs[p].claim = "HandoffObserved" => e.phase # "Claimed"
          /\ jobs' = [jobs EXCEPT ![p] = Continued(jobs[p], tasks, e.phase)]
    /\ UNCHANGED <<storeVars, execution, hostVars, expired>>

\* The Host operation ids are drawn and persisted before the host is asked
\* for anything but its snapshot.
Snapshot(p) ==
    LET i == jobs[p].op IN
    /\ At(p, "snapshot")
    /\ \E k \in Keys :
          /\ host[i][k] = "Absent"
          /\ execution' = [execution EXCEPT ![i] = NewRecord(jobs[p].instance, k)]
    /\ jobs' = [jobs EXCEPT ![p] = Continued(jobs[p], <<>>, "Claimed")]
    /\ UNCHANGED <<storeVars, hostVars, expired>>

-----------------------------------------------------------------------------
(* Tasks on the deployment store.                                          *)

Done(p) ==
    jobs' = [jobs EXCEPT ![p] =
                 Continued(jobs[p], Tail(jobs[p].todo), execution[jobs[p].op].phase)]

\* Mutant: a claim that is already where it should be is an error.
ClaimTaskOnce(p) ==
    LET c == jobs[p].instance
        task == Head(jobs[p].todo)
    IN
    /\ \/ task = "ObserveHandoff" /\ Store!ObserveHandoff(c)
       \/ task = "ReleaseClaim" /\ Store!ReleaseClaim(c)
       \/ task = "ExpireClaim" /\ Store!ExpireClaim(c)
    /\ Done(p)

\* The calls on a claim name the instance, not the operation: they move the
\* claim of whichever operation owns it.
ClaimTask(p) ==
    LET c == jobs[p].instance
        task == Head(jobs[p].todo)
        moved == [ObserveHandoff |-> "HandoffObserved",
                  ReleaseClaim   |-> "Released",
                  ExpireClaim    |-> "ExpiredUnclaimed"]
    IN
    /\ task \in DOMAIN moved
    /\ \/ task = "ObserveHandoff" /\ Store!ObserveHandoff(c)
       \/ task = "ReleaseClaim" /\ Store!ReleaseClaim(c)
       \/ task = "ExpireClaim" /\ Store!ExpireClaim(c)
       \/ /\ claims[c][connectorOwner[c]] = moved[task]
          /\ Store!Current(connectorOwner[c]) /\ Store!InstanceFree(c)
          /\ UNCHANGED storeVars
    /\ Done(p)

AdvanceTask(p) ==
    LET i == jobs[p].op
        todo == jobs[p].todo
        phase == records'[i].phase
    IN
    /\ Head(todo) \in DOMAIN ConnectorRank
    /\ ~Reached(jobs[p].seen, Head(todo))
    /\ AdvanceSeen(p)
    /\ jobs' = [jobs EXCEPT ![p] =
           Continued([jobs[p] EXCEPT !.seen = phase],
                     IF phase = Head(todo) THEN Tail(todo) ELSE todo,
                     execution[i].phase)]

ExpireTask(p) ==
    LET i == jobs[p].op IN
    /\ Head(jobs[p].todo) = "ExpireOperation"
    /\ \/ Store!ExpireOperation(i, jobs[p].instance)
       \/ /\ records[i].phase = "ExpiredUnclaimed"
          /\ claims[jobs[p].instance][i] = "ExpiredUnclaimed"
          /\ Store!Current(i)
          /\ UNCHANGED storeVars
    /\ Done(p)

Project(p) ==
    /\ At(p, "project")
    /\ ClaimTask(p) \/ AdvanceTask(p) \/ ExpireTask(p)
    /\ UNCHANGED <<execution, hostVars, expired>>

-----------------------------------------------------------------------------
(* The Host Supervisor.  It keeps the state of every Host operation id, so *)
(* a repeated request changes nothing and gets the first answer again.     *)

Request(p, kind) ==
    [kind |-> kind, op |-> jobs[p].op, key |-> execution[jobs[p].op].key]

\* What a request with its material makes of the state of its key.
HostAnswer(m) ==
    LET state == host[m.op][m.key] IN
    CASE m.kind = "Prepare" /\ state = "Absent" ->
             IF m.op \in expired THEN "ExpiredUnclaimed" ELSE "Prepared"
      [] m.kind = "Start" /\ state = "Prepared" -> "Started"
      [] m.kind = "Finalize" /\ state = "Running" -> "Finalized"
      [] OTHER -> state

HostHandles(m) == host' = [host EXCEPT ![m.op][m.key] = HostAnswer(m)]

\* A request outlives its process: the operator command runs on.
LateRequest ==
    \E m \in late :
        /\ HostHandles(m)
        /\ late' = late \ {m}
        /\ UNCHANGED <<storeVars, execution, expired, jobs>>

HostRuns(i, k) ==
    /\ host[i][k] = "Started"
    /\ host' = [host EXCEPT ![i][k] = "Running"]
    /\ UNCHANGED <<storeVars, execution, late, expired, jobs>>

\* The plan of an operation expires.
Expire(i) ==
    /\ i \in ShortLived \ expired
    /\ expired' = expired \cup {i}
    /\ UNCHANGED <<storeVars, execution, hostVars, jobs>>

-----------------------------------------------------------------------------
(* apply under the lease.                                                  *)

State(p) == host[jobs[p].op][execution[jobs[p].op].key]

Answered(p, result) ==
    jobs' = [jobs EXCEPT ![p].at = "persist", ![p].result = result]

\* The request that invoke_v2_recoverable repeats: prepare or finalize.
Kind(p) ==
    IF execution[jobs[p].op].phase = "Claimed" THEN "Prepare" ELSE "Finalize"

\* What validate_v2_result wants of the answer: the state the request leads to,
\* or for prepare the proof that the plan expired before the Host did anything.
Expected(p) == IF Kind(p) = "Prepare" THEN "Prepared" ELSE "Finalized"
Accepted(p) ==
    {Expected(p)} \cup {s \in {"ExpiredUnclaimed"} : Kind(p) = "Prepare"}

\* Mutant: the answer to the header of finalize is not looked at.
AskTrusts(p) ==
    /\ At(p, "ask")
    /\ IF Kind(p) = "Prepare" /\ State(p) # "Prepared" THEN Goto(p, "send")
       ELSE Answered(p, Expected(p))
    /\ UNCHANGED <<storeVars, execution, hostVars, expired>>

\* invoke_v2_recoverable asks with the header only: the host answers what it
\* did before, or requires the material.
Ask(p) ==
    /\ At(p, "ask")
    /\ IF State(p) = Expected(p)
       THEN Answered(p, State(p))
       ELSE Goto(p, "send")
    /\ UNCHANGED <<storeVars, execution, hostVars, expired>>

Send(p) ==
    LET answer == HostAnswer(Request(p, Kind(p))) IN
    /\ At(p, "send")
    /\ HostHandles(Request(p, Kind(p)))
    /\ IF answer \in Accepted(p)
       THEN Answered(p, answer)
       ELSE jobs' = [jobs EXCEPT ![p] = None]
    /\ UNCHANGED <<storeVars, execution, late, expired>>

\* invoke_expired_unclaimed_proof: the header-only request must be answered
\* by a demand for the material,
Prove(p) ==
    /\ At(p, "prove")
    /\ State(p) \in {"Absent", "ExpiredUnclaimed"}
    /\ Goto(p, "present")
    /\ UNCHANGED <<storeVars, execution, hostVars, expired>>

\* and the material by the proof that nothing was done.
Present(p) ==
    LET answer == HostAnswer(Request(p, "Prepare")) IN
    /\ At(p, "present")
    /\ HostHandles(Request(p, "Prepare"))
    /\ IF answer = "ExpiredUnclaimed"
       THEN Answered(p, answer)
       ELSE jobs' = [jobs EXCEPT ![p] = None]
    /\ UNCHANGED <<storeVars, execution, late, expired>>

Start(p) ==
    /\ At(p, "start")
    /\ HostHandles(Request(p, "Start"))
    /\ Answered(p, "Started")
    /\ UNCHANGED <<storeVars, execution, late, expired>>

\* Mutant: a Connector that was told to start runs.
ObserveDesired(p) ==
    /\ At(p, "observe")
    /\ State(p) \in {"Started", "Running"}
    /\ Answered(p, "Running")
    /\ UNCHANGED <<storeVars, execution, hostVars, expired>>

\* observe_running.
Observe(p) ==
    /\ At(p, "observe")
    /\ State(p) = "Running"
    /\ Answered(p, "Running")
    /\ UNCHANGED <<storeVars, execution, hostVars, expired>>

Persist(p) ==
    LET i == jobs[p].op
        phase == jobs[p].result
    IN
    /\ At(p, "persist")
    /\ execution' = [execution EXCEPT ![i].phase = phase]
    /\ jobs' = [jobs EXCEPT ![p] =
           Continued(jobs[p], Projection(jobs[p], phase), phase)]
    /\ UNCHANGED <<storeVars, hostVars, expired>>

-----------------------------------------------------------------------------
(* A run or a claim ends early.  A request that was sent may arrive later. *)

Sent(p) ==
    CASE At(p, "send") -> {Request(p, Kind(p))}
      [] At(p, "present") -> {Request(p, "Prepare")}
      [] At(p, "start") -> {Request(p, "Start")}
      [] OTHER -> {}

Stop(p) ==
    /\ jobs[p] # None \/ calls[p] # Store!Idle
    /\ calls' = [calls EXCEPT ![p] = Store!Idle]
    /\ jobs' = [jobs EXCEPT ![p] = None]
    /\ late' \in {late, late \cup Sent(p)}
    /\ UNCHANGED <<records, owner, connectorOwner, claims, execution, host,
                   expired>>

Step(p) ==
    \/ FinishClaim(p)
    \/ ClaimInstance(p) \/ ConvergeInstance(p) \/ VerifyArtifacts(p)
    \/ Lease(p) \/ Snapshot(p) \/ Project(p)
    \/ Ask(p) \/ Send(p) \/ Prove(p) \/ Present(p) \/ Start(p) \/ Observe(p)
    \/ Persist(p)

Next ==
    \/ \E p \in Procs : Step(p) \/ Stop(p)
    \/ \E p \in Procs, r \in Store!Requests : Claim(p, r)
    \/ \E p \in Procs, i \in Ids, c \in Instances : Begin(p, i, c)
    \/ LateRequest
    \/ \E i \in Ids : Expire(i) \/ \E k \in Keys : HostRuns(i, k)

Spec == Init /\ [][Next]_vars

\* apply is repeated until it succeeds, and not killed every time: after some
\* time a run stops only where it cannot go on.  The Host starts what it was
\* told to start.
Stuck(p) == ~ENABLED Step(p)

FairSpec ==
    /\ Spec
    /\ \A p \in Procs : WF_vars(Step(p)) /\ WF_vars(Stuck(p) /\ Stop(p))
    /\ \A p \in Procs, i \in Ids, c \in Instances : SF_vars(Begin(p, i, c))
    /\ \A i \in Ids, k \in Keys : WF_vars(HostRuns(i, k))
    /\ <>[][\A p \in Procs : Stop(p) => Stuck(p) \/ Step(p)]_vars

-----------------------------------------------------------------------------
(* Safety.                                                                 *)

\* new_record and persist_record after the answer: the Host acts for an
\* operation only under the one Host operation id that the record names, and
\* the record never says more than the Host did, whatever is killed and
\* repeated, also when a request arrives after its process is gone.
RecordFollowsHost ==
    \A i \in Ids :
        /\ \A k \in Keys : host[i][k] # "Absent" =>
               execution[i] # None /\ execution[i].key = k
        /\ execution[i] # None =>
               LET done == host[i][execution[i].key] IN
               /\ Rank[execution[i].phase] <= Rank[done]
               /\ execution[i].phase = "ExpiredUnclaimed" => done = "ExpiredUnclaimed"

\* How far the Host was recorded to be when an operation is in a phase.
Needs == [MaterialPrepared |-> 1, ConfigsWritten |-> 1, ServicesConverged |-> 2,
          ReadinessVerified |-> 3, Completed |-> 4]

\* The phase of an operation rests on its execution record.
OperationFollowsRecord ==
    \A i \in Ids : records[i] # None =>
        /\ records[i].phase \in DOMAIN Needs =>
               execution[i] # None /\ Rank[execution[i].phase] >= Needs[records[i].phase]
        /\ records[i].phase = "ExpiredUnclaimed" =>
               execution[i] # None /\ execution[i].phase = "ExpiredUnclaimed"

(* The bootstrap as it is seen from outside.                               *)

Effect(i) ==
    IF \E k \in Keys : host[i][k] # "Absent"
    THEN host[i][CHOOSE k \in Keys : host[i][k] # "Absent"]
    ELSE "Absent"

Verdict(i) ==
    CASE records[i] # None /\ records[i].phase = "Completed" -> "Finalized"
      [] records[i] # None /\ records[i].phase = "ExpiredUnclaimed" -> "ExpiredUnclaimed"
      [] OTHER -> None

\* How far the Host was recorded to be when a claim is in a phase.
ClaimNeeds == [HandoffObserved |-> 1, Released |-> 4]
Evidence(e, phase) ==
    /\ e # None
    /\ phase \in DOMAIN ClaimNeeds => Rank[e.phase] >= ClaimNeeds[phase]
    /\ phase = "ExpiredUnclaimed" => e.phase = "ExpiredUnclaimed"

\* "only an observed connector handoff may be released": a claim that left
\* Prepared did so on the execution record of its operation, or of one that
\* worked on the same connector and is decided.  The second case is real: a run
\* of a decided operation that still projects its record moves the claim of the
\* successor, as observe, release and expire name the instance only.
ClaimsMoveOnEvidence ==
    \A c \in Instances, i \in Ids :
        claims[c][i] \notin {None, "Prepared"} =>
            \E j \in Ids :
                /\ Evidence(execution[j], claims[c][i])
                /\ execution[j].instance = c
                /\ j = i \/ Verdict(j) # None

\* "superseded operations cannot mutate state": a step of a run moves no record
\* and no claim when another operation has taken over the target of its own.
Superseded(i) == owner[records[i].identity.target] # records[i].identity
SupersededCannotMutate ==
    [][\A p \in Procs :
          jobs[p] # None /\ jobs'[p] # jobs[p] /\ Superseded(jobs[p].op)
              => UNCHANGED <<records, claims>>]_vars

Bootstrap == INSTANCE ConnectorBootstrap WITH
    connector <- [i \in Ids |-> IF execution[i] = None THEN None
                                ELSE execution[i].instance],
    effect <- [i \in Ids |-> Effect(i)],
    verdict <- [i \in Ids |-> Verdict(i)]

\* The Host acts for an operation step by step and only while it is decided
\* by nothing else; an operation ends as the Host says; and an instance goes
\* to the next operation only after that.
ImplementsBootstrap == Bootstrap!Spec

(* Liveness.                                                               *)

Decided(i) == Verdict(i) # None

RecordedAs(i, phase) == execution[i] # None /\ execution[i].phase = phase

\* Released, but not recorded as completed.
ReleasedEarly(i) ==
    /\ RecordedAs(i, "Finalized")
    /\ claims[execution[i].instance][i] = "Released"

\* Prepared by the Host for a plan that has expired since, and not recorded.
UnrecordedPrepare(i) ==
    /\ RecordedAs(i, "Claimed")
    /\ i \in expired
    /\ host[i][execution[i].key] = "Prepared"

\* apply, repeated: an operation that was begun is decided, unless it runs into
\* one of the two states above.  The last gate of a bundled plan is missing.
ApplyFinishes ==
    \A i \in Ids \ Bundled :
        execution[i] # None
            ~> Decided(i) \/ ReleasedEarly(i) \/ UnrecordedPrepare(i)

\* "Applies or exactly resumes one canonical deployment operation": the same
\* without exception.
ApplyResumes ==
    \A i \in Ids \ Bundled : execution[i] # None ~> Decided(i)
=============================================================================
