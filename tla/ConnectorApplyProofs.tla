------------------------ MODULE ConnectorApplyProofs ------------------------
(***************************************************************************)
(* A Connector bootstrap keeps its records in agreement with the Host      *)
(* Supervisor and its operations in agreement with its records, and so     *)
(* implements ConnectorBootstrap: for any number of processes, operations, *)
(* connectors and Host operation ids, whatever is killed, repeated, late   *)
(* or expired.                                                             *)
(*                                                                         *)
(* That a record is drawn once rests on the lease, that it is true on the  *)
(* Host never going back, and that an instance passes on only from an      *)
(* operation that is decided on what a completion needs; the invariant     *)
(* says all of it at once.                                                 *)
(***************************************************************************)
EXTENDS ConnectorApply, SequenceTheorems, TLAPS

Phases ==
    {"Absent", "Claimed", "ExpiredUnclaimed", "Prepared", "Started", "Running",
     "Finalized"}

Execution == [instance : Instances, key : Keys, phase : Phases]
Message   == [kind : {"Prepare", "Start", "Finalize"}, op : Ids, key : Keys]

\* Nothing is said of what a run has read.
Job(j) ==
    /\ j = [op |-> j.op, instance |-> j.instance, at |-> j.at, seen |-> j.seen,
            claim |-> j.claim, expired |-> j.expired, todo |-> j.todo,
            result |-> j.result]
    /\ j.op \in Ids /\ j.instance \in Instances

Typed ==
    /\ execution \in [Ids -> Execution \cup {None}]
    /\ host \in [Ids -> [Keys -> Phases]]
    /\ late \subseteq Message
    /\ jobs = [p \in Procs |-> jobs[p]]
    /\ \A p \in Procs : jobs[p] # None => Job(jobs[p])

-----------------------------------------------------------------------------
(* The store.                                                              *)

\* A Connector's operation neither fails nor is rolled back here.
Undecided == Store!ForwardPhases
Ends      == {"Completed", "ExpiredUnclaimed"}

Over(i) == records[i] # None /\ records[i].phase \in Ends

\* An id is claimed by one process at a time, and a record is new once.
StoreInv ==
    /\ records \in [Ids -> Store!OperationRecord \cup {None}]
    /\ \A i \in Ids : records[i] # None => records[i].phase \in Undecided \cup Ends
    /\ connectorOwner \in [Instances -> Ids \cup {None}]
    /\ \A c \in Instances : connectorOwner[c] # None => records[connectorOwner[c]] # None
    /\ calls \in [Procs -> Store!Call]
    /\ \A p, q \in Procs :
           /\ calls[p].at \in {"claim", "own"} /\ calls[q].at \in {"claim", "own"}
           /\ calls[p].request.id = calls[q].request.id
           => p = q
    /\ \A p \in Procs : calls[p].at = "claim" /\ calls[p].fresh => records[calls[p].request.id] = None

\* The execution record is far enough for a phase of its operation.
Backs(e, phase) ==
    /\ phase \in DOMAIN Needs => e # None /\ Rank[e.phase] >= Needs[phase]
    /\ phase = "ExpiredUnclaimed" => e # None /\ e.phase = "ExpiredUnclaimed"

\* What a step may do to the store: an operation that is over stays as it is,
\* and an instance changes hands only when its owner's operation is over.
StoreStep ==
    /\ StoreInv'
    /\ \/ UNCHANGED records
       \/ \E i \in Ids :
              /\ records[i] = None \/ records[i].phase \in Undecided
              /\ records'[i] # None /\ Backs(execution[i], records'[i].phase)
              /\ \A o \in Ids : o # i => records'[o] = records[o]
    /\ \A c \in Instances :
           connectorOwner'[c] = connectorOwner[c] \/ connectorOwner[c] = None \/ Over(connectorOwner[c])

-----------------------------------------------------------------------------
(* Runs, records and the Host.                                             *)

\* A phase that may be recorded when the Host is in a state.
Says(phase, state) ==
    /\ Rank[phase] <= Rank[state]
    /\ phase = "ExpiredUnclaimed" => state = "ExpiredUnclaimed"

Holds(p) == jobs[p] # None /\ jobs[p].at \in Leased

\* The lease of an operation is held once.
OneLease ==
    \A p, q \in Procs : Holds(p) /\ Holds(q) /\ jobs[p].op = jobs[q].op => p = q

\* The tasks that a record of this phase may lead to.
Tasks(phase) ==
    {t \in {"ObserveHandoff", "ReleaseClaim", "ExpireClaim", "ExpireOperation",
            "ConfigsWritten", "ServicesConverged", "ReadinessVerified", "Completed"} :
        /\ t \in DOMAIN Needs => Rank[phase] >= Needs[t]
        /\ t \in {"ExpireClaim", "ExpireOperation"} => phase = "ExpiredUnclaimed"
        /\ t = "ObserveHandoff" => Rank[phase] >= 1
        /\ t = "ReleaseClaim" => Rank[phase] >= 4}

\* What a run that holds the lease relies on.
Knows(j) ==
    LET e == execution[j.op] IN
    /\ j.at = "snapshot" => e = None /\ connectorOwner[j.instance] = j.op
    /\ j.at \in Leased \ {"snapshot"} => e # None
    /\ j.at \in {"ask", "send"} => e.phase \in {"Claimed", "Running"}
    /\ j.at \in {"prove", "present"} => e.phase = "Claimed"
    /\ j.at = "start" => e.phase = "Prepared"
    /\ j.at = "observe" => e.phase = "Started"
    /\ j.at = "project" => j.todo \in Seq(Tasks(e.phase)) /\ j.todo # <<>>
    /\ j.at = "persist" =>
           j.result \in Phases /\ Says(e.phase, j.result) /\ Says(j.result, host[j.op][e.key])

\* Requests on their way name the key of the record.
Addressed(m) == execution[m.op] # None /\ execution[m.op].key = m.key

\* The instance of a record belongs to its operation until that is over.
Succession ==
    \A i \in Ids : execution[i] # None => connectorOwner[execution[i].instance] = i \/ Over(i)

Inv ==
    /\ Typed /\ StoreInv
    /\ RecordFollowsHost /\ OperationFollowsRecord /\ Succession
    /\ OneLease
    /\ \A p \in Procs : jobs[p] # None => Knows(jobs[p])
    /\ \A m \in late : Addressed(m)

\* The Host takes one step under a key that is recorded.
HostStep ==
    \E i \in Ids, k \in Keys, s \in Phases :
        /\ execution[i] # None /\ execution[i].key = k
        /\ host' = [host EXCEPT ![i][k] = s]
        /\ \/ s = host[i][k]
           \/ host[i][k] \in DOMAIN Bootstrap!NextEffects /\ s \in Bootstrap!NextEffects[host[i][k]]

\* One record is drawn, by the owner of its instance, or says more, and no more
\* than the Host did.
RecordStep ==
    \E i \in Ids, f \in Execution :
        /\ execution' = [execution EXCEPT ![i] = f]
        /\ Says(f.phase, host[i][f.key])
        /\ \/ execution[i] = None /\ connectorOwner[f.instance] = i
           \/ /\ execution[i] # None
              /\ f.key = execution[i].key /\ f.instance = execution[i].instance
              /\ Says(execution[i].phase, f.phase)

\* A step changes the store, the Host or a record.
Change ==
    \/ StoreStep /\ UNCHANGED <<execution, host>>
    \/ HostStep /\ UNCHANGED <<storeVars, execution>>
    \/ RecordStep /\ UNCHANGED <<storeVars, host>>

-----------------------------------------------------------------------------
\* The order of phases, and what it says of a record.
LEMMA Ranks ==
    /\ \A s \in Phases : Rank[s] \in 0..4
    /\ \A s \in Phases : Says(s, s)
    /\ \A s, t, u \in Phases : Says(s, t) /\ Says(t, u) => Says(s, u)
    /\ \A s \in Phases : Says("Absent", s) /\ Says("Claimed", s)
    /\ \A s \in Phases : Says("Prepared", s) => s \in {"Prepared", "Started", "Running", "Finalized"}
    /\ \A s \in {"Started", "Running", "Finalized"} : Says("Started", s)
    /\ Says("Prepared", "Started") /\ Says("Started", "Running") /\ Says("Running", "Finalized")
    /\ None \notin Execution
BY ConnectorAssumption DEF Phases, Rank, Says, Execution

\* A record that says more backs whatever it backed before.
LEMMA BacksMore ==
    ASSUME NEW e \in Execution, NEW f \in Execution, Says(e.phase, f.phase), NEW phase, Backs(e, phase)
    PROVE  Backs(f, phase)
<1>1. Rank[e.phase] \in 0..4 /\ Rank[f.phase] \in 0..4 /\ f # None
  BY Ranks DEF Execution
<1>2. phase \in DOMAIN Needs => Needs[phase] \in 0..4
  BY DEF Needs
<1>. QED  BY <1>1, <1>2 DEF Backs, Says

\* A step may leave the store alone.
LEMMA StoreRests ==
    ASSUME StoreInv, UNCHANGED storeVars
    PROVE  StoreStep
BY DEF StoreInv, StoreStep, storeVars

\* What every change keeps.
LEMMA Kept ==
    ASSUME Inv, Change
    PROVE  /\ StoreStep
           /\ host' \in [Ids -> [Keys -> Phases]]
           /\ \A i \in Ids, k \in Keys :
                 /\ Says(host[i][k], host'[i][k])
                 /\ host'[i][k] # host[i][k] => execution[i] # None /\ execution[i].key = k
           /\ execution' \in [Ids -> Execution \cup {None}]
           /\ \A i \in Ids :
                 \/ execution'[i] = execution[i]
                 \/ /\ execution'[i] \in Execution
                    /\ Says(execution'[i].phase, host[i][execution'[i].key])
                    /\ \/ execution[i] = None /\ connectorOwner[execution'[i].instance] = i
                       \/ /\ execution[i] # None
                          /\ execution'[i].key = execution[i].key
                          /\ execution'[i].instance = execution[i].instance
                          /\ Says(execution[i].phase, execution'[i].phase)
<1>0. Typed /\ StoreInv
  BY DEF Inv
<1>1. \A i \in Ids, k \in Keys : Says(host[i][k], host[i][k])
  BY <1>0, Ranks DEF Typed
<1>2. CASE StoreStep /\ UNCHANGED <<execution, host>>
  BY <1>0, <1>1, <1>2 DEF Typed
<1>3. CASE HostStep /\ UNCHANGED <<storeVars, execution>>
  <2>1. PICK i \in Ids, k \in Keys, s \in Phases :
          /\ execution[i] # None /\ execution[i].key = k
          /\ host' = [host EXCEPT ![i][k] = s]
          /\ \/ s = host[i][k]
             \/ host[i][k] \in DOMAIN Bootstrap!NextEffects /\ s \in Bootstrap!NextEffects[host[i][k]]
    BY <1>3 DEF HostStep
  <2>2. Says(host[i][k], s)
    BY <1>1, <2>1, Ranks DEF Bootstrap!NextEffects, Phases
  <2>3. /\ host' \in [Ids -> [Keys -> Phases]] /\ host'[i][k] = s
        /\ \A o \in Ids, q \in Keys : <<o, q>> # <<i, k>> => host'[o][q] = host[o][q]
    BY <1>0, <2>1 DEF Typed
  <2>4. \A o \in Ids, q \in Keys : Says(host[o][q], host'[o][q])
    BY <1>1, <2>2, <2>3
  <2>5. \A o \in Ids, q \in Keys : host'[o][q] # host[o][q] => execution[o] # None /\ execution[o].key = q
    BY <2>1, <2>3
  <2>. QED  BY <1>0, <1>3, <2>3, <2>4, <2>5, StoreRests DEF Typed
<1>4. CASE RecordStep /\ UNCHANGED <<storeVars, host>>
  BY <1>0, <1>1, <1>4, StoreRests DEF RecordStep, Typed
<1>. QED  BY <1>2, <1>3, <1>4 DEF Change

\* An operation that is over stays as it is.
LEMMA OverStays ==
    ASSUME StoreInv, StoreStep, NEW i \in Ids, Over(i)
    PROVE  Over(i)' /\ records'[i] = records[i]
<1>1. records[i].phase \notin Undecided
  BY DEF Over, Ends, Undecided, Store!ForwardPhases
<1>. QED  BY <1>1 DEF StoreStep, Over

\* An instance is its operation's until that is over.
LEMMA OwnerStays ==
    ASSUME Inv, StoreStep, NEW c \in Instances, NEW i \in Ids, connectorOwner[c] = i \/ Over(i)
    PROVE  connectorOwner'[c] = i \/ Over(i)'
<1>1. CASE Over(i)
  BY <1>1, OverStays DEF Inv
<1>2. CASE connectorOwner[c] = i /\ ~Over(i)
  <2>1. i # None
    BY ConnectorAssumption
  <2>. QED  BY <1>2, <2>1 DEF StoreStep
<1>. QED  BY <1>1, <1>2

\* What the records say stays true of the Host, and a record keeps its key.
LEMMA RecordsStayTrue ==
    ASSUME Inv, Change
    PROVE  /\ RecordFollowsHost'
           /\ \A m \in Message : Addressed(m) => Addressed(m)'
<1>1. /\ \A i \in Ids : execution[i] # None => execution[i].key \in Keys /\ execution[i].phase \in Phases
      /\ \A i \in Ids, k \in Keys : host[i][k] \in Phases
  BY DEF Inv, Typed, Execution
<1>2. \A i \in Ids, k \in Keys : host'[i][k] \in Phases /\ Says(host[i][k], host'[i][k])
  BY Kept
<1>3. \A i \in Ids : execution[i] # None => Says(execution[i].phase, host[i][execution[i].key])
  BY DEF Inv, RecordFollowsHost, Says
<1>4. \A i \in Ids, k \in Keys : host'[i][k] # "Absent" => execution[i] # None /\ execution[i].key = k
  BY Kept DEF Inv, RecordFollowsHost
<1>5. ASSUME NEW i \in Ids
      PROVE  /\ execution[i] # None => execution'[i] # None /\ execution'[i].key = execution[i].key
             /\ execution'[i] # None =>
                    /\ execution'[i].key \in Keys /\ execution'[i].phase \in Phases
                    /\ Says(execution'[i].phase, host[i][execution'[i].key])
  BY <1>1, <1>3, Kept, Ranks DEF Execution
<1>6. \A i \in Ids : execution'[i] # None => Says(execution'[i].phase, host'[i][execution'[i].key])
  BY <1>1, <1>2, <1>5, Ranks
<1>. QED  BY <1>4, <1>5, <1>6 DEF RecordFollowsHost, Addressed, Message, Says

\* Phases stay backed by records, and instances with their operations.
LEMMA StoreStaysTrue ==
    ASSUME Inv, Change
    PROVE  OperationFollowsRecord' /\ Succession'
<1>0. StoreStep
  BY Kept
<1>1. \A i \in Ids : records[i] # None => Backs(execution[i], records[i].phase)
  BY DEF Inv, OperationFollowsRecord, Backs
<1>2. \A i \in Ids : records'[i] # None => Backs(execution[i], records'[i].phase)
  BY <1>0, <1>1 DEF StoreStep
<1>3. ASSUME NEW i \in Ids, NEW phase, Backs(execution[i], phase)
      PROVE  Backs(execution'[i], phase)
  <2>1. CASE execution'[i] = execution[i]
    BY <1>3, <2>1
  <2>2. CASE execution[i] = None
    BY <1>3, <2>2 DEF Backs
  <2>3. CASE /\ execution'[i] \in Execution /\ execution[i] # None
             /\ Says(execution[i].phase, execution'[i].phase)
    <3>1. execution[i] \in Execution
      BY <2>3 DEF Inv, Typed
    <3>. QED  BY <1>3, <2>3, <3>1, BacksMore
  <2>. QED  BY <2>1, <2>2, <2>3, Kept
<1>4. OperationFollowsRecord'
  BY <1>2, <1>3 DEF OperationFollowsRecord, Backs
<1>5. ASSUME NEW i \in Ids, execution'[i] # None
      PROVE  connectorOwner'[execution'[i].instance] = i \/ Over(i)'
  <2>1. execution'[i] \in Execution /\ execution'[i].instance \in Instances
    BY <1>5, Kept DEF Execution
  <2>2. connectorOwner[execution'[i].instance] = i \/ Over(i)
    BY <1>5, Kept DEF Inv, Succession
  <2>. QED  BY <1>0, <2>1, <2>2, OwnerStays
<1>6. Succession'
  BY <1>5 DEF Succession
<1>. QED  BY <1>4, <1>6

\* What a run relies on, as long as the record of its operation rests.
LEMMA KnowsStays ==
    ASSUME Inv, Change, NEW j, Job(j), Knows(j), j.at \in Leased => execution'[j.op] = execution[j.op]
    PROVE  Knows(j)'
<1>. DEFINE e == execution[j.op]
<1>1. CASE j.at \notin Leased
  BY <1>1 DEF Knows, Leased
<1>2. CASE j.at = "snapshot"
  <2>1. e = None /\ execution'[j.op] = None /\ connectorOwner[j.instance] = j.op
    BY <1>2 DEF Knows, Leased
  <2>2. StoreStep /\ OperationFollowsRecord'
    BY Kept, StoreStaysTrue
  <2>3. connectorOwner'[j.instance] = j.op \/ Over(j.op)'
    BY <2>1, <2>2, OwnerStays DEF Job
  <2>4. ~Over(j.op)'
    BY <2>1, <2>2 DEF OperationFollowsRecord, Over, Ends, Needs, Job
  <2>. QED  BY <1>2, <2>1, <2>3, <2>4 DEF Knows
<1>3. CASE j.at = "persist"
  <2>1. e # None /\ execution'[j.op] = e /\ j.result \in Phases /\ Says(e.phase, j.result)
        /\ Says(j.result, host[j.op][e.key])
    BY <1>3 DEF Knows, Leased
  <2>2. j.op \in Ids /\ e.key \in Keys /\ host[j.op][e.key] \in Phases
    BY <2>1 DEF Job, Inv, Typed, Execution
  <2>3. host'[j.op][e.key] \in Phases /\ Says(host[j.op][e.key], host'[j.op][e.key])
    BY <2>2, Kept
  <2>4. Says(j.result, host'[j.op][e.key])
    BY <2>1, <2>2, <2>3, Ranks
  <2>. QED  BY <1>3, <2>1, <2>4 DEF Knows
<1>4. CASE j.at \in Leased \ {"snapshot", "persist"}
  BY <1>4 DEF Knows, Leased
<1>. QED  BY <1>1, <1>2, <1>3, <1>4

\* A run takes a step.
LEMMA JobMove ==
    ASSUME Inv, Change, NEW p \in Procs, NEW j,
           jobs' = [jobs EXCEPT ![p] = j],
           j # None => Job(j) /\ Knows(j)',
           j # None /\ j.at \in Leased => (Holds(p) /\ jobs[p].op = j.op) \/ LeaseFree(j.op),
           \A i \in Ids : execution'[i] # execution[i] => Holds(p) /\ jobs[p].op = i,
           late' \subseteq Message, \A m \in late' : m \in late \/ Addressed(m)
    PROVE  Inv'
<1>0. Typed /\ OneLease /\ \A q \in Procs : jobs[q] # None => Job(jobs[q]) /\ Knows(jobs[q])
  BY DEF Inv, Typed
<1>1. jobs'[p] = j /\ \A q \in Procs \ {p} : jobs'[q] = jobs[q]
  BY <1>0 DEF Typed
<1>2. jobs' = [q \in Procs |-> jobs'[q]]
  BY <1>0 DEF Typed
<1>3. \A q \in Procs : jobs'[q] # None => Job(jobs'[q])
  BY <1>0, <1>1
<1>4. Typed'
  BY <1>2, <1>3, Kept DEF Typed
<1>5. OneLease'
  BY <1>0, <1>1 DEF OneLease, Holds, LeaseFree
<1>6. ASSUME NEW q \in Procs \ {p}, jobs[q] # None
      PROVE  Knows(jobs[q])'
  <2>1. PICK k : k = jobs[q]
    OBVIOUS
  <2>2. k.at \in Leased => execution'[k.op] = execution[k.op]
    <3>1. k.op \in Ids
      BY <1>0, <1>6, <2>1 DEF Job
    <3>2. k.at \in Leased => Holds(q)
      BY <1>6, <2>1 DEF Holds
    <3>3. Holds(p) /\ Holds(q) => jobs[p].op # k.op
      BY <1>0, <2>1 DEF OneLease
    <3>. QED  BY <3>1, <3>2, <3>3
  <2>3. Knows(k)'
    BY <1>0, <1>6, <2>1, <2>2, KnowsStays
  <2>4. jobs'[q] = k
    BY <1>1, <2>1
  <2>. QED  BY <2>3, <2>4
<1>7. (\A q \in Procs : jobs[q] # None => Knows(jobs[q]))'
  BY <1>1, <1>6
<1>8. \A m \in late' : Addressed(m)'
  BY RecordsStayTrue DEF Inv
<1>9. StoreInv'
  BY Kept DEF StoreStep
<1>. QED  BY <1>4, <1>5, <1>7, <1>8, <1>9, RecordsStayTrue, StoreStaysTrue DEF Inv

\* A step outside the runs.
LEMMA JobsRest ==
    ASSUME Inv, Change, UNCHANGED <<jobs, execution>>, late' \subseteq late
    PROVE  Inv'
<1>0. Typed /\ OneLease /\ \A q \in Procs : jobs[q] # None => Job(jobs[q]) /\ Knows(jobs[q])
  BY DEF Inv, Typed
<1>1. Typed' /\ OneLease'
  BY <1>0, Kept DEF Typed, OneLease, Holds
<1>2. ASSUME NEW q \in Procs, jobs'[q] # None
      PROVE  Knows(jobs[q])'
  <2>1. PICK k : k = jobs[q]
    OBVIOUS
  <2>2. Knows(k)'
    BY <1>0, <1>2, <2>1, KnowsStays
  <2>. QED  BY <2>1, <2>2
<1>3. \A m \in late' : Addressed(m)'
  BY <1>0, RecordsStayTrue DEF Inv, Typed
<1>4. StoreInv'
  BY Kept DEF StoreStep
<1>. QED  BY <1>1, <1>2, <1>3, <1>4, RecordsStayTrue, StoreStaysTrue DEF Inv

-----------------------------------------------------------------------------
(* The calls of the store.                                                 *)

USE DEF Store!Idle

\* A call begins, goes on or ends, and the records are as they were.
LEMMA CallMove ==
    ASSUME StoreInv, UNCHANGED <<records, connectorOwner>>, NEW p \in Procs,
           NEW call \in Store!Call, calls' = [calls EXCEPT ![p] = call],
           call.at \in {"claim", "own"} =>
               call.at = "claim" /\ Store!IdFree(call.request.id)
               /\ (call.fresh => records[call.request.id] = None)
    PROVE  StoreStep
<1>1. calls' \in [Procs -> Store!Call] /\ calls'[p] = call /\ \A q \in Procs \ {p} : calls'[q] = calls[q]
  BY DEF StoreInv
<1>2. StoreInv'
  BY <1>1 DEF StoreInv, Store!IdFree
<1>. QED  BY <1>2 DEF StoreStep

\* A record moves, and no call begins.
LEMMA OneRecord ==
    ASSUME StoreInv, NEW i \in Ids, NEW new \in Store!OperationRecord,
           records[i] = None \/ records[i].phase \in Undecided, Backs(execution[i], new.phase),
           new.phase \in Undecided \cup Ends,
           records' = [records EXCEPT ![i] = new], UNCHANGED connectorOwner,
           calls' \in [Procs -> Store!Call],
           \A p \in Procs : calls'[p] # calls[p] => calls'[p].at # "claim",
           \A p \in Procs : calls'[p].at \in {"claim", "own"} =>
               calls[p].at \in {"claim", "own"} /\ calls'[p].request = calls[p].request,
           \A p \in Procs : calls'[p].at = "claim" /\ calls'[p].fresh => calls'[p].request.id # i
    PROVE  StoreStep
<1>1. /\ records' \in [Ids -> Store!OperationRecord \cup {None}]
      /\ records'[i] = new /\ new # None
      /\ \A o \in Ids : o # i => records'[o] = records[o]
  BY ConnectorAssumption DEF StoreInv
<1>2. StoreInv'
  BY <1>1 DEF StoreInv
<1>. QED  BY <1>1, <1>2 DEF StoreStep

\* claim, and what is left of it.
LEMMA ClaimStep ==
    ASSUME StoreInv, NEW p \in Procs, NEW r \in Store!Requests, Store!Claim(p, r)
    PROVE  StoreStep
<1>. DEFINE call == [at |-> "claim", request |-> r, fresh |-> records[r.id] = None, instance |-> None]
<1>1. call \in Store!Call
  BY DEF Store!Call, Store!Requests
<1>2. calls' = [calls EXCEPT ![p] = call] /\ Store!IdFree(r.id) /\ UNCHANGED <<records, connectorOwner>>
  BY DEF Store!Claim
<1>3. call.at = "claim" /\ call.request = r /\ (call.fresh => records[r.id] = None)
  OBVIOUS
<1>. HIDE DEF call
<1>. QED  BY <1>1, <1>2, <1>3, CallMove

\* A call ends.
LEMMA IdleStep ==
    ASSUME StoreInv, UNCHANGED <<records, connectorOwner>>, NEW p \in Procs,
           calls' = [calls EXCEPT ![p] = Store!Idle]
    PROVE  StoreStep
<1>1. Store!Idle \in Store!Call /\ Store!Idle.at = "idle"
  BY DEF Store!Call
<1>. QED  BY <1>1, CallMove

\* A claim writes the record or the owner file.
LEMMA FinishClaimStep ==
    ASSUME StoreInv, NEW p \in Procs, Store!ClaimRecord(p) \/ Store!ClaimOwner(p)
    PROVE  StoreStep
<1>. DEFINE r == calls[p].request
            new == Store!Planned(r)
<1>1. CASE calls' = [calls EXCEPT ![p] = Store!Idle] /\ UNCHANGED <<records, connectorOwner>>
  BY <1>1, IdleStep
<1>2. CASE /\ calls[p].at = "claim" /\ calls[p].fresh
           /\ records' = [records EXCEPT ![r.id] = Store!Planned(r)]
           /\ calls' = [calls EXCEPT ![p].at = "own"]
           /\ UNCHANGED connectorOwner
  <2>1. calls[p] \in Store!Call /\ calls[p].at # "idle"
    BY <1>2 DEF StoreInv
  <2>2. /\ r \in Store!Identity /\ r.id \in Ids
        /\ [calls[p] EXCEPT !.at = "own"] \in Store!Call
    BY <2>1 DEF Store!Call, Store!Identity
  <2>3. /\ new \in Store!OperationRecord /\ new.phase = "Planned"
        /\ new.phase \in Undecided /\ Backs(execution[r.id], new.phase)
    BY <2>2 DEF Store!Planned, Store!OperationRecord, Store!OperationPhases, Store!ForwardPhases,
                Undecided, Backs, Needs
  <2>4. records[r.id] = None
    BY <1>2 DEF StoreInv
  <2>5. /\ calls' \in [Procs -> Store!Call]
        /\ calls'[p].at = "own" /\ calls'[p].request = r
        /\ \A q \in Procs \ {p} : calls'[q] = calls[q]
    BY <1>2, <2>1, <2>2 DEF StoreInv, Store!Call
  <2>6. \A q \in Procs \ {p} : calls[q].at = "claim" => calls[q].request.id # r.id
    BY <1>2 DEF StoreInv
  <2>7. records' = [records EXCEPT ![r.id] = new]
    BY <1>2
  <2>. HIDE DEF new
  <2>8. \A q \in Procs : calls'[q] # calls[q] => calls'[q].at # "claim"
    BY <2>5
  <2>9. \A q \in Procs : calls'[q].at \in {"claim", "own"} =>
            calls[q].at \in {"claim", "own"} /\ calls'[q].request = calls[q].request
    BY <1>2, <2>5
  <2>10. \A q \in Procs : calls'[q].at = "claim" /\ calls'[q].fresh => calls'[q].request.id # r.id
    BY <2>5, <2>6
  <2>. HIDE DEF r
  <2>. QED  BY <1>2, <2>2, <2>3, <2>4, <2>5, <2>7, <2>8, <2>9, <2>10, OneRecord
<1>. QED  BY <1>1, <1>2 DEF Store!ClaimRecord, Store!ClaimOwner

\* claim_connector takes an instance from an operation that is over.
LEMMA ClaimConnectorStep ==
    ASSUME StoreInv, NEW p \in Procs, NEW i \in Ids, NEW c \in Instances,
           Store!ClaimConnector(p, i, c)
    PROVE  StoreStep
<1>. DEFINE r == records[i].identity
            call == [at |-> "handoff", request |-> r, fresh |-> FALSE, instance |-> c]
<1>1. records[i] # None /\ records[i] \in Store!OperationRecord /\ r \in Store!Identity
  BY DEF StoreInv, Store!ClaimConnector, Store!Current, Store!OperationRecord
<1>2. call \in Store!Call /\ call.at = "handoff"
  BY <1>1 DEF Store!Call
<1>3. /\ UNCHANGED records /\ calls' = [calls EXCEPT ![p] = call]
      /\ \/ UNCHANGED connectorOwner
         \/ /\ connectorOwner' = [connectorOwner EXCEPT ![c] = i]
            /\ connectorOwner[c] = None \/ Store!PriorIsOver(r, c)
  BY DEF Store!ClaimConnector
<1>. HIDE DEF call
<1>4. /\ calls' \in [Procs -> Store!Call] /\ calls'[p].at = "handoff"
      /\ \A q \in Procs \ {p} : calls'[q] = calls[q]
  BY <1>2, <1>3 DEF StoreInv
<1>5. /\ connectorOwner' \in [Instances -> Ids \cup {None}]
      /\ \A d \in Instances : connectorOwner'[d] = connectorOwner[d] \/ (d = c /\ connectorOwner'[d] = i)
  BY <1>3 DEF StoreInv
<1>6. StoreInv'
  BY <1>1, <1>3, <1>4, <1>5 DEF StoreInv
<1>7. Store!PriorIsOver(r, c) /\ connectorOwner[c] # None => Over(connectorOwner[c])
  <2>1. connectorOwner[c] # None => /\ records[connectorOwner[c]] # None
                                    /\ records[connectorOwner[c]].phase \in Undecided \cup Ends
    BY DEF StoreInv
  <2>. QED  BY <2>1 DEF Store!PriorIsOver, Over, Ends, Undecided, Store!ForwardPhases
<1>. QED  BY <1>3, <1>5, <1>6, <1>7 DEF StoreStep

\* An operation moves to a phase that its execution record backs.
LEMMA OperationStep ==
    ASSUME StoreInv, NEW i \in Ids, Store!Current(i), records[i].phase \in Undecided,
           NEW phase \in Undecided \cup Ends, Store!Record(i, phase, phase),
           Backs(execution[i], phase)
    PROVE  StoreStep
<1>. DEFINE new == [identity |-> records[i].identity, phase |-> phase, proven |-> phase]
<1>1. records[i] \in Store!OperationRecord
  BY DEF StoreInv, Store!Current
<1>2. new \in Store!OperationRecord /\ new.phase = phase
  BY <1>1 DEF Store!OperationRecord, Undecided, Ends, Store!OperationPhases
<1>3. records' = [records EXCEPT ![i] = new] /\ UNCHANGED <<connectorOwner, calls>>
  BY DEF Store!Record
<1>. HIDE DEF new
<1>4. calls' \in [Procs -> Store!Call]
  BY <1>3 DEF StoreInv
<1>5. \A p \in Procs : calls'[p].at = "claim" /\ calls'[p].fresh => calls'[p].request.id # i
  BY <1>3 DEF StoreInv, Store!Current
<1>. QED  BY <1>2, <1>3, <1>4, <1>5, OneRecord

-----------------------------------------------------------------------------
(* Tasks.                                                                  *)

\* advance_to aims at most at its target.
LEMMA AheadTasks ==
    ASSUME NEW j, NEW phase, NEW target \in Tasks(phase)
    PROVE  Ahead(j, target) \in Seq(Tasks(phase))
BY EmptySeq DEF Ahead

\* What a phase is projected to may be done when the record says at least that.
LEMMA ProjectionTasks ==
    ASSUME NEW j, NEW q \in Phases, NEW phase \in Phases, Rank[q] <= Rank[phase],
           q = "ExpiredUnclaimed" => phase = "ExpiredUnclaimed"
    PROVE  Projection(j, q) \in Seq(Tasks(phase))
<1>. DEFINE T == Tasks(phase)
<1>1. Rank[phase] \in 0..4 /\ Rank[q] \in 0..4
  BY Ranks
<1>2. /\ q = "Prepared" => "ObserveHandoff" \in T /\ "ConfigsWritten" \in T
      /\ q = "Started" => "ServicesConverged" \in T
      /\ q = "Running" => "ReadinessVerified" \in T
      /\ q = "Finalized" => "ReleaseClaim" \in T /\ "Completed" \in T
      /\ q = "ExpiredUnclaimed" => "ExpireClaim" \in T /\ "ExpireOperation" \in T
  BY <1>1 DEF Tasks, Rank, Needs
<1>3. /\ q = "Prepared" => <<"ObserveHandoff">> \in Seq(T) /\ Ahead(j, "ConfigsWritten") \in Seq(T)
      /\ q = "Started" => Ahead(j, "ServicesConverged") \in Seq(T)
      /\ q = "Running" => Ahead(j, "ReadinessVerified") \in Seq(T)
      /\ q = "Finalized" => <<"ReleaseClaim">> \in Seq(T) /\ Ahead(j, "Completed") \in Seq(T)
      /\ q = "ExpiredUnclaimed" => <<"ExpireClaim", "ExpireOperation">> \in Seq(T)
      /\ <<>> \in Seq(T)
  BY <1>2, AheadTasks, EmptySeq
<1>. HIDE DEF T
<1>4. \A s, t \in Seq(T) : s \o t \in Seq(T)
  BY ConcatProperties
<1>. QED  BY <1>3, <1>4 DEF Projection, Phases, T

\* converge_deployment_projection does what the record allows.
LEMMA ConvergeTasks ==
    ASSUME NEW j, NEW phase \in Phases
    PROVE  Converge(j, phase) \in Seq(Tasks(phase))
<1>. DEFINE upTo(q) == IF Rank[phase] >= Rank[q] THEN Projection(j, q) ELSE <<>>
<1>1. \A q \in {"Prepared", "Started", "Running", "Finalized"} : upTo(q) \in Seq(Tasks(phase))
  <2>. SUFFICES ASSUME NEW q \in {"Prepared", "Started", "Running", "Finalized"}
                PROVE  upTo(q) \in Seq(Tasks(phase))
    OBVIOUS
  <2>1. q \in Phases /\ Rank[q] \in 0..4 /\ Rank[phase] \in 0..4
    BY Ranks DEF Phases
  <2>. QED  BY <2>1, ProjectionTasks, EmptySeq
<1>2. Converge(j, phase) = upTo("Prepared") \o upTo("Started") \o upTo("Running") \o upTo("Finalized")
  BY DEF Converge
<1>. HIDE DEF upTo
<1>3. \A s, t \in Seq(Tasks(phase)) : s \o t \in Seq(Tasks(phase))
  BY ConcatProperties
<1>. QED  BY <1>1, <1>2, <1>3

\* A run goes on with what the record of its operation allows.
LEMMA ContinuedIs ==
    ASSUME NEW j, Job(j), NEW e \in Execution, NEW tasks \in Seq(Tasks(e.phase)),
           NEW next, next = Continued(j, tasks, e.phase), next # None, execution'[j.op] = e
    PROVE  Job(next) /\ next.op = j.op /\ Knows(next)'
<1>. DEFINE point == IF tasks # <<>> THEN "project" ELSE NextPoint(j, e.phase)
<1>1. /\ next = [j EXCEPT !.todo = tasks, !.result = None, !.at = point]
      /\ point # "end"
  BY DEF Continued
<1>2. /\ point = "project" => tasks # <<>>
      /\ point = "ask" => e.phase \in {"Claimed", "Running"}
      /\ point = "prove" => e.phase = "Claimed"
      /\ point = "start" => e.phase = "Prepared"
      /\ point = "observe" => e.phase = "Started"
      /\ point \in {"project", "ask", "prove", "start", "observe"}
  BY <1>1 DEF NextPoint
<1>. HIDE DEF point
<1>3. /\ Job(next) /\ next.op = j.op /\ next.todo = tasks /\ next.at = point
  BY <1>1 DEF Job
<1>4. e # None
  BY Ranks
<1>. QED  BY <1>2, <1>3, <1>4 DEF Knows

-----------------------------------------------------------------------------
(* The steps, before the lease.                                            *)

\* What a run is.
LEMMA Reads ==
    ASSUME Inv, NEW p \in Procs, jobs[p] # None
    PROVE  Job(jobs[p]) /\ Knows(jobs[p]) /\ jobs[p].op \in Ids /\ jobs[p].instance \in Instances
BY DEF Inv, Typed, Job

\* A step that only a run sees.
LEMMA ChangeRests ==
    ASSUME Inv, UNCHANGED <<storeVars, execution, host>>
    PROVE  Change
BY StoreRests DEF Inv, Change

\* A run takes a step and does not hold the lease.
LEMMA Unleased ==
    ASSUME Inv, Change, NEW p \in Procs, NEW next, jobs' = [jobs EXCEPT ![p] = next],
           next # None => Job(next) /\ next.at \notin Leased, UNCHANGED execution,
           late' \subseteq Message, \A m \in late' : m \in late \/ Addressed(m)
    PROVE  Inv'
<1>1. next # None => Knows(next)'
  BY DEF Knows, Leased
<1>. QED  BY <1>1, JobMove

\* Late requests are requests.
LEMMA LateIs == Inv => late \subseteq Message
BY DEF Inv, Typed

\* The steps up to the check of the artifacts.
LEMMA EarlyStep ==
    ASSUME Inv, NEW p \in Procs,
           \/ \E r \in Store!Requests : Claim(p, r)
           \/ FinishClaim(p)
           \/ \E i \in Ids, c \in Instances : Begin(p, i, c)
           \/ ClaimInstance(p)
           \/ ConvergeInstance(p)
    PROVE  Inv' /\ Change
<1>0. StoreInv /\ late \subseteq Message
  BY LateIs DEF Inv
<1>1. CASE (\E r \in Store!Requests : Claim(p, r)) \/ FinishClaim(p)
  <2>1. StoreStep /\ UNCHANGED <<execution, host, late, jobs>>
    BY <1>0, <1>1, ClaimStep, FinishClaimStep DEF Claim, FinishClaim, hostVars
  <2>2. Change
    BY <2>1 DEF Change
  <2>. QED  BY <2>1, <2>2, JobsRest
<1>2. ASSUME NEW i \in Ids, NEW c \in Instances, Begin(p, i, c)
      PROVE  Inv' /\ Change
  <2>1. PICK next : next = [op |-> i, instance |-> c, at |-> "claim",
                            seen |-> records[i].phase, claim |-> None,
                            expired |-> i \in expired, todo |-> <<>>, result |-> None]
    OBVIOUS
  <2>2. jobs' = [jobs EXCEPT ![p] = next] /\ UNCHANGED <<storeVars, execution, host, late>>
    BY <1>2, <2>1 DEF Begin, hostVars
  <2>3. Job(next) /\ next.at \notin Leased
    BY <2>1 DEF Job, Leased
  <2>. QED  BY <1>0, <2>2, <2>3, ChangeRests, Unleased
<1>3. CASE ClaimInstance(p)
  <2>1. /\ jobs[p] # None /\ Store!ClaimConnector(p, jobs[p].op, jobs[p].instance)
        /\ jobs' = [jobs EXCEPT ![p].at = "converge"] /\ UNCHANGED <<execution, host, late>>
    BY <1>3 DEF ClaimInstance, At, Goto, hostVars
  <2>2. StoreStep
    BY <1>0, <2>1, Reads, ClaimConnectorStep
  <2>3. PICK next : next = [jobs[p] EXCEPT !.at = "converge"]
    OBVIOUS
  <2>4. jobs' = [jobs EXCEPT ![p] = next] /\ Job(next) /\ next.at \notin Leased
    BY <2>1, <2>3, Reads DEF Inv, Typed, Job, Leased
  <2>5. Change
    BY <2>1, <2>2 DEF Change
  <2>. QED  BY <1>0, <2>1, <2>4, <2>5, Unleased
<1>4. CASE ConvergeInstance(p)
  <2>1. /\ jobs[p] # None /\ Store!ConvergeClaim(p) /\ UNCHANGED <<execution, host, late>>
        /\ jobs' = [jobs EXCEPT ![p].at = "verify", ![p].claim = claims'[jobs[p].instance][jobs[p].op]]
    BY <1>4 DEF ConvergeInstance, At, hostVars
  <2>2. StoreStep
    BY <1>0, <2>1, IdleStep DEF Store!ConvergeClaim
  <2>3. PICK next : next = [jobs[p] EXCEPT !.at = "verify", !.claim = claims'[jobs[p].instance][jobs[p].op]]
    OBVIOUS
  <2>4. Job(jobs[p])
    BY <2>1, Reads
  <2>5. Job(next) /\ next.at \notin Leased
    BY <2>3, <2>4 DEF Job, Leased
  <2>6. jobs' = [jobs EXCEPT ![p] = next]
    BY <2>1, <2>3
  <2>7. Change
    BY <2>1, <2>2 DEF Change
  <2>. QED  BY <1>0, <2>1, <2>5, <2>6, <2>7, Unleased
<1>. QED  BY <1>1, <1>2, <1>3, <1>4

\* advance, to a phase that the execution record backs.
LEMMA AdvanceStep ==
    ASSUME StoreInv, NEW i \in Ids, Store!Advance(i), Backs(execution[i], records'[i].phase)
    PROVE  StoreStep
<1>1. PICK phase : phase = Store!Successor(records[i].identity)[records[i].phase]
  OBVIOUS
<1>2. Store!Current(i) /\ records[i].phase \in Undecided /\ Store!Record(i, phase, phase)
  BY <1>1 DEF Store!Advance, Undecided
<1>3. phase \in Undecided \cup Ends
  BY <1>1, <1>2 DEF Store!Successor, Undecided, Ends, Store!ForwardPhases
<1>4. records'[i].phase = phase
  BY <1>2 DEF Store!Record, StoreInv
<1>. QED  BY <1>2, <1>3, <1>4, OperationStep

\* A phase before the target has its successor not beyond the target.
LEMMA SuccessorNeeds ==
    ASSUME NEW r, NEW q \in Store!ForwardPhases, q \in DOMAIN ConnectorRank,
           NEW target \in {"ArtifactsVerified"} \cup DOMAIN Needs,
           ~Reached(q, target), NEW phase, phase = Store!Successor(r)[q]
    PROVE  /\ phase \in DOMAIN Needs => target \in DOMAIN Needs /\ Needs[phase] <= Needs[target]
           /\ phase # "ExpiredUnclaimed"
<1>1. /\ q \in {"Planned", "Claimed", "HostBound"} => phase \notin DOMAIN Needs
      /\ q = "ArtifactsVerified" => phase = "MaterialPrepared"
      /\ q = "MaterialPrepared" => phase = "ConfigsWritten"
      /\ q = "ConfigsWritten" => phase \in {"MigrationApplied", "ServicesConverged"}
      /\ q = "ServicesConverged" => phase = "ReadinessVerified"
      /\ q = "ReadinessVerified" => phase = "Completed"
      /\ phase # "ExpiredUnclaimed"
  BY DEF Store!Successor, Store!ForwardPhases, Needs
<1>2. q # "MigrationApplied" /\ ConnectorRank[q] < ConnectorRank[target]
  BY DEF Reached, ConnectorRank, Needs
<1>. QED  BY <1>1, <1>2 DEF Store!ForwardPhases, ConnectorRank, Needs

\* The phase that an advance leads to is not beyond the one that is aimed at.
LEMMA AdvanceIs ==
    ASSUME Inv, NEW p \in Procs, jobs[p] # None, AdvanceSeen(p), NEW target,
           target \in {"ArtifactsVerified"} \cup DOMAIN Needs, ~Reached(jobs[p].seen, target),
           target \in DOMAIN Needs => Backs(execution[jobs[p].op], target)
    PROVE  StoreStep
<1>. DEFINE i == jobs[p].op
            r == records[i].identity
            phase == Store!Successor(r)[records[i].phase]
<1>1. /\ i \in Ids /\ records[i] # None /\ Store!Advance(i)
      /\ records[i].phase = jobs[p].seen /\ jobs[p].seen \in DOMAIN ConnectorRank
  BY Reads DEF AdvanceSeen, Store!Advance, Store!Current
<1>2. records'[i].phase = phase
  BY <1>1 DEF Store!Advance, Store!Record, Inv, StoreInv
<1>3. /\ records[i].phase \in Store!ForwardPhases /\ records[i].phase \in DOMAIN ConnectorRank
      /\ ~Reached(records[i].phase, target)
  BY <1>1 DEF Store!Advance
<1>4. phase \in DOMAIN Needs => target \in DOMAIN Needs /\ Needs[phase] <= Needs[target]
  BY <1>3, SuccessorNeeds
<1>5. phase # "ExpiredUnclaimed"
  BY <1>3, SuccessorNeeds
<1>. HIDE DEF phase
<1>6. phase \in DOMAIN Needs => /\ execution[i] # None /\ Rank[execution[i].phase] \in 0..4
                                /\ Needs[phase] \in 0..4 /\ Needs[target] \in 0..4
                                /\ Rank[execution[i].phase] >= Needs[target]
  BY <1>1, <1>4, Ranks DEF Backs, Needs, Inv, Typed, Execution
<1>7. Backs(execution[i], phase)
  BY <1>4, <1>5, <1>6 DEF Backs
<1>. QED  BY <1>1, <1>2, <1>7, AdvanceStep DEF Inv

\* advance_to ArtifactsVerified.
LEMMA VerifyStep ==
    ASSUME Inv, NEW p \in Procs, VerifyArtifacts(p)
    PROVE  Inv' /\ Change
<1>1. /\ jobs[p] # None /\ jobs[p].at = "verify" /\ ~Reached(jobs[p].seen, "ArtifactsVerified")
      /\ AdvanceSeen(p) /\ UNCHANGED <<execution, host, late>>
      /\ jobs' = [jobs EXCEPT ![p].seen = records'[jobs[p].op].phase]
  BY DEF VerifyArtifacts, At, hostVars
<1>2. StoreStep
  BY <1>1, AdvanceIs DEF Needs
<1>2a. Change
  BY <1>1, <1>2 DEF Change
<1>3. PICK next : next = [jobs[p] EXCEPT !.seen = records'[jobs[p].op].phase]
  OBVIOUS
<1>4. jobs' = [jobs EXCEPT ![p] = next] /\ Job(next) /\ next.at \notin Leased
  BY <1>1, <1>3, Reads DEF Inv, Typed, Job, Leased
<1>. QED  BY <1>1, <1>2a, <1>4, LateIs, Unleased

-----------------------------------------------------------------------------
(* The steps under the lease.                                              *)

\* What the invariant says of a record.
LEMMA RecordOf ==
    ASSUME Inv, NEW i \in Ids, execution[i] # None
    PROVE  /\ execution[i] \in Execution /\ execution[i].key \in Keys /\ execution[i].phase \in Phases
           /\ host[i][execution[i].key] \in Phases
           /\ Says(execution[i].phase, host[i][execution[i].key])
BY DEF Inv, Typed, Execution, RecordFollowsHost, Says

\* A run takes a step under its lease.
LEMMA LeasedMove ==
    ASSUME Inv, Change, NEW p \in Procs, Holds(p), NEW next, jobs' = [jobs EXCEPT ![p] = next],
           next # None => Job(next) /\ next.op = jobs[p].op /\ Knows(next)',
           UNCHANGED late, \A i \in Ids : execution'[i] # execution[i] => jobs[p].op = i
    PROVE  Inv'
BY JobMove, LateIs

\* A run that takes the lease knows what the record says.
LEMMA LeaseStep ==
    ASSUME Inv, NEW p \in Procs, Lease(p)
    PROVE  Inv' /\ Change
<1>1. PICK j : j = jobs[p]
  OBVIOUS
<1>2. PICK e : e = execution[j.op]
  OBVIOUS
<1>3. j # None /\ j.at = "verify" /\ LeaseFree(j.op) /\ UNCHANGED <<storeVars, execution, host, late>>
  BY <1>1 DEF Lease, At, hostVars
<1>4. Job(j) /\ j.op \in Ids /\ Change
  BY <1>1, <1>3, Reads, ChangeRests
<1>5. CASE e = None /\ Goto(p, "snapshot")
  <2>1. PICK next : next = [j EXCEPT !.at = "snapshot"]
    OBVIOUS
  <2>2. jobs' = [jobs EXCEPT ![p] = next]
    BY <1>1, <1>5, <2>1 DEF Goto
  <2>3. /\ Job(next) /\ next.at = "snapshot" /\ next.op = j.op /\ next.instance = j.instance
    BY <1>4, <2>1 DEF Job
  <2>4. connectorOwner[j.instance] = j.op
    BY <1>1 DEF Lease
  <2>5. Knows(next)'
    BY <1>2, <1>3, <1>5, <2>3, <2>4 DEF Knows, storeVars
  <2>. QED  BY <1>3, <1>4, <2>2, <2>3, <2>5, LateIs, JobMove
<1>6. CASE /\ e # None
           /\ jobs' = [jobs EXCEPT ![p] =
                 Continued(j, IF e.phase = "ExpiredUnclaimed" THEN ExpiredTasks(p)
                              ELSE Converge(j, e.phase), e.phase)]
  <2>1. e \in Execution /\ e.phase \in Phases
    BY <1>2, <1>4, <1>6, RecordOf
  <2>2. PICK tasks : tasks = IF e.phase = "ExpiredUnclaimed" THEN ExpiredTasks(p) ELSE Converge(j, e.phase)
    OBVIOUS
  <2>3. tasks \in Seq(Tasks(e.phase))
    <3>1. CASE e.phase = "ExpiredUnclaimed"
      <4>1. "ExpireOperation" \in Tasks(e.phase)
        BY <3>1 DEF Tasks, Needs
      <4>2. <<"ExpireOperation">> \in Seq(Tasks(e.phase))
        BY <4>1
      <4>3. Projection(j, "ExpiredUnclaimed") \in Seq(Tasks(e.phase))
        BY <2>1, <3>1, ProjectionTasks, Ranks DEF Says
      <4>. QED  BY <1>1, <2>2, <3>1, <4>2, <4>3 DEF ExpiredTasks
    <3>2. CASE e.phase # "ExpiredUnclaimed"
      BY <2>1, <2>2, <3>2, ConvergeTasks
    <3>. QED  BY <3>1, <3>2
  <2>5. PICK next : next = Continued(j, tasks, e.phase)
    OBVIOUS
  <2>6. jobs' = [jobs EXCEPT ![p] = next]
    BY <1>6, <2>2, <2>5
  <2>7. next # None => Job(next) /\ next.op = j.op /\ Knows(next)'
    <3>1. execution'[j.op] = e
      BY <1>2, <1>3
    <3>. QED  BY <1>4, <2>1, <2>3, <2>5, <3>1, ContinuedIs
  <2>. QED  BY <1>3, <1>4, <2>6, <2>7, LateIs, JobMove
<1>. QED  BY <1>1, <1>2, <1>5, <1>6 DEF Lease

\* A record is drawn while its instance belongs to its operation.
LEMMA SnapshotStep ==
    ASSUME Inv, NEW p \in Procs, Snapshot(p)
    PROVE  Inv' /\ Change
<1>1. PICK j : j = jobs[p]
  OBVIOUS
<1>2. PICK k \in Keys : /\ host[j.op][k] = "Absent"
                        /\ execution' = [execution EXCEPT ![j.op] = NewRecord(j.instance, k)]
  BY <1>1 DEF Snapshot
<1>3. PICK f : f = NewRecord(j.instance, k)
  OBVIOUS
<1>4. /\ j # None /\ j.at = "snapshot" /\ UNCHANGED <<storeVars, host, late>>
      /\ jobs' = [jobs EXCEPT ![p] = Continued(j, <<>>, "Claimed")]
  BY <1>1 DEF Snapshot, At, hostVars
<1>5. Job(j) /\ Knows(j) /\ j.op \in Ids /\ j.instance \in Instances /\ Holds(p)
  BY <1>1, <1>4, Reads DEF Holds, Leased
<1>6. execution[j.op] = None /\ connectorOwner[j.instance] = j.op
  BY <1>4, <1>5 DEF Knows
<1>7. f \in Execution /\ f.phase = "Claimed" /\ f.key = k /\ f.instance = j.instance
  BY <1>3, <1>5 DEF NewRecord, Execution, Phases
<1>8. execution' = [execution EXCEPT ![j.op] = f]
  BY <1>2, <1>3
<1>9. Says(f.phase, host[j.op][f.key])
  BY <1>2, <1>7 DEF Says, Rank
<1>10. Change
  <2>1. RecordStep
    BY <1>5, <1>6, <1>7, <1>8, <1>9 DEF RecordStep
  <2>. QED  BY <1>4, <2>1 DEF Change
<1>11. execution'[j.op] = f /\ \A i \in Ids : execution'[i] # execution[i] => j.op = i
  BY <1>5, <1>8 DEF Inv, Typed
<1>12. PICK next : next = Continued(j, <<>>, f.phase)
  OBVIOUS
<1>13. <<>> \in Seq(Tasks(f.phase))
  BY EmptySeq
<1>14. next # None => Job(next) /\ next.op = j.op /\ Knows(next)'
  BY <1>5, <1>7, <1>11, <1>12, <1>13, ContinuedIs
<1>15. jobs' = [jobs EXCEPT ![p] = next]
  BY <1>4, <1>7, <1>12
<1>. QED  BY <1>1, <1>4, <1>5, <1>10, <1>11, <1>14, <1>15, LeasedMove

\* The next task is done when the store has moved.
LEMMA DoneStep ==
    ASSUME Inv, NEW p \in Procs, NEW j, j = jobs[p], At(p, "project"), StoreStep,
           UNCHANGED <<execution, host, late>>,
           NEW tasks, tasks \in {j.todo, Tail(j.todo)}, NEW seen,
           jobs' = [jobs EXCEPT ![p] = Continued([j EXCEPT !.seen = seen], tasks, execution[j.op].phase)]
    PROVE  Inv' /\ Change
<1>1. Job(j) /\ Knows(j) /\ j.op \in Ids /\ Holds(p) /\ j.at = "project"
  BY Reads DEF At, Holds, Leased
<1>2. PICK e : e = execution[j.op]
  OBVIOUS
<1>3. e \in Execution
  BY <1>1, <1>2, RecordOf DEF Knows, Leased
<1>4. tasks \in Seq(Tasks(e.phase))
  <2>1. j.todo \in Seq(Tasks(e.phase)) /\ j.todo # <<>>
    BY <1>1, <1>2 DEF Knows, Leased
  <2>. QED  BY <2>1, HeadTailProperties
<1>5. PICK k : k = [j EXCEPT !.seen = seen]
  OBVIOUS
<1>6. Job(k) /\ k.op = j.op
  BY <1>1, <1>5 DEF Job
<1>7. PICK next : next = Continued(k, tasks, e.phase)
  OBVIOUS
<1>8. jobs' = [jobs EXCEPT ![p] = next]
  BY <1>2, <1>5, <1>7
<1>9. execution'[k.op] = e
  BY <1>2, <1>6
<1>10. next # None => Job(next) /\ next.op = k.op /\ Knows(next)'
  BY <1>3, <1>4, <1>6, <1>7, <1>9, ContinuedIs
<1>11. Change
  BY DEF Change
<1>. QED  BY <1>1, <1>6, <1>8, <1>10, <1>11, LeasedMove

\* A run that advances nothing has seen what it saw.
LEMMA SameSeen == ASSUME NEW j, Job(j) PROVE [j EXCEPT !.seen = j.seen] = j
BY DEF Job

\* A task on the store is backed by the record it comes from.
LEMMA ProjectStep ==
    ASSUME Inv, NEW p \in Procs, Project(p)
    PROVE  Inv' /\ Change
<1>1. PICK j : j = jobs[p]
  OBVIOUS
<1>2. /\ At(p, "project") /\ UNCHANGED <<execution, host, late>>
      /\ j # None /\ Job(j) /\ Knows(j) /\ j.op \in Ids /\ j.instance \in Instances /\ j.at = "project"
  BY <1>1, Reads DEF Project, At, hostVars
<1>3. PICK e : e = execution[j.op]
  OBVIOUS
<1>4. e \in Execution /\ Head(j.todo) \in Tasks(e.phase)
  BY <1>2, <1>3, RecordOf, HeadTailProperties DEF Knows, Leased
<1>5. StoreInv
  BY DEF Inv
<1>6. CASE Done(p) /\ StoreStep
  BY <1>1, <1>2, <1>6, DoneStep, SameSeen DEF Done
<1>7. CASE ClaimTask(p)
  <2>1. UNCHANGED <<records, connectorOwner, calls>>
    BY <1>7 DEF ClaimTask, Store!ObserveHandoff, Store!ReleaseClaim, Store!ExpireClaim,
                Store!MoveClaim, storeVars
  <2>2. StoreStep
    BY <1>5, <2>1 DEF StoreInv, StoreStep
  <2>. QED  BY <1>6, <1>7, <2>2 DEF ClaimTask
<1>8. CASE AdvanceTask(p)
  <2>1. PICK seen : seen = records'[j.op].phase
    OBVIOUS
  <2>2. PICK tasks : tasks = IF seen = Head(j.todo) THEN Tail(j.todo) ELSE j.todo
    OBVIOUS
  <2>3. /\ Head(j.todo) \in DOMAIN ConnectorRank /\ ~Reached(j.seen, Head(j.todo)) /\ AdvanceSeen(p)
        /\ jobs' = [jobs EXCEPT ![p] = Continued([j EXCEPT !.seen = seen], tasks, execution[j.op].phase)]
    BY <1>1, <1>8, <2>1, <2>2 DEF AdvanceTask
  <2>4. Head(j.todo) \in DOMAIN Needs
    BY <1>4, <2>3 DEF Tasks, Needs, ConnectorRank
  <2>5. Backs(e, Head(j.todo))
    BY <1>4, <2>4, Ranks DEF Tasks, Backs, Needs
  <2>6. StoreStep
    BY <1>1, <1>2, <1>3, <2>3, <2>4, <2>5, AdvanceIs
  <2>. QED  BY <1>1, <1>2, <2>2, <2>3, <2>6, DoneStep
<1>9. CASE ExpireTask(p)
  <2>1. CASE UNCHANGED storeVars
    BY <1>5, <1>6, <1>9, <2>1, StoreRests DEF ExpireTask
  <2>2. CASE Store!ExpireOperation(j.op, j.instance)
    <3>1. Head(j.todo) = "ExpireOperation"
      BY <1>1, <1>9 DEF ExpireTask
    <3>2. Backs(execution[j.op], "ExpiredUnclaimed")
      BY <1>3, <1>4, <3>1, Ranks DEF Backs, Tasks, Needs
    <3>3. StoreStep
      BY <1>2, <1>5, <2>2, <3>2, OperationStep DEF Store!ExpireOperation, Undecided, Store!ForwardPhases, Ends
    <3>. QED  BY <1>6, <1>9, <3>3 DEF ExpireTask
  <2>. QED  BY <1>1, <1>9, <2>1, <2>2 DEF ExpireTask
<1>. QED  BY <1>7, <1>8, <1>9 DEF Project

-----------------------------------------------------------------------------
(* The steps of the Host, and of a run that asks it.                       *)

\* The Host handles a request that names the recorded key.
LEMMA HandlesStep ==
    ASSUME Inv, NEW m \in Message, Addressed(m), HostHandles(m), UNCHANGED <<storeVars, execution>>
    PROVE  Change /\ host'[m.op][m.key] = HostAnswer(m)
<1>1. m.op \in Ids /\ m.key \in Keys /\ host[m.op][m.key] \in Phases
  BY DEF Message, Inv, Typed
<1>2. PICK s : s = HostAnswer(m)
  OBVIOUS
<1>3. s \in Phases
  BY <1>1, <1>2 DEF HostAnswer, Phases
<1>4. \/ s = host[m.op][m.key]
      \/ /\ host[m.op][m.key] \in DOMAIN Bootstrap!NextEffects
         /\ s \in Bootstrap!NextEffects[host[m.op][m.key]]
  BY <1>2 DEF HostAnswer, Bootstrap!NextEffects
<1>5. host' = [host EXCEPT ![m.op][m.key] = s]
  BY <1>2 DEF HostHandles
<1>6. HostStep
  BY <1>1, <1>3, <1>4, <1>5 DEF HostStep, Addressed
<1>7. host'[m.op][m.key] = s
  BY <1>1, <1>5 DEF Inv, Typed
<1>. QED  BY <1>2, <1>6, <1>7 DEF Change

\* A run asks under the recorded key.
LEMMA RequestIs ==
    ASSUME Inv, NEW p \in Procs, Holds(p), execution[jobs[p].op] # None,
           NEW kind \in {"Prepare", "Start", "Finalize"}
    PROVE  LET m == Request(p, kind) IN
           /\ m \in Message /\ Addressed(m) /\ m.kind = kind
           /\ m.op = jobs[p].op /\ m.key = execution[jobs[p].op].key
BY Reads, RecordOf DEF Request, Message, Addressed, Holds

\* A run ends.
LEMMA EndStep ==
    ASSUME Inv, Change, NEW p \in Procs, jobs' = [jobs EXCEPT ![p] = None], UNCHANGED execution,
           late' \subseteq Message, \A m \in late' : m \in late \/ Addressed(m)
    PROVE  Inv'
<1>1. PICK next : next = None
  OBVIOUS
<1>. QED  BY <1>1, Unleased

\* A run has an answer that may be recorded.
LEMMA AnsweredStep ==
    ASSUME Inv, Change, NEW p \in Procs, Holds(p), NEW result \in Phases, Answered(p, result),
           execution[jobs[p].op] # None, Says(execution[jobs[p].op].phase, result),
           Says(result, host'[jobs[p].op][execution[jobs[p].op].key]), UNCHANGED <<execution, late>>
    PROVE  Inv'
<1>1. PICK j : j = jobs[p]
  OBVIOUS
<1>2. PICK next : next = [j EXCEPT !.at = "persist", !.result = result]
  OBVIOUS
<1>3. Job(j)
  BY <1>1, Reads DEF Holds
<1>4. Job(next) /\ next.op = j.op /\ next.at = "persist" /\ next.result = result
  BY <1>2, <1>3 DEF Job
<1>5. Knows(next)'
  BY <1>1, <1>4 DEF Knows
<1>6. jobs' = [jobs EXCEPT ![p] = next]
  BY <1>1, <1>2 DEF Answered
<1>. QED  BY <1>1, <1>4, <1>5, <1>6, LeasedMove

\* A run sees that it has to send the material.
LEMMA GotoStep ==
    ASSUME Inv, NEW p \in Procs, Holds(p), execution[jobs[p].op] # None,
           \/ execution[jobs[p].op].phase \in {"Claimed", "Running"} /\ Goto(p, "send")
           \/ execution[jobs[p].op].phase = "Claimed" /\ Goto(p, "present"),
           UNCHANGED <<storeVars, execution, host, late>>
    PROVE  Inv'
<1>1. PICK j : j = jobs[p]
  OBVIOUS
<1>2. PICK point : /\ \/ execution[j.op].phase \in {"Claimed", "Running"} /\ point = "send"
                      \/ execution[j.op].phase = "Claimed" /\ point = "present"
                   /\ Goto(p, point)
  BY <1>1
<1>3. PICK next : next = [j EXCEPT !.at = point]
  OBVIOUS
<1>4. Job(j)
  BY <1>1, Reads DEF Holds
<1>5. Job(next) /\ next.op = j.op /\ next.at = point
  BY <1>3, <1>4 DEF Job
<1>6. Knows(next)'
  BY <1>1, <1>2, <1>5 DEF Knows
<1>7. jobs' = [jobs EXCEPT ![p] = next]
  BY <1>1, <1>2, <1>3 DEF Goto
<1>. QED  BY <1>1, <1>5, <1>6, <1>7, ChangeRests, LeasedMove

\* A run asks and nothing is done.
LEMMA AskStep ==
    ASSUME Inv, NEW p \in Procs, Ask(p) \/ Prove(p) \/ Observe(p)
    PROVE  Inv' /\ Change
<1>1. /\ jobs[p] # None /\ jobs[p].at \in {"ask", "prove", "observe"}
      /\ UNCHANGED <<storeVars, execution, host, late>>
  BY DEF Ask, Prove, Observe, At, hostVars
<1>2. Holds(p) /\ Knows(jobs[p]) /\ jobs[p].op \in Ids
  BY <1>1, Reads DEF Holds, Leased
<1>. DEFINE e == execution[jobs[p].op]
<1>3. e # None
  BY <1>1, <1>2 DEF Knows, Leased
<1>4. /\ State(p) \in Phases /\ State(p) = host'[jobs[p].op][e.key]
      /\ Says(State(p), State(p)) /\ Says(e.phase, State(p))
  BY <1>1, <1>2, <1>3, RecordOf, Ranks DEF State
<1>5. Change
  BY <1>1, ChangeRests
<1>6. CASE Ask(p) \/ Prove(p)
  <2>1. /\ jobs[p].at = "ask" => e.phase \in {"Claimed", "Running"}
        /\ jobs[p].at = "prove" => e.phase = "Claimed"
    BY <1>2 DEF Knows
  <2>2. CASE Ask(p) /\ Answered(p, State(p))
    BY <1>1, <1>2, <1>3, <1>4, <1>5, <2>2, AnsweredStep
  <2>3. CASE Ask(p) /\ Goto(p, "send")
    <3>1. e.phase \in {"Claimed", "Running"}
      BY <2>1, <2>3 DEF Ask, At
    <3>. QED  BY <1>1, <1>2, <1>3, <1>5, <2>3, <3>1, GotoStep
  <2>4. CASE Prove(p)
    <3>1. e.phase = "Claimed" /\ Goto(p, "present")
      BY <2>1, <2>4 DEF Prove, At
    <3>. QED  BY <1>1, <1>2, <1>3, <1>5, <3>1, GotoStep
  <2>. QED  BY <1>6, <2>2, <2>3, <2>4 DEF Ask
<1>7. CASE Observe(p)
  <2>1. Answered(p, State(p))
    BY <1>7 DEF Observe
  <2>. QED  BY <1>1, <1>2, <1>3, <1>4, <1>5, <2>1, AnsweredStep
<1>. QED  BY <1>6, <1>7

\* A run sends a request that the Host acts on.
LEMMA SendStep ==
    ASSUME Inv, NEW p \in Procs, Send(p) \/ Present(p) \/ Start(p)
    PROVE  Inv' /\ Change
<1>. DEFINE e == execution[jobs[p].op]
<1>1. /\ jobs[p] # None /\ jobs[p].at \in {"send", "present", "start"}
      /\ UNCHANGED <<storeVars, execution, late>>
  BY DEF Send, Present, Start, At
<1>2. Holds(p) /\ Knows(jobs[p]) /\ jobs[p].op \in Ids
  BY <1>1, Reads DEF Holds, Leased
<1>3. /\ e # None
      /\ Send(p) => e.phase \in {"Claimed", "Running"}
      /\ Present(p) => e.phase = "Claimed"
      /\ Start(p) => e.phase = "Prepared"
  BY <1>1, <1>2 DEF Knows, Leased, Send, Present, Start, At
<1>4. PICK kind \in {"Prepare", "Start", "Finalize"} :
        /\ HostHandles(Request(p, kind))
        /\ Send(p) => kind = Kind(p)
        /\ Present(p) => kind = "Prepare"
        /\ Start(p) => kind = "Start"
  BY <1>3 DEF Send, Present, Start, Kind
<1>5. PICK m : m = Request(p, kind)
  OBVIOUS
<1>6. m \in Message /\ Addressed(m) /\ m.kind = kind /\ m.op = jobs[p].op /\ m.key = e.key
  BY <1>2, <1>3, <1>5, RequestIs
<1>7. Change /\ host'[m.op][m.key] = HostAnswer(m)
  BY <1>1, <1>4, <1>5, <1>6, HandlesStep
<1>8. HostAnswer(m) \in Phases
  BY <1>6, <1>7, Kept DEF Message
<1>9. late' \subseteq Message /\ \A n \in late' : n \in late
  BY <1>1, LateIs
<1>10. ASSUME NEW result \in Phases, Answered(p, result), Says(e.phase, result), Says(result, HostAnswer(m))
       PROVE  Inv'
  BY <1>1, <1>2, <1>3, <1>6, <1>7, <1>10, AnsweredStep
<1>11. CASE jobs' = [jobs EXCEPT ![p] = None]
  BY <1>1, <1>7, <1>9, <1>11, EndStep
<1>12. Says(HostAnswer(m), HostAnswer(m))
  BY <1>8, Ranks
<1>13. CASE Send(p) /\ HostAnswer(m) \in Accepted(p) /\ Answered(p, HostAnswer(m))
  <2>1. e.phase = "Running" => HostAnswer(m) = "Finalized"
    BY <1>13 DEF Accepted, Expected, Kind
  <2>2. Says(e.phase, HostAnswer(m))
    BY <1>3, <1>8, <1>13, <2>1, Ranks
  <2>. QED  BY <1>7, <1>8, <1>10, <1>12, <1>13, <2>2
<1>14. CASE Present(p) /\ HostAnswer(m) = "ExpiredUnclaimed" /\ Answered(p, HostAnswer(m))
  <2>1. Says(e.phase, HostAnswer(m))
    BY <1>3, <1>8, <1>14, Ranks
  <2>. QED  BY <1>7, <1>8, <1>10, <1>12, <1>14, <2>1
<1>15. CASE Start(p)
  <2>1. host[m.op][m.key] \in {"Prepared", "Started", "Running", "Finalized"}
    BY <1>2, <1>3, <1>6, <1>15, RecordOf, Ranks
  <2>2. HostAnswer(m) \in {"Started", "Running", "Finalized"}
    BY <1>4, <1>6, <1>15, <2>1 DEF HostAnswer
  <2>3. Says("Prepared", "Started") /\ Says("Started", HostAnswer(m)) /\ "Started" \in Phases
    BY <2>2, Ranks DEF Phases
  <2>. QED  BY <1>3, <1>7, <1>10, <1>15, <2>3 DEF Start
<1>16. /\ Send(p) => (HostAnswer(m) \in Accepted(p) /\ Answered(p, HostAnswer(m)))
                     \/ jobs' = [jobs EXCEPT ![p] = None]
       /\ Present(p) => (HostAnswer(m) = "ExpiredUnclaimed" /\ Answered(p, HostAnswer(m)))
                        \/ jobs' = [jobs EXCEPT ![p] = None]
  BY <1>4, <1>5 DEF Send, Present
<1>. QED  BY <1>7, <1>11, <1>13, <1>14, <1>15, <1>16

\* persist_record writes an answer that the Host still stands by.
LEMMA PersistStep ==
    ASSUME Inv, NEW p \in Procs, Persist(p)
    PROVE  Inv' /\ Change
<1>1. PICK j : j = jobs[p]
  OBVIOUS
<1>2. PICK e : e = execution[j.op]
  OBVIOUS
<1>3. /\ j # None /\ j.at = "persist" /\ UNCHANGED <<storeVars, host, late>>
      /\ execution' = [execution EXCEPT ![j.op].phase = j.result]
      /\ jobs' = [jobs EXCEPT ![p] = Continued(j, Projection(j, j.result), j.result)]
  BY <1>1 DEF Persist, At, hostVars
<1>4. Job(j) /\ Knows(j) /\ j.op \in Ids /\ Holds(p)
  BY <1>1, <1>3, Reads DEF Holds, Leased
<1>5. /\ e # None /\ j.result \in Phases /\ Says(e.phase, j.result) /\ Says(j.result, host[j.op][e.key])
  BY <1>2, <1>3, <1>4 DEF Knows, Leased
<1>6. e \in Execution
  BY <1>2, <1>4, <1>5, RecordOf
<1>7. PICK f : f = [e EXCEPT !.phase = j.result]
  OBVIOUS
<1>8. f \in Execution /\ f.key = e.key /\ f.instance = e.instance /\ f.phase = j.result
  BY <1>5, <1>6, <1>7 DEF Execution
<1>9. execution' = [execution EXCEPT ![j.op] = f]
  BY <1>2, <1>3, <1>7
<1>10. Change
  <2>1. RecordStep
    BY <1>2, <1>4, <1>5, <1>8, <1>9 DEF RecordStep
  <2>. QED  BY <1>3, <2>1 DEF Change
<1>11. execution'[j.op] = f /\ \A i \in Ids : execution'[i] # execution[i] => j.op = i
  BY <1>4, <1>9 DEF Inv, Typed
<1>12. PICK tasks : tasks = Projection(j, f.phase)
  OBVIOUS
<1>13. tasks \in Seq(Tasks(f.phase))
  BY <1>5, <1>8, <1>12, ProjectionTasks, Ranks
<1>14. PICK next : next = Continued(j, tasks, f.phase)
  OBVIOUS
<1>15. next # None => Job(next) /\ next.op = j.op /\ Knows(next)'
  BY <1>4, <1>8, <1>11, <1>13, <1>14, ContinuedIs
<1>16. jobs' = [jobs EXCEPT ![p] = next]
  BY <1>3, <1>8, <1>12, <1>14
<1>17. UNCHANGED late
  BY <1>3
<1>. QED  BY <1>1, <1>4, <1>10, <1>11, <1>15, <1>16, <1>17, LeasedMove

\* A run is killed, and its request may arrive later.
LEMMA StopStep ==
    ASSUME Inv, NEW p \in Procs, Stop(p)
    PROVE  Inv' /\ Change
<1>1. /\ calls' = [calls EXCEPT ![p] = Store!Idle] /\ jobs' = [jobs EXCEPT ![p] = None]
      /\ late' \in {late, late \cup Sent(p)}
      /\ UNCHANGED <<records, connectorOwner, execution, host>>
  BY DEF Stop
<1>2. StoreStep
  BY <1>1, IdleStep DEF Inv
<1>3. Change
  BY <1>1, <1>2 DEF Change
<1>4. \A m \in Sent(p) : m \in Message /\ Addressed(m)
  <2>. SUFFICES ASSUME jobs[p] # None, jobs[p].at \in {"send", "present", "start"}
                PROVE  \A m \in Sent(p) : m \in Message /\ Addressed(m)
    BY DEF Sent, At
  <2>1. Holds(p) /\ execution[jobs[p].op] # None
    BY Reads DEF Holds, Leased, Knows
  <2>2. \A m \in Sent(p) : \E kind \in {"Prepare", "Start", "Finalize"} : m = Request(p, kind)
    BY DEF Sent, Kind
  <2>. QED  BY <2>1, <2>2, RequestIs
<1>5. late' \subseteq Message /\ \A m \in late' : m \in late \/ Addressed(m)
  BY <1>1, <1>4, LateIs
<1>. QED  BY <1>1, <1>3, <1>5, EndStep

\* What happens beside the runs.
LEMMA HostRunsStep ==
    ASSUME Inv,
           \/ LateRequest
           \/ \E i \in Ids, k \in Keys : HostRuns(i, k)
           \/ \E i \in Ids : Expire(i)
    PROVE  Inv' /\ Change
<1>1. CASE LateRequest
  <2>1. PICK m \in late : HostHandles(m) /\ late' = late \ {m} /\ UNCHANGED <<storeVars, execution, jobs>>
    BY <1>1 DEF LateRequest
  <2>2. m \in Message /\ Addressed(m)
    BY LateIs DEF Inv
  <2>3. Change
    BY <2>1, <2>2, HandlesStep
  <2>. QED  BY <2>1, <2>3, JobsRest
<1>2. ASSUME NEW i \in Ids, NEW k \in Keys, HostRuns(i, k)
      PROVE  Inv' /\ Change
  <2>1. /\ host[i][k] = "Started" /\ host' = [host EXCEPT ![i][k] = "Running"]
        /\ UNCHANGED <<storeVars, execution, late, jobs>>
    BY <1>2 DEF HostRuns
  <2>2. execution[i] # None /\ execution[i].key = k
    BY <2>1 DEF Inv, RecordFollowsHost
  <2>3. HostStep
    <3>1. PICK s \in Phases : s = "Running"
      BY DEF Phases
    <3>2. /\ host' = [host EXCEPT ![i][k] = s] /\ host[i][k] \in DOMAIN Bootstrap!NextEffects
          /\ s \in Bootstrap!NextEffects[host[i][k]]
      BY <2>1, <3>1 DEF Bootstrap!NextEffects
    <3>. QED  BY <2>2, <3>2 DEF HostStep
  <2>4. Change
    BY <2>1, <2>3 DEF Change
  <2>. QED  BY <2>1, <2>4, JobsRest
<1>3. CASE \E i \in Ids : Expire(i)
  <2>1. UNCHANGED <<storeVars, execution, host, late, jobs>>
    BY <1>3 DEF Expire, hostVars
  <2>. QED  BY <2>1, ChangeRests, JobsRest
<1>. QED  BY <1>1, <1>2, <1>3

-----------------------------------------------------------------------------
(* The invariant.                                                          *)

\* Every step keeps the invariant and changes one thing.
LEMMA NextInv == Inv /\ [Next]_vars => Inv' /\ Change
<1>. SUFFICES ASSUME Inv, [Next]_vars PROVE Inv' /\ Change
  OBVIOUS
<1>1. CASE UNCHANGED vars
  <2>1. UNCHANGED <<storeVars, execution, host, late, jobs>>
    BY <1>1 DEF vars, hostVars
  <2>. QED  BY <2>1, ChangeRests, JobsRest
<1>2. ASSUME NEW p \in Procs, Step(p)
      PROVE  Inv' /\ Change
  BY <1>2, EarlyStep, VerifyStep, LeaseStep, SnapshotStep, ProjectStep, AskStep, SendStep,
     PersistStep DEF Step
<1>3. ASSUME NEW p \in Procs, NEW r \in Store!Requests, Claim(p, r)
      PROVE  Inv' /\ Change
  BY <1>3, EarlyStep
<1>4. ASSUME NEW p \in Procs, NEW i \in Ids, NEW c \in Instances, Begin(p, i, c)
      PROVE  Inv' /\ Change
  BY <1>4, EarlyStep
<1>5. ASSUME NEW i \in Ids, Expire(i) \/ \E k \in Keys : HostRuns(i, k)
      PROVE  Inv' /\ Change
  BY <1>5, HostRunsStep
<1>6. CASE LateRequest
  BY <1>6, HostRunsStep
<1>7. ASSUME NEW p \in Procs, Stop(p)
      PROVE  Inv' /\ Change
  BY <1>7, StopStep
<1>. QED  BY <1>1, <1>2, <1>3, <1>4, <1>5, <1>6, <1>7 DEF Next

\* Nothing is stored and nothing runs.
LEMMA InitInv == Init => Inv
<1>. SUFFICES ASSUME Init PROVE Inv
  OBVIOUS
<1>1. Typed
  BY DEF Init, Typed, Phases
<1>2. StoreInv
  BY DEF Init, StoreInv, Store!Call
<1>3. RecordFollowsHost /\ OperationFollowsRecord /\ Succession
  BY DEF Init, RecordFollowsHost, OperationFollowsRecord, Succession
<1>. QED  BY <1>1, <1>2, <1>3 DEF Inv, OneLease, Holds, Init

\* The invariant holds, for any number of processes, operations and instances.
THEOREM Safety == Spec => []Inv
<1>1. Inv /\ [Next]_vars => Inv'
  BY NextInv
<1>. QED  BY <1>1, InitInv, PTL DEF Spec

\* new_record, persist_record: the Host acts under the recorded key only, and
\* the record never says more than it did.
THEOREM HostIsFollowed == Spec => []RecordFollowsHost
<1>1. Inv => RecordFollowsHost
  BY DEF Inv
<1>. QED  BY <1>1, Safety, PTL

\* advance_to, expire_unclaimed_operation: a phase of an operation rests on its
\* execution record.
THEOREM OperationIsBacked == Spec => []OperationFollowsRecord
<1>1. Inv => OperationFollowsRecord
  BY DEF Inv
<1>. QED  BY <1>1, Safety, PTL

-----------------------------------------------------------------------------
(* The refinement.                                                         *)

\* What is seen from outside is what the record names.
SeenAs ==
    \A i \in Ids : Effect(i) = IF execution[i] = None THEN "Absent" ELSE host[i][execution[i].key]

\* What the Host did is what it did under the recorded key.
LEMMA EffectIs == Inv => SeenAs
<1>. SUFFICES ASSUME Inv, NEW i \in Ids
              PROVE  Effect(i) = IF execution[i] = None THEN "Absent" ELSE host[i][execution[i].key]
  BY DEF SeenAs
<1>1. \A k \in Keys : host[i][k] # "Absent" => execution[i] # None /\ execution[i].key = k
  BY DEF Inv, RecordFollowsHost
<1>2. execution[i] # None => execution[i].key \in Keys
  BY RecordOf
<1>3. CASE \E k \in Keys : host[i][k] # "Absent"
  <2>1. PICK k : k = CHOOSE q \in Keys : host[i][q] # "Absent"
    OBVIOUS
  <2>2. k \in Keys /\ host[i][k] # "Absent"
    BY <1>3, <2>1
  <2>3. execution[i] # None /\ execution[i].key = k
    BY <1>1, <2>2
  <2>. QED  BY <1>3, <2>1, <2>3 DEF Effect
<1>4. CASE ~\E k \in Keys : host[i][k] # "Absent"
  BY <1>2, <1>4 DEF Effect
<1>. QED  BY <1>3, <1>4

\* An operation is decided as the Host says.
DecidedAs ==
    \A i \in Ids : Verdict(i) # None =>
        execution[i] # None /\ Verdict(i) = Effect(i) /\ Effect(i) \in {"Finalized", "ExpiredUnclaimed"}

\* An operation that ended did so with the Host.
LEMMA VerdictIs == Inv => DecidedAs
<1>. SUFFICES ASSUME Inv, NEW i \in Ids, Verdict(i) # None
              PROVE  /\ execution[i] # None /\ Verdict(i) = Effect(i)
                     /\ Effect(i) \in {"Finalized", "ExpiredUnclaimed"}
  BY DEF DecidedAs
<1>1. /\ records[i] # None
      /\ \/ records[i].phase = "Completed" /\ Verdict(i) = "Finalized"
         \/ records[i].phase = "ExpiredUnclaimed" /\ Verdict(i) = "ExpiredUnclaimed"
  BY DEF Verdict
<1>2. Backs(execution[i], records[i].phase)
  BY <1>1 DEF Inv, OperationFollowsRecord, Backs
<1>3. execution[i] # None
  BY <1>1, <1>2 DEF Backs, Needs
<1>4. /\ execution[i].phase \in Phases /\ host[i][execution[i].key] \in Phases
      /\ Says(execution[i].phase, host[i][execution[i].key])
  BY <1>3, RecordOf
<1>5. execution[i].phase = IF records[i].phase = "Completed" THEN "Finalized" ELSE "ExpiredUnclaimed"
  <2>1. records[i].phase = "Completed" => Rank[execution[i].phase] >= 4
    BY <1>2 DEF Backs, Needs
  <2>. QED  BY <1>1, <1>2, <1>4, <2>1 DEF Backs, Phases, Rank
<1>6. Effect(i) = execution[i].phase
  <2>1. Effect(i) = host[i][execution[i].key]
    BY <1>3, EffectIs DEF SeenAs
  <2>. QED  BY <1>4, <1>5, <2>1 DEF Says, Phases, Rank
<1>. QED  BY <1>1, <1>3, <1>5, <1>6

\* A step of the store decides an operation, or is not seen.
LEMMA StoreRefines ==
    ASSUME Inv, SeenAs, SeenAs', DecidedAs', StoreStep, UNCHANGED <<execution, host>>
    PROVE  [Bootstrap!Next]_(Bootstrap!vars)
<1>. DEFINE effect == [i \in Ids |-> Effect(i)]
            verdict == [i \in Ids |-> Verdict(i)]
<1>1. UNCHANGED effect
  BY DEF SeenAs
<1>2. UNCHANGED [i \in Ids |-> IF execution[i] = None THEN None ELSE execution[i].instance]
  OBVIOUS
<1>3. CASE UNCHANGED records
  <2>1. UNCHANGED verdict
    BY <1>3 DEF Verdict
  <2>. QED  BY <1>1, <1>2, <2>1 DEF Bootstrap!vars
<1>4. ASSUME NEW i \in Ids, records[i] = None \/ records[i].phase \in Undecided,
             \A o \in Ids : o # i => records'[o] = records[o]
      PROVE  [Bootstrap!Next]_(Bootstrap!vars)
  <2>1. Verdict(i) = None
    BY <1>4 DEF Verdict, Undecided, Store!ForwardPhases
  <2>2. verdict' = [verdict EXCEPT ![i] = Verdict(i)']
    BY <1>4 DEF Verdict
  <2>3. CASE Verdict(i)' = None
    <3>1. UNCHANGED verdict
      BY <2>1, <2>2, <2>3
    <3>. QED  BY <1>1, <1>2, <3>1 DEF Bootstrap!vars
  <2>4. CASE Verdict(i)' # None
    <3>1. Verdict(i)' = Effect(i)' /\ Effect(i)' \in {"Finalized", "ExpiredUnclaimed"}
      BY <2>4 DEF DecidedAs
    <3>2. Effect(i)' = Effect(i)
      BY DEF SeenAs
    <3>3. /\ verdict' = [verdict EXCEPT ![i] = effect[i]] /\ verdict[i] = None
          /\ effect[i] \in {"Finalized", "ExpiredUnclaimed"}
      BY <2>1, <2>2, <3>1, <3>2
    <3>4. Bootstrap!Decide(i)
      BY <1>1, <1>2, <3>3 DEF Bootstrap!Decide
    <3>. QED  BY <3>4 DEF Bootstrap!Next
  <2>. QED  BY <2>3, <2>4
<1>. QED  BY <1>3, <1>4 DEF StoreStep

\* A step of the Host is an effect, or is not seen.
LEMMA HostRefines ==
    ASSUME Inv, SeenAs, SeenAs', DecidedAs, HostStep, UNCHANGED <<storeVars, execution>>
    PROVE  [Bootstrap!Next]_(Bootstrap!vars)
<1>. DEFINE connector == [i \in Ids |-> IF execution[i] = None THEN None ELSE execution[i].instance]
            effect == [i \in Ids |-> Effect(i)]
            verdict == [i \in Ids |-> Verdict(i)]
<1>1. PICK i \in Ids, k \in Keys, s \in Phases :
        /\ execution[i] # None /\ execution[i].key = k
        /\ host' = [host EXCEPT ![i][k] = s]
        /\ \/ s = host[i][k]
           \/ host[i][k] \in DOMAIN Bootstrap!NextEffects /\ s \in Bootstrap!NextEffects[host[i][k]]
  BY DEF HostStep
<1>2. UNCHANGED verdict /\ UNCHANGED connector
  BY DEF Verdict, storeVars
<1>3. /\ Effect(i) = host[i][k] /\ Effect(i)' = s
      /\ \A o \in Ids : o # i => Effect(o)' = Effect(o)
  <2>1. host'[i][k] = s /\ \A o \in Ids : o # i => host'[o] = host[o]
    BY <1>1 DEF Inv, Typed
  <2>. QED  BY <1>1, <2>1 DEF SeenAs
<1>4. effect' = [effect EXCEPT ![i] = s]
  BY <1>3
<1>5. CASE s = host[i][k]
  <2>1. UNCHANGED effect
    BY <1>3, <1>4, <1>5
  <2>. QED  BY <1>2, <2>1 DEF Bootstrap!vars
<1>6. CASE s # host[i][k]
  <2>1. effect[i] \in DOMAIN Bootstrap!NextEffects /\ s \in Bootstrap!NextEffects[effect[i]]
    BY <1>1, <1>3, <1>6
  <2>2. verdict[i] = None
    BY <2>1 DEF DecidedAs, Bootstrap!NextEffects
  <2>3. connector[i] # None
    BY <1>1, RecordOf, ConnectorAssumption DEF Execution
  <2>4. Bootstrap!Effect(i)
    BY <1>2, <1>4, <2>1, <2>2, <2>3 DEF Bootstrap!Effect
  <2>. QED  BY <2>4 DEF Bootstrap!Next
<1>. QED  BY <1>5, <1>6

\* A record that is drawn begins an operation; the others are not seen.
LEMMA RecordRefines ==
    ASSUME Inv, SeenAs, SeenAs', RecordStep, UNCHANGED <<storeVars, host>>
    PROVE  [Bootstrap!Next]_(Bootstrap!vars)
<1>. DEFINE connector == [i \in Ids |-> IF execution[i] = None THEN None ELSE execution[i].instance]
            effect == [i \in Ids |-> Effect(i)]
            verdict == [i \in Ids |-> Verdict(i)]
<1>1. PICK i \in Ids, f \in Execution :
        /\ execution' = [execution EXCEPT ![i] = f]
        /\ \/ execution[i] = None /\ connectorOwner[f.instance] = i
           \/ /\ execution[i] # None
              /\ f.key = execution[i].key /\ f.instance = execution[i].instance
  BY DEF RecordStep
<1>2. UNCHANGED verdict
  BY DEF Verdict, storeVars
<1>3. /\ execution'[i] = f /\ f # None /\ f.key \in Keys /\ f.instance \in Instances
      /\ \A o \in Ids : o # i => execution'[o] = execution[o]
  BY <1>1, Ranks DEF Inv, Typed, Execution
<1>4. Effect(i)' = Effect(i)
  <2>1. execution[i] = None => host[i][f.key] = "Absent"
    BY <1>3 DEF Inv, RecordFollowsHost
  <2>. QED  BY <1>1, <1>3, <2>1 DEF SeenAs
<1>5. UNCHANGED effect
  BY <1>3, <1>4 DEF SeenAs
<1>6. CASE execution[i] # None
  <2>1. UNCHANGED connector
    BY <1>1, <1>3, <1>6
  <2>. QED  BY <1>2, <1>5, <2>1 DEF Bootstrap!vars
<1>7. CASE execution[i] = None
  <2>1. connector[i] = None /\ connector' = [connector EXCEPT ![i] = f.instance]
    <3>1. connector[i] = None
      BY <1>7
    <3>. QED  BY <1>3, <3>1
  <2>2. ASSUME NEW o \in Ids, connector[o] = f.instance
        PROVE  verdict[o] # None
    <3>1. execution[o] # None /\ execution[o].instance = f.instance
      BY <1>3, <2>2, ConnectorAssumption
    <3>2. connectorOwner[f.instance] # o
      BY <1>1, <1>7, <3>1
    <3>3. Over(o)
      BY <3>1, <3>2 DEF Inv, Succession
    <3>. QED  BY <3>3, ConnectorAssumption DEF Over, Ends, Verdict, Rank
  <2>3. Bootstrap!Begin(i, f.instance)
    BY <1>2, <1>5, <2>1, <2>2 DEF Bootstrap!Begin
  <2>. QED  BY <1>3, <2>3 DEF Bootstrap!Next
<1>. QED  BY <1>6, <1>7

\* ConnectorBootstrap: the Host acts for an operation step by step and only
\* while it is undecided, an operation ends as the Host says, and an instance
\* goes to the next operation only after that.
THEOREM BootstrapIsImplemented == Spec => ImplementsBootstrap
<1>1. Init => Bootstrap!Init
  <2>. SUFFICES ASSUME Init PROVE Bootstrap!Init
    OBVIOUS
  <2>1. \A i \in Ids : execution[i] = None /\ Effect(i) = "Absent" /\ Verdict(i) = None
    BY DEF Init, Effect, Verdict
  <2>. QED  BY <2>1 DEF Bootstrap!Init
<1>2. Inv /\ SeenAs /\ DecidedAs /\ (SeenAs /\ DecidedAs)' /\ [Next]_vars => [Bootstrap!Next]_(Bootstrap!vars)
  BY NextInv, StoreRefines, HostRefines, RecordRefines DEF Change
<1>3. Inv => SeenAs /\ DecidedAs
  BY EffectIs, VerdictIs
<1>. QED  BY <1>1, <1>2, <1>3, Safety, PTL DEF Spec, ImplementsBootstrap, Bootstrap!Spec

-----------------------------------------------------------------------------
(* The claims.                                                             *)

ClaimsTyped == claims \in [Instances -> [Ids -> Store!ClaimPhases \cup {None}]]

\* A run that holds the lease works for the connector that is recorded for its operation.
RunsForRecord ==
    \A p \in Procs :
        Holds(p) /\ jobs[p].at # "snapshot" => execution[jobs[p].op].instance = jobs[p].instance

ClaimInv == ClaimsTyped /\ ClaimsMoveOnEvidence /\ RunsForRecord

\* What o recorded of connector c is enough for a phase of the claim of i.
BackedBy(o, c, i, phase) ==
    /\ Evidence(execution[o], phase)
    /\ execution[o].instance = c
    /\ o = i \/ Verdict(o) # None

\* A claim rests, is begun, or moves on what an operation recorded.
ClaimsMove ==
    \A c \in Instances, i \in Ids :
        \/ claims'[c][i] = claims[c][i]
        \/ claims'[c][i] = "Prepared"
        \/ \E o \in Ids : BackedBy(o, c, i, claims'[c][i])

\* An operation that is over has a verdict.
LEMMA OverIsDecided == ASSUME NEW i \in Ids  PROVE Over(i) <=> Verdict(i) # None
BY ConnectorAssumption DEF Over, Ends, Verdict, Rank

\* So it has after a step.
LEMMA OverIsDecidedNext == ASSUME NEW i \in Ids  PROVE Over(i)' <=> Verdict(i)' # None
BY ConnectorAssumption DEF Over, Ends, Verdict, Rank

\* What was recorded stays recorded, and what was decided decided.
LEMMA BackingStays ==
    ASSUME Inv, Change, NEW o \in Ids, NEW i \in Ids, NEW c, NEW phase, BackedBy(o, c, i, phase)
    PROVE  BackedBy(o, c, i, phase)'
<1>1. execution[o] # None /\ execution[o] \in Execution /\ execution[o].phase \in Phases
  BY DEF BackedBy, Evidence, Inv, Typed, Execution
<1>2. /\ execution'[o] # None /\ execution'[o].instance = execution[o].instance
      /\ execution'[o].phase \in Phases /\ Says(execution[o].phase, execution'[o].phase)
  BY <1>1, Kept, Ranks DEF Execution
<1>3. Rank[execution[o].phase] \in 0..4 /\ Rank[execution'[o].phase] \in 0..4
  BY <1>1, <1>2, Ranks
<1>4. phase \in DOMAIN ClaimNeeds => ClaimNeeds[phase] \in 0..4
  BY DEF ClaimNeeds
<1>5. Evidence(execution'[o], phase)
  BY <1>2, <1>3, <1>4 DEF BackedBy, Evidence, Says
<1>6. o = i \/ Verdict(o)' # None
  <2>1. StoreStep /\ StoreInv
    BY Kept DEF Inv
  <2>. QED  BY <2>1, OverStays, OverIsDecided, OverIsDecidedNext DEF BackedBy
<1>. QED  BY <1>2, <1>5, <1>6 DEF BackedBy

\* Claims that move so rest on evidence, also while a record moves.
LEMMA ClaimsStayTrue ==
    ASSUME Inv, Change, ClaimsMoveOnEvidence, ClaimsMove
    PROVE  ClaimsMoveOnEvidence'
<1>1. ASSUME NEW c \in Instances, NEW i \in Ids, claims'[c][i] \notin {None, "Prepared"}
      PROVE  \E o \in Ids : BackedBy(o, c, i, claims'[c][i])
  BY <1>1 DEF ClaimsMove, ClaimsMoveOnEvidence, BackedBy
<1>2. ASSUME NEW c \in Instances, NEW i \in Ids, claims'[c][i] \notin {None, "Prepared"}
      PROVE  \E o \in Ids :
                 /\ Evidence(execution'[o], claims'[c][i])
                 /\ execution'[o].instance = c
                 /\ o = i \/ Verdict(o)' # None
  <2>1. PICK phase : phase = claims'[c][i]
    OBVIOUS
  <2>2. PICK o \in Ids : BackedBy(o, c, i, phase)
    BY <1>1, <1>2, <2>1
  <2>3. BackedBy(o, c, i, phase)'
    BY <2>2, BackingStays
  <2>. QED  BY <2>1, <2>3 DEF BackedBy
<1>. QED  BY <1>2 DEF ClaimsMoveOnEvidence

\* Nothing of the store moves.
LEMMA ClaimsRest == UNCHANGED claims /\ ClaimsTyped => ClaimsTyped' /\ ClaimsMove
BY DEF ClaimsTyped, ClaimsMove

\* One claim moves.
LEMMA OneClaim ==
    ASSUME ClaimsTyped, NEW c \in Instances, NEW i \in Ids, NEW phase \in Store!ClaimPhases,
           claims' = [claims EXCEPT ![c][i] = phase],
           phase = "Prepared" \/ \E o \in Ids : BackedBy(o, c, i, phase)
    PROVE  ClaimsTyped' /\ ClaimsMove
<1>1. claims'[c][i] = phase
  BY DEF ClaimsTyped
<1>2. \A d \in Instances, o \in Ids : <<d, o>> # <<c, i>> => claims'[d][o] = claims[d][o]
  BY DEF ClaimsTyped
<1>. QED  BY <1>1, <1>2 DEF ClaimsTyped, ClaimsMove

\* A task moves the claim of its own operation, or that of a successor on the evidence of an
\* operation that is over.
LEMMA ClaimTaskMoves ==
    ASSUME Inv, ClaimsTyped, RunsForRecord, NEW p \in Procs, At(p, "project"), ClaimTask(p)
    PROVE  ClaimsTyped' /\ ClaimsMove
<1>1. PICK j : j = jobs[p]
  OBVIOUS
<1>2. /\ j # None /\ Job(j) /\ Knows(j) /\ j.op \in Ids /\ j.instance \in Instances
      /\ j.at = "project" /\ Holds(p)
  BY <1>1, Reads DEF At, Holds, Leased
<1>3. PICK e : e = execution[j.op]
  OBVIOUS
<1>4. PICK task : task = Head(j.todo)
  OBVIOUS
<1>5. e # None /\ task \in Tasks(e.phase)
  BY <1>2, <1>3, <1>4, HeadTailProperties DEF Knows, Leased
<1>6. e.instance = j.instance
  BY <1>1, <1>2, <1>3 DEF RunsForRecord
<1>7. connectorOwner[j.instance] = j.op \/ Verdict(j.op) # None
  BY <1>2, <1>3, <1>5, <1>6, OverIsDecided DEF Inv, Succession
<1>8. ASSUME NEW from, NEW to \in Store!ClaimPhases, Store!MoveClaim(j.instance, from, to),
             Evidence(e, to)
      PROVE  ClaimsTyped' /\ ClaimsMove
  <2>1. PICK i : i = connectorOwner[j.instance]
    OBVIOUS
  <2>2. i \in Ids /\ claims' = [claims EXCEPT ![j.instance][i] = to]
    BY <1>2, <1>8, <2>1 DEF Store!MoveClaim, Inv, StoreInv
  <2>3. BackedBy(j.op, j.instance, i, to)
    BY <1>3, <1>6, <1>7, <1>8, <2>1 DEF BackedBy
  <2>. QED  BY <1>2, <2>2, <2>3, OneClaim
<1>9. /\ task = "ObserveHandoff" => Evidence(e, "HandoffObserved")
      /\ task = "ReleaseClaim" => Evidence(e, "Released")
      /\ task = "ExpireClaim" => Evidence(e, "ExpiredUnclaimed")
  BY <1>5 DEF Tasks, Evidence, ClaimNeeds
<1>10. \/ task = "ObserveHandoff" /\ Store!ObserveHandoff(j.instance)
       \/ task = "ReleaseClaim" /\ Store!ReleaseClaim(j.instance)
       \/ task = "ExpireClaim" /\ Store!ExpireClaim(j.instance)
       \/ UNCHANGED claims
  BY <1>1, <1>4 DEF ClaimTask, storeVars
<1>11. {"HandoffObserved", "Released", "ExpiredUnclaimed"} \subseteq Store!ClaimPhases
  BY DEF Store!ClaimPhases
<1>. QED  BY <1>8, <1>9, <1>10, <1>11, ClaimsRest DEF Store!ObserveHandoff, Store!ReleaseClaim, Store!ExpireClaim

\* A claim is written when it was not there.
LEMMA ConvergeMoves ==
    ASSUME Inv, ClaimsTyped, NEW p \in Procs, Store!ConvergeClaim(p)
    PROVE  ClaimsTyped' /\ ClaimsMove
<1>1. PICK c, i : c = calls[p].instance /\ i = calls[p].request.id
  OBVIOUS
<1>2. /\ calls[p].at = "handoff"
      /\ claims' = [claims EXCEPT ![c][i] = IF @ = None THEN "Prepared" ELSE @]
  BY <1>1 DEF Store!ConvergeClaim
<1>3. i \in Ids
  BY <1>1, <1>2 DEF Inv, StoreInv, Store!Call, Store!Identity
<1>4. "Prepared" \in Store!ClaimPhases
  BY DEF Store!ClaimPhases
<1>5. CASE c \in Instances
  <2>1. CASE claims[c][i] = None
    <3>1. claims' = [claims EXCEPT ![c][i] = "Prepared"]
      BY <1>2, <1>3, <1>5, <2>1 DEF ClaimsTyped
    <3>. QED  BY <1>3, <1>4, <1>5, <3>1, OneClaim
  <2>2. CASE claims[c][i] # None
    <3>1. claims' = claims
      BY <1>2, <1>3, <1>5, <2>2 DEF ClaimsTyped
    <3>. QED  BY <3>1, ClaimsRest
  <2>. QED  BY <2>1, <2>2
<1>6. CASE c \notin Instances
  <2>1. claims' = claims
    BY <1>2, <1>6 DEF ClaimsTyped
  <2>. QED  BY <2>1, ClaimsRest
<1>. QED  BY <1>5, <1>6

\* Every other step leaves the claims alone.
LEMMA NextMovesClaims ==
    ASSUME Inv, ClaimsTyped, RunsForRecord, [Next]_vars
    PROVE  ClaimsTyped' /\ ClaimsMove
<1>1. CASE UNCHANGED claims
  BY <1>1, ClaimsRest
<1>2. ASSUME NEW p \in Procs, ConvergeInstance(p)
      PROVE  ClaimsTyped' /\ ClaimsMove
  BY <1>2, ConvergeMoves DEF ConvergeInstance
<1>3. ASSUME NEW p \in Procs, Project(p)
      PROVE  ClaimsTyped' /\ ClaimsMove
  <2>1. AdvanceTask(p) \/ ExpireTask(p) => UNCHANGED claims
    BY DEF AdvanceTask, ExpireTask, AdvanceSeen, Store!Advance, Store!ExpireOperation,
           Store!Record, storeVars
  <2>. QED  BY <1>1, <1>3, <2>1, ClaimTaskMoves DEF Project
<1>4. ASSUME NEW p \in Procs, NEW r \in Store!Requests, Claim(p, r)
      PROVE  UNCHANGED claims
  BY <1>4 DEF Claim, Store!Claim
<1>5. ASSUME NEW p \in Procs, Step(p), ~ConvergeInstance(p), ~Project(p)
      PROVE  UNCHANGED claims
  <2>1. FinishClaim(p) \/ ClaimInstance(p) \/ VerifyArtifacts(p) => UNCHANGED claims
    BY DEF FinishClaim, ClaimInstance, VerifyArtifacts, AdvanceSeen, Store!Advance, Store!Record,
           Store!ClaimRecord, Store!ClaimOwner, Store!ClaimConnector
  <2>2. \/ Lease(p) \/ Snapshot(p) \/ Ask(p) \/ Send(p) \/ Prove(p) \/ Present(p) \/ Start(p)
        \/ Observe(p) \/ Persist(p)
        => UNCHANGED claims
    BY DEF Lease, Snapshot, Ask, Send, Prove, Present, Start, Observe, Persist, storeVars
  <2>. QED  BY <1>5, <2>1, <2>2 DEF Step
<1>6. (\E p \in Procs : Stop(p)) => UNCHANGED claims
  BY DEF Stop
<1>7. \/ UNCHANGED vars \/ LateRequest
      \/ \E p \in Procs, i \in Ids, c \in Instances : Begin(p, i, c)
      \/ \E i \in Ids : Expire(i) \/ \E k \in Keys : HostRuns(i, k)
      => UNCHANGED claims
  BY DEF vars, storeVars, LateRequest, Begin, Expire, HostRuns
<1>. QED  BY <1>1, <1>2, <1>3, <1>4, <1>5, <1>6, <1>7 DEF Next

\* A run goes on for the same operation and instance, or ends; it worked for the recorded
\* connector already, or does when it finds or writes the record.
RunStep(p) ==
    \E next :
        /\ jobs' = [jobs EXCEPT ![p] = next]
        /\ next # None /\ next.at \in Leased \ {"snapshot"} =>
               /\ next.op = jobs[p].op /\ next.instance = jobs[p].instance
               /\ \/ Holds(p) /\ jobs[p].at # "snapshot"
                  \/ execution'[next.op].instance = next.instance

\* A run that goes on with other tasks is the run it was,
LEMMA ContinuedRun ==
    ASSUME NEW j, Job(j), NEW tasks, NEW phase, NEW next, next # None,
           next = Continued(j, tasks, phase)
    PROVE  next.op = j.op /\ next.instance = j.instance
BY DEF Job, Continued

\* also when it saw the operation in another phase,
LEMMA AdvancedRun ==
    ASSUME NEW j, Job(j), NEW tasks, NEW phase, NEW seen, NEW next, next # None,
           next = Continued([j EXCEPT !.seen = seen], tasks, phase)
    PROVE  next.op = j.op /\ next.instance = j.instance
BY DEF Job, Continued

\* at another point,
LEMMA PointRun ==
    ASSUME NEW j, Job(j), NEW point
    PROVE  /\ [j EXCEPT !.at = point].op = j.op
           /\ [j EXCEPT !.at = point].instance = j.instance
BY DEF Job

\* or with an answer.
LEMMA AnsweredRun ==
    ASSUME NEW j, Job(j), NEW point, NEW result
    PROVE  /\ [j EXCEPT !.at = point, !.result = result].op = j.op
           /\ [j EXCEPT !.at = point, !.result = result].instance = j.instance
BY DEF Job

\* So do the steps under the lease.
LEMMA LeasedRuns ==
    ASSUME Inv, NEW p \in Procs,
           Project(p) \/ Ask(p) \/ Send(p) \/ Prove(p) \/ Present(p) \/ Start(p)
           \/ Observe(p) \/ Persist(p)
    PROVE  RunStep(p)
<1>1. PICK j : j = jobs[p]
  OBVIOUS
<1>2. Holds(p) /\ Job(j) /\ j.at # "snapshot"
  BY <1>1, Reads DEF Project, Ask, Send, Prove, Present, Start, Observe, Persist,
                     At, Holds, Leased
<1>3. ASSUME NEW next, jobs' = [jobs EXCEPT ![p] = next],
             next # None => next.op = j.op /\ next.instance = j.instance
      PROVE  RunStep(p)
  BY <1>1, <1>2, <1>3 DEF RunStep
<1>4. ASSUME NEW tasks, NEW phase, NEW seen,
             jobs' = [jobs EXCEPT ![p] = Continued([j EXCEPT !.seen = seen], tasks, phase)]
      PROVE  RunStep(p)
  <2>1. PICK next : next = Continued([j EXCEPT !.seen = seen], tasks, phase)
    OBVIOUS
  <2>2. next # None => next.op = j.op /\ next.instance = j.instance
    BY <1>2, <2>1, AdvancedRun
  <2>. QED  BY <1>3, <1>4, <2>1, <2>2
<1>5. ASSUME NEW tasks, NEW phase, jobs' = [jobs EXCEPT ![p] = Continued(j, tasks, phase)]
      PROVE  RunStep(p)
  <2>1. PICK next : next = Continued(j, tasks, phase)
    OBVIOUS
  <2>2. next # None => next.op = j.op /\ next.instance = j.instance
    BY <1>2, <2>1, ContinuedRun
  <2>. QED  BY <1>3, <1>5, <2>1, <2>2
<1>6. ASSUME NEW result, Answered(p, result)
      PROVE  RunStep(p)
  <2>1. PICK next : next = [j EXCEPT !.at = "persist", !.result = result]
    OBVIOUS
  <2>2. next.op = j.op /\ next.instance = j.instance
    BY <1>2, <2>1, AnsweredRun
  <2>. QED  BY <1>1, <1>3, <1>6, <2>1, <2>2 DEF Answered
<1>7. ASSUME NEW point, Goto(p, point)
      PROVE  RunStep(p)
  <2>1. PICK next : next = [j EXCEPT !.at = point]
    OBVIOUS
  <2>2. next.op = j.op /\ next.instance = j.instance
    BY <1>2, <2>1, PointRun
  <2>. QED  BY <1>1, <1>3, <1>7, <2>1, <2>2 DEF Goto
<1>8. jobs' = [jobs EXCEPT ![p] = None] => RunStep(p)
  BY <1>3
<1>9. Project(p) => RunStep(p)
  <2>1. Done(p) => RunStep(p)
    BY <1>1, <1>5 DEF Done
  <2>2. AdvanceTask(p) => RunStep(p)
    BY <1>1, <1>4 DEF AdvanceTask
  <2>. QED  BY <2>1, <2>2 DEF Project, ClaimTask, ExpireTask
<1>10. Persist(p) => RunStep(p)
  BY <1>1, <1>5 DEF Persist
<1>11. Ask(p) \/ Send(p) \/ Prove(p) \/ Present(p) \/ Start(p) \/ Observe(p) => RunStep(p)
  BY <1>6, <1>7, <1>8 DEF Ask, Send, Prove, Present, Start, Observe
<1>. QED  BY <1>9, <1>10, <1>11

\* So does the step that finds the record under the lease, or writes it.
LEMMA RecordRuns ==
    ASSUME Inv, NEW p \in Procs, Lease(p) \/ Snapshot(p)
    PROVE  RunStep(p)
<1>1. PICK j : j = jobs[p]
  OBVIOUS
<1>2. Job(j) /\ j.op \in Ids
  BY <1>1, Reads DEF Lease, Snapshot, At
<1>3. ASSUME NEW tasks, NEW phase, jobs' = [jobs EXCEPT ![p] = Continued(j, tasks, phase)],
             execution'[j.op].instance = j.instance
      PROVE  RunStep(p)
  <2>1. PICK next : next = Continued(j, tasks, phase)
    OBVIOUS
  <2>2. next # None => next.op = j.op /\ next.instance = j.instance
    BY <1>2, <2>1, ContinuedRun
  <2>. QED  BY <1>1, <1>3, <2>1, <2>2 DEF RunStep
<1>4. CASE Snapshot(p)
  <2>1. PICK k \in Keys : execution' = [execution EXCEPT ![j.op] = NewRecord(j.instance, k)]
    BY <1>1, <1>4 DEF Snapshot
  <2>2. execution'[j.op].instance = j.instance
    BY <1>2, <2>1 DEF Inv, Typed, NewRecord
  <2>. QED  BY <1>1, <1>3, <1>4, <2>2 DEF Snapshot
<1>5. CASE Lease(p)
  <2>1. UNCHANGED execution
    BY <1>5 DEF Lease
  <2>2. Goto(p, "snapshot") => RunStep(p)
    <3>1. PICK next : next = [j EXCEPT !.at = "snapshot"]
      OBVIOUS
    <3>2. next.at \notin Leased \ {"snapshot"}
      BY <1>2, <3>1 DEF Job
    <3>. QED  BY <1>1, <3>1, <3>2 DEF Goto, RunStep
  <2>. QED  BY <1>1, <1>3, <1>5, <2>1, <2>2 DEF Lease, RecordNames
<1>. QED  BY <1>4, <1>5

\* The steps before the lease, and the end.
LEMMA EarlyRuns ==
    ASSUME Inv, NEW p \in Procs,
           \/ ClaimInstance(p) \/ ConvergeInstance(p) \/ VerifyArtifacts(p) \/ Stop(p)
           \/ \E i \in Ids, c \in Instances : Begin(p, i, c)
    PROVE  RunStep(p)
<1>1. PICK j : j = jobs[p]
  OBVIOUS
<1>2. ASSUME NEW next, jobs' = [jobs EXCEPT ![p] = next], next.at \notin Leased
      PROVE  RunStep(p)
  BY <1>2 DEF RunStep
<1>3. CASE ClaimInstance(p)
  <2>1. PICK next : next = [j EXCEPT !.at = "converge"]
    OBVIOUS
  <2>2. next.at \notin Leased
    BY <1>1, <1>3, <2>1, Reads DEF ClaimInstance, At, Job, Leased
  <2>. QED  BY <1>1, <1>2, <1>3, <2>1, <2>2 DEF ClaimInstance, Goto
<1>4. CASE ConvergeInstance(p)
  <2>1. PICK next : next = [j EXCEPT !.at = "verify", !.claim = claims'[j.instance][j.op]]
    OBVIOUS
  <2>2. jobs' = [jobs EXCEPT ![p] = next]
    <3>1. jobs' = [jobs EXCEPT ![p].at = "verify",
                               ![p].claim = claims'[jobs[p].instance][jobs[p].op]]
      BY <1>4 DEF ConvergeInstance
    <3>. QED  BY <1>1, <2>1, <3>1
  <2>3. next.at \notin Leased
    BY <1>1, <1>4, <2>1, Reads DEF ConvergeInstance, At, Job, Leased
  <2>. QED  BY <1>2, <2>2, <2>3
<1>5. CASE VerifyArtifacts(p)
  <2>1. PICK next : next = [j EXCEPT !.seen = records'[j.op].phase]
    OBVIOUS
  <2>2. jobs' = [jobs EXCEPT ![p] = next]
    BY <1>1, <1>5, <2>1 DEF VerifyArtifacts
  <2>3. next.at \notin Leased
    BY <1>1, <1>5, <2>1, Reads DEF VerifyArtifacts, At, Job, Leased
  <2>. QED  BY <1>2, <2>2, <2>3
<1>6. CASE Stop(p)
  BY <1>6 DEF Stop, RunStep
<1>7. ASSUME NEW i \in Ids, NEW c \in Instances, Begin(p, i, c)
      PROVE  RunStep(p)
  <2>1. PICK next : next = [op |-> i, instance |-> c, at |-> "claim",
                            seen |-> records[i].phase, claim |-> None,
                            expired |-> i \in expired, todo |-> <<>>, result |-> None]
    OBVIOUS
  <2>2. jobs' = [jobs EXCEPT ![p] = next] /\ next.at \notin Leased
    BY <1>7, <2>1 DEF Begin, Leased
  <2>. QED  BY <1>2, <2>2
<1>. QED  BY <1>3, <1>4, <1>5, <1>6, <1>7

\* A record keeps its connector, and so do the runs that found it.
LEMMA RunsStay ==
    ASSUME Inv, RunsForRecord, [Next]_vars
    PROVE  RunsForRecord'
<1>1. ASSUME NEW q \in Procs, Holds(q), jobs[q].at # "snapshot"
      PROVE  execution'[jobs[q].op].instance = jobs[q].instance
  <2>1. execution[jobs[q].op] # None /\ jobs[q].op \in Ids
    BY <1>1, Reads DEF Knows, Holds
  <2>. QED  BY <1>1, <2>1, NextInv, Kept DEF RunsForRecord
<1>2. CASE UNCHANGED jobs
  BY <1>1, <1>2 DEF RunsForRecord, Holds
<1>3. ASSUME NEW p \in Procs, RunStep(p)
      PROVE  RunsForRecord'
  <2>1. PICK next :
          /\ jobs' = [jobs EXCEPT ![p] = next]
          /\ next # None /\ next.at \in Leased \ {"snapshot"} =>
                 /\ next.op = jobs[p].op /\ next.instance = jobs[p].instance
                 /\ \/ Holds(p) /\ jobs[p].at # "snapshot"
                    \/ execution'[next.op].instance = next.instance
    BY <1>3 DEF RunStep
  <2>2. jobs'[p] = next /\ \A q \in Procs \ {p} : jobs'[q] = jobs[q]
    BY <2>1 DEF Inv, Typed
  <2>3. ASSUME NEW q \in Procs, jobs'[q] # None, jobs'[q].at \in Leased, jobs'[q].at # "snapshot"
        PROVE  execution'[jobs'[q].op].instance = jobs'[q].instance
    <3>1. CASE q = p
      BY <1>1, <2>1, <2>2, <2>3, <3>1
    <3>2. CASE q # p
      BY <1>1, <2>2, <2>3, <3>2 DEF Holds
    <3>. QED  BY <3>1, <3>2
  <2>. QED  BY <2>3 DEF RunsForRecord, Holds
<1>4. \/ UNCHANGED vars \/ LateRequest
      \/ \E p \in Procs : FinishClaim(p) \/ \E r \in Store!Requests : Claim(p, r)
      \/ \E i \in Ids : Expire(i) \/ \E k \in Keys : HostRuns(i, k)
      => UNCHANGED jobs
  BY DEF vars, LateRequest, FinishClaim, Claim, Expire, HostRuns
<1>5. ASSUME NEW p \in Procs, Step(p) \/ Stop(p) \/ \E i \in Ids, c \in Instances : Begin(p, i, c)
      PROVE  RunsForRecord'
  <2>1. CASE Step(p)
    BY <1>2, <1>3, <1>4, <2>1, LeasedRuns, RecordRuns, EarlyRuns DEF Step
  <2>. QED  BY <1>3, <1>5, <2>1, EarlyRuns
<1>. QED  BY <1>2, <1>4, <1>5 DEF Next

\* "only an observed connector handoff may be released": a claim moves only on what its own
\* operation recorded of the connector, or one that worked on the same connector before and is
\* decided, however many runs of apply overlap, are killed or ask the Host late.
THEOREM ClaimsAreBacked == Spec => []ClaimsMoveOnEvidence
<1>1. Init => ClaimInv
  <2>. SUFFICES ASSUME Init PROVE ClaimInv
    OBVIOUS
  <2>1. ClaimsTyped
    BY DEF Init, ClaimsTyped
  <2>2. ClaimsMoveOnEvidence
    BY DEF Init, ClaimsMoveOnEvidence
  <2>3. RunsForRecord
    BY DEF Init, RunsForRecord, Holds
  <2>. QED  BY <2>1, <2>2, <2>3 DEF ClaimInv
<1>2. Inv /\ ClaimInv /\ [Next]_vars => ClaimInv'
  BY NextInv, NextMovesClaims, RunsStay, ClaimsStayTrue DEF ClaimInv
<1>3. ClaimInv => ClaimsMoveOnEvidence
  BY DEF ClaimInv
<1>. QED  BY <1>1, <1>2, <1>3, Safety, PTL DEF Spec
=============================================================================
