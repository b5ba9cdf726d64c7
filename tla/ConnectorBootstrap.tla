-------------------------- MODULE ConnectorBootstrap --------------------------
(***************************************************************************)
(* What the bootstrap of Connectors promises, seen from outside: which     *)
(* instance an operation works on, what the Host did for it, and how the   *)
(* operation ended.                                                        *)
(***************************************************************************)
CONSTANTS Ids, Instances, None

VARIABLES
    connector,  \* the instance an operation began to work on
    effect,     \* what the Host did for the operation
    verdict     \* how the operation ended

vars == <<connector, effect, verdict>>

Init ==
    /\ connector = [i \in Ids |-> None]
    /\ effect = [i \in Ids |-> "Absent"]
    /\ verdict = [i \in Ids |-> None]

\* An instance is left to the next operation when the last one is decided.
Begin(i, c) ==
    /\ connector[i] = None
    /\ \A j \in Ids : connector[j] = c => verdict[j] # None
    /\ connector' = [connector EXCEPT ![i] = c]
    /\ UNCHANGED <<effect, verdict>>

NextEffects ==
    [Absent   |-> {"Prepared", "ExpiredUnclaimed"},
     Prepared |-> {"Started"},
     Started  |-> {"Running"},
     Running  |-> {"Finalized"}]

\* Each effect happens once, and only for an operation that is undecided.
Effect(i) ==
    /\ connector[i] # None /\ verdict[i] = None
    /\ effect[i] \in DOMAIN NextEffects
    /\ \E e \in NextEffects[effect[i]] : effect' = [effect EXCEPT ![i] = e]
    /\ UNCHANGED <<connector, verdict>>

\* An operation ends the way the Host says it did.
Decide(i) ==
    /\ verdict[i] = None
    /\ effect[i] \in {"Finalized", "ExpiredUnclaimed"}
    /\ verdict' = [verdict EXCEPT ![i] = effect[i]]
    /\ UNCHANGED <<connector, effect>>

Next ==
    \E i \in Ids : Effect(i) \/ Decide(i) \/ \E c \in Instances : Begin(i, c)

Spec == Init /\ [][Next]_vars
=============================================================================
