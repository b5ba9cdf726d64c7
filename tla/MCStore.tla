------------------------------- MODULE MCStore -------------------------------
EXTENDS DeploymentStore, TLC

\* Ids, targets and processes are interchangeable in the safety run.
Symmetry == Permutations(Ids) \cup Permutations(Targets) \cup Permutations(Procs)
=============================================================================
