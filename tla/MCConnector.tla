----------------------------- MODULE MCConnector -----------------------------
EXTENDS ConnectorApply, TLC

\* Operations and processes are interchangeable when no plan is bundled or
\* expires.
Symmetry == Permutations(Ids) \cup Permutations(Procs)
=============================================================================
