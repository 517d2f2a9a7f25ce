----------------------------- MODULE MCBuildLocks -----------------------------
\* BuildLocks for TLC: processes that share one build root.
EXTENDS BuildLocks

CONSTANT bldroot
OneRoot == [p \in Procs |-> bldroot]
AllPaths == Shared \cup {bldroot}
===============================================================================
