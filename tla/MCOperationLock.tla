-------------------------- MODULE MCOperationLock --------------------------
\* Three processes: enough for a stale owner, the process that judges it and
\* the one that replaces its file in between.
EXTENDS OperationLock, TLC

CONSTANTS p1, p2, p3

MCPid == {p1, p2, p3}

\* The processes are interchangeable (for runs without liveness).
Symmetry == Permutations(MCPid)
=============================================================================
