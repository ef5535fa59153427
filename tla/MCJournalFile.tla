--------------------------- MODULE MCJournalFile ---------------------------
\* Three processes: enough for a stale owner, the process that judges it and
\* the one that replaces its file in between; and for a writer without the lock
\* next to one that has it and one that waits.
EXTENDS JournalFile, TLC

CONSTANTS p1, p2, p3

MCPid == {p1, p2, p3}

\* One of them may run mark-recovery or a dry run as well.
MCUnlocked == {p1}
=============================================================================
