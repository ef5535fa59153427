----------------------- MODULE MCCarrierTransactions -----------------------
\* Instances of CarrierTransactions for TLC: a device that starts with the
\* tree "stock", over which a CarrierLab install puts "lab".
EXTENDS CarrierTransactions, TLC

CONSTANTS p1, p2

MCOne == {p1}
MCTwo == {p1, p2}

MCTree == {"stock", "lab", "preserved", "torn"}

\* Over a tree that has a CarrierLab bundle, the migration service preserves
\* that bundle under another name.  A torn tree stays torn.
MCDesired(t) ==
  CASE t = "stock" -> "lab"
    [] t \in {"lab", "preserved"} -> "preserved"
    [] t = "torn" -> "torn"

AllOps == Command
\* Without dry runs.  From "open" on a restore is a recover of the transaction
\* it has selected, and recover may name any: restore adds nothing here.
LockedOps == Command \ {"plan", "restore"}

\* The processes are interchangeable (for runs without liveness).
Symmetry == Permutations(MCTwo)
=============================================================================
