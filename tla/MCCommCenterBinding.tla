------------------------ MODULE MCCommCenterBinding ------------------------
\* Two SIM slots, the expected bundle and another one.
EXTENDS CommCenterBinding, TLC

CONSTANTS s1, s2

MCSlot == {s1, s2}

Says(reeval, path, outcome) ==
  [reeval |-> reeval, path |-> path, outcome |-> outcome]

\* A line has one marker: a re-evaluation, a linking path, a resolved path, a
\* success or a failure.
MCMessage ==
  { Says(TRUE, NoBundle, "none"), Says(FALSE, NoBundle, "none"),
    Says(FALSE, "CarrierLab", "none"), Says(FALSE, "Operator", "none"),
    Says(FALSE, NoBundle, "success"), Says(FALSE, NoBundle, "failure") }

MCBundle == {"CarrierLab", "Operator"}

\* The slots are interchangeable.
Symmetry == Permutations(MCSlot)
=============================================================================
