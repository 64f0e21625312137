--------------------------- MODULE MCAtomicUpload ---------------------------
(* Constants of AtomicUpload for TLC. *)
EXTENDS AtomicUpload, TLC

CONSTANTS p1, p2, a, b, f, g, d1, d2

TwoProcs == {p1, p2}
TwoDirNames == {a, b}
TwoNames == {f, g}
TwoDirs == {d1, d2}
EveryKind == AllKinds

Symmetry ==
    Permutations(Procs) \cup Permutations(DirNames) \cup Permutations(Names)
        \cup Permutations(Dirs)
=============================================================================
