---------------------------- MODULE MCPathLocks -----------------------------
(* Constants of PathLocks for TLC. *)
EXTENDS PathLocks

CONSTANTS t1, t2, t3, l1, l2, l3

ThreeThreads == {t1, t2, t3}
ThreeLocks == {l1, l2, l3}

\* Every path or pair of paths
ThreeKeys == 1 .. 3
PathsAndPairs == {K \in SUBSET Keys : Cardinality(K) \in 1 .. 2}

=============================================================================
