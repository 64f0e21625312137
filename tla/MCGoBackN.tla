----------------------------- MODULE MCGoBackN ------------------------------
(* Constants of GoBackN for TLC. *)
EXTENDS GoBackN

OneChunk == <<"a">>
TwoChunks == <<"a", "b">>
ThreeChunks == <<"a", "b", "c">>
FourChunks == <<"a", "b", "c", "d">>

EveryFault == AllFaults
=============================================================================
