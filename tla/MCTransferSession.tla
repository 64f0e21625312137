------------------------- MODULE MCTransferSession --------------------------
(* Constants of TransferSession for TLC. *)
EXTENDS TransferSession

CONSTANTS T1, T2, s1, s2, s3

TwoTransfers == {T1, T2}
ThreeSockets == {s1, s2, s3}
TwoSockets == {s1, s2}
=============================================================================
