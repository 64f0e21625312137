------------------------ MODULE MCControlConnection -------------------------
(* Constants of ControlConnection for TLC. *)
EXTENDS ControlConnection

StreamAndBlock == {"S", "B"}
=============================================================================
