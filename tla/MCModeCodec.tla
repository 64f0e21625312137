---------------------------- MODULE MCModeCodec -----------------------------
(* Constants of ModeCodec for TLC: files over both filler bytes and another *)
(* one, and stray bytes that are an empty escape, descriptors with and      *)
(* without the end of file, zero-length runs and a long literal.            *)
EXTENDS ModeCodec

FileBytes == {0, 32, 65}
StrayBytes == {0, 3, 16, 17, 64, 128, 192, 195}
=============================================================================
