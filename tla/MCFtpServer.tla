---------------------------- MODULE MCFtpServer -----------------------------
(* Constants of FtpServer for TLC. *)
EXTENDS FtpServer

CONSTANTS c1, c2, t1

TwoClients == {c1, c2}
OneStopper == {t1}
=============================================================================
