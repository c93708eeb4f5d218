---------------------------- MODULE MCConnections ---------------------------
(* Small instances of Connections for TLC. *)
EXTENDS Connections

CONSTANTS fd1, fd2

TwoFds   == {fd1, fd2}
=============================================================================
