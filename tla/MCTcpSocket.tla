----------------------------- MODULE MCTcpSocket -----------------------------
(***************************************************************************)
(* Instances of TcpSocket for TLC.                                         *)
(***************************************************************************)
EXTENDS TcpSocket
=============================================================================
