------------------------------- MODULE MCNet -------------------------------
(* Two addresses, one of them used by another host, and three sockets.      *)
EXTENDS Net
=============================================================================
