--------------------------- MODULE MCSocketAccept ---------------------------
(* Instances of SocketAccept for TLC.                                      *)
EXTENDS SocketAccept
=============================================================================
