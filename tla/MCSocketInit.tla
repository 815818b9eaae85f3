---------------------------- MODULE MCSocketInit ----------------------------
(* Instances of SocketInit for TLC.                                        *)
EXTENDS SocketInit
=============================================================================
