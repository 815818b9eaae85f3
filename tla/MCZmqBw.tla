------------------------------ MODULE MCZmqBw -------------------------------
(* Instances of ZmqBw for TLC.                                             *)
EXTENDS ZmqBw
=============================================================================
