------------------------------ MODULE MCBwRpc -------------------------------
(* Instances of BwRpc for TLC.                                             *)
EXTENDS BwRpc
=============================================================================
