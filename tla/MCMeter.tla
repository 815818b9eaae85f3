------------------------------ MODULE MCMeter -------------------------------
(* Instances of Meter for TLC.                                             *)
EXTENDS Meter
=============================================================================
