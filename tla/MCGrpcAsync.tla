---------------------------- MODULE MCGrpcAsync -----------------------------
(* Instances of GrpcAsync for TLC.                                         *)
EXTENDS GrpcAsync
=============================================================================
