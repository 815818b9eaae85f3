----------------------------- MODULE MCRpcBench -----------------------------
(* Instances of RpcBench for TLC.                                          *)
EXTENDS RpcBench
=============================================================================
