----------------------------- MODULE MCSocketBw -----------------------------
(* Small instances of SocketBw: two clients, one of which sends no data.   *)
EXTENDS SocketBw, TLC

CONSTANTS c1, c2

OneSilent == (c1 :> 1) @@ (c2 :> 0)
=============================================================================
