------------------------------ MODULE RpcBench ------------------------------
(***************************************************************************)
(* The process of rpc_bench.cc: the main thread and, from StartMonitor on, *)
(* the detached CPU monitor.  The monitor has a copy of the options and    *)
(* shares no variable with main, which goes on to App::Create and Run at   *)
(* once; the end of the process, however it comes, ends the monitor in     *)
(* whatever it is doing.                                                   *)
(***************************************************************************)
EXTENDS AppMain, CpuMonitor

ProcInit == MainInit /\ Init

MainThread == MainNext /\ UNCHANGED vars

Alive == phase \in {"create", "run"}
MonitorThread == monitor /\ Alive /\ Next /\ UNCHANGED main

ProcNext == MainThread \/ MonitorThread

ProcSpec == ProcInit /\ [][ProcNext]_<<main, vars>>

=============================================================================
