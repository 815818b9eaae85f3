-------------------------------- MODULE BwRpc -------------------------------
(***************************************************************************)
(* The bandwidth benchmark over gRPC and over brpc: BwClientApp::Run with  *)
(* a synchronous PushData, and a server whose library calls the PushData   *)
(* handler from a pool of threads that share one Meter.                    *)
(*                                                                         *)
(* The libraries are external.  A gRPC call fails when its connection      *)
(* breaks; a brpc call is sent again on a broken connection, up to         *)
(* max_retry times, and fails after timeout_ms.  The server finishes a     *)
(* request whether or not anyone still waits for the answer.               *)
(***************************************************************************)
EXTENDS Meter

CONSTANTS
  Clients,    \* client processes
  Libraries,  \* subset of {"grpc", "brpc"}: the value of --rpc
  Size,       \* request->ByteSizeLong(), with the attachment for brpc
  Duration,   \* --time
  MaxRetry,   \* options.max_retry
  MaxPushes,  \* bound: calls of a client within its time
  None        \* no request

ASSUME BwRpcAssumption ==
  /\ IsFiniteSet(Clients)
  /\ Libraries \subseteq {"grpc", "brpc"}
  /\ {Duration, MaxRetry, MaxPushes} \subseteq Nat
  /\ Duration < MaxTime
  /\ Amounts = {Size}
  /\ None \notin Clients \X (1..(MaxPushes + 1)) \X (0..MaxRetry)

VARIABLES
  lib,      \* the library
  up,       \* the server is running
  client,   \* per client: "push", "wait" (in the call), "done"
  push,     \* per client: number of its current call
  retried,  \* per client: times the current call was sent again
  asked,    \* per client: brpc::IsAskedToQuit()
  wire,     \* requests under way, <<client, call, attempt>>
  job,      \* per handler thread: the request it serves
  answers,  \* answers that no client has taken
  acks,     \* calls, <<client, call>>, that returned with bw_ack->success
  served,   \* history: calls that a handler has returned from
  upset     \* history: a call was given up or sent again

calls_ == <<lib, up, client, push, retried, asked, wire, job, answers, acks, served, upset>>
vars == <<meter, calls_>>

Init ==
  /\ MeterInit
  /\ lib \in Libraries
  /\ up = TRUE
  /\ client = [c \in Clients |-> "push"]
  /\ push = [c \in Clients |-> 0]
  /\ retried = [c \in Clients |-> 0]
  /\ asked = [c \in Clients |-> FALSE]
  /\ wire = {} /\ answers = {}
  /\ job = [h \in Threads |-> None]
  /\ acks = {} /\ served = {}
  /\ upset = FALSE

(* The end of the loop of BwClientApp::Run.                                *)
Return(c) == client' = [client EXCEPT ![c] = IF clock > Duration THEN "done" ELSE "push"]

(* PushData sends the request and waits.                                   *)
PushData(c) ==
  /\ client[c] = "push"
  /\ push[c] < MaxPushes \/ clock > Duration
  /\ ~(lib = "brpc" /\ asked[c])
  /\ push' = [push EXCEPT ![c] = @ + 1]
  /\ retried' = [retried EXCEPT ![c] = 0]
  /\ wire' = wire \cup {<<c, push[c] + 1, 0>>}
  /\ client' = [client EXCEPT ![c] = "wait"]
  /\ UNCHANGED <<meter, lib, up, asked, job, answers, acks, served, upset>>

(* A brpc client that was asked to quit: success = false, until the time   *)
(* is up.                                                                  *)
PushRefused(c) ==
  /\ client[c] = "push"
  /\ lib = "brpc" /\ asked[c]
  /\ Return(c)
  /\ UNCHANGED <<meter, lib, up, push, retried, asked, wire, job, answers, acks, served, upset>>

(* A thread of the pool enters the handler and calls meter_.AddBytes.      *)
Handle(h) ==
  /\ up
  /\ job[h] = None
  /\ \E r \in wire :
       /\ job' = [job EXCEPT ![h] = r]
       /\ wire' = wire \ {r}
  /\ Add(h, Size)
  /\ UNCHANGED <<lib, up, client, push, retried, asked, answers, acks, served, upset>>

(* A killed process stops in mid-step; brpc's Join lets handlers finish.   *)
Running == up \/ lib = "brpc"
Meters(h) == Running /\ MeterStep(h) /\ UNCHANGED calls_

(* The call that a request is an attempt at.                               *)
CallOf(r) == <<r[1], r[2]>>

(* The handler returns and the answer leaves.                              *)
DoneUnanswered(h) ==
  /\ Running /\ job[h] # None
  /\ thread[h].pc = "idle"
  /\ job' = [job EXCEPT ![h] = None]
  /\ UNCHANGED <<meter, lib, up, client, push, retried, asked, wire, answers, acks, served, upset>>
DoneEarly(h) ==
  /\ Running /\ job[h] # None
  /\ job' = [job EXCEPT ![h] = None]
  /\ answers' = answers \cup {job[h]}
  /\ served' = served \cup {CallOf(job[h])}
  /\ UNCHANGED <<meter, lib, up, client, push, retried, asked, wire, acks, upset>>
Done(h) ==
  /\ Running /\ job[h] # None
  /\ thread[h].pc = "idle"
  /\ job' = [job EXCEPT ![h] = None]
  /\ answers' = answers \cup {job[h]}
  /\ served' = served \cup {CallOf(job[h])}
  /\ UNCHANGED <<meter, lib, up, client, push, retried, asked, wire, acks, upset>>

(* The answer to the current attempt arrives: success = true.              *)
Succeed(c) ==
  /\ client[c] = "wait"
  /\ <<c, push[c], retried[c]>> \in answers
  /\ answers' = answers \ {<<c, push[c], retried[c]>>}
  /\ acks' = acks \cup {<<c, push[c]>>}
  /\ Return(c)
  /\ UNCHANGED <<meter, lib, up, push, retried, asked, wire, job, served, upset>>

(* The connection breaks or the time for the call is over: success =       *)
(* false.  The request may be lost, or be served later.                    *)
FailSilently(c) ==
  /\ client[c] = "wait"
  /\ wire' \in {wire, wire \ {<<c, push[c], retried[c]>>}}
  /\ acks' = acks \cup {<<c, push[c]>>}
  /\ upset' = TRUE
  /\ Return(c)
  /\ UNCHANGED <<meter, lib, up, push, retried, asked, job, answers, served>>
Fail(c) ==
  /\ client[c] = "wait"
  /\ wire' \in {wire, wire \ {<<c, push[c], retried[c]>>}}
  /\ upset' = TRUE
  /\ Return(c)
  /\ UNCHANGED <<meter, lib, up, push, retried, asked, job, answers, acks, served>>

MayRetry(c) == retried[c] < MaxRetry

(* brpc sends the request again on a broken connection.                    *)
Retry(c) ==
  /\ lib = "brpc"
  /\ client[c] = "wait"
  /\ MayRetry(c)
  /\ retried' = [retried EXCEPT ![c] = @ + 1]
  /\ \E rest \in {wire, wire \ {<<c, push[c], retried[c]>>}} :
       wire' = rest \cup {<<c, push[c], retried[c] + 1>>}
  /\ upset' = TRUE
  /\ UNCHANGED <<meter, lib, up, client, push, asked, job, answers, acks, served>>

(* SIGINT at a client; the end of the server, by RunUntilAskedToQuit or    *)
(* because it is killed (server_->Wait() never returns).                   *)
AskToQuit(c) ==
  /\ lib = "brpc"
  /\ ~asked[c]
  /\ asked' = [asked EXCEPT ![c] = TRUE]
  /\ UNCHANGED <<meter, lib, up, client, push, retried, wire, job, answers, acks, served, upset>>

StopServer ==
  /\ up
  /\ up' = FALSE
  /\ wire' = {}
  /\ UNCHANGED <<meter, lib, client, push, retried, asked, job, answers, acks, served, upset>>

Server(h) == Handle(h) \/ Meters(h) \/ Done(h)
Client(c) == PushData(c) \/ PushRefused(c) \/ Succeed(c)

Next ==
  \/ \E h \in Threads : Server(h)
  \/ \E c \in Clients : Client(c) \/ Fail(c) \/ Retry(c) \/ AskToQuit(c)
  \/ StopServer
  \/ Tick /\ UNCHANGED calls_

Spec == Init /\ [][Next]_vars

(* Threads run and time passes.  A call fails of its own accord only where *)
(* the library sees to it: after timeout_ms, or when the server is gone.   *)
LiveSpec ==
  /\ Spec
  /\ WF_vars(Tick /\ UNCHANGED calls_)
  /\ \A h \in Threads : WF_vars(Server(h))
  /\ \A c \in Clients : WF_vars(Client(c)) /\ WF_vars(Fail(c) /\ (lib = "brpc" \/ ~up))

-----------------------------------------------------------------------------
(* Every variable keeps its type.                                          *)
TypeOK ==
  LET Requests == Clients \X (1..(MaxPushes + 1)) \X (0..MaxRetry) IN
  /\ MeterTypeOK
  /\ lib \in Libraries /\ up \in BOOLEAN /\ upset \in BOOLEAN
  /\ client \in [Clients -> {"push", "wait", "done"}]
  /\ push \in [Clients -> 0..(MaxPushes + 1)]
  /\ retried \in [Clients -> 0..MaxRetry]
  /\ asked \in [Clients -> BOOLEAN]
  /\ wire \subseteq Requests /\ answers \subseteq Requests
  /\ job \in [Threads -> Requests \cup {None}]
  /\ acks \subseteq Clients \X (1..(MaxPushes + 1))
  /\ served \subseteq Clients \X (1..(MaxPushes + 1))

(* A call that BwClientApp counts was served: bw_ack->success is never     *)
(* left over from an earlier call and never set by an answer to another.   *)
AckedWasServed == acks \subseteq served

(* One client that waits for each answer keeps the pool to one handler at  *)
(* a time, so the unsynchronised meter of the server has counted exactly   *)
(* the bytes of the calls answered, whichever threads served them - as     *)
(* long as no call was given up or sent again.                             *)
MetersAgree ==
  /\ Cardinality(Clients) = 1 /\ ~upset /\ ~disable
  /\ Quiet /\ \A h \in Threads : job[h] = None
  => printed["bytes"] + word["bytes"] = Size * (Cardinality(acks) + Cardinality(answers))

(* Every client ends after its time, whether its calls succeed, fail, time *)
(* out or are refused, and whether or not the server is still there.       *)
RunsEnd == \A c \in Clients : <>(client[c] = "done")

(* Calls, attempts and answers agree.                                      *)
CallsSound == TypeOK /\ AckedWasServed

=============================================================================
