-------------------------------- MODULE ZmqBw -------------------------------
(***************************************************************************)
(* The bandwidth benchmark over ZeroMQ: PushDataZero on a REQ socket,      *)
(* RunZero on a REP socket.  A request is two parts, header and data, sent *)
(* and answered without copying: the I/O threads of libzmq read the memory *)
(* of the parts after zmq_msg_send has returned.                           *)
(*                                                                         *)
(* libzmq is external: a message travels whole, a request that was under   *)
(* way when its server died is not sent again, a reply to a peer that has  *)
(* gone is dropped, sending on a REP socket before the last part of the    *)
(* request was read fails with EFSM, and a blocking receive may fail with  *)
(* EINTR.                                                                  *)
(***************************************************************************)
EXTENDS Naturals, FiniteSets, FiniteSetsExt

CONSTANTS
  Clients,       \* client processes
  EmptyHeader,   \* ByteSizeLong of a PbBwHeader that was not filled in
  DataSize,      \* --data
  MaxPushes,     \* bound: calls of a client within its time
  None           \* no client

ASSUME SizeAssumption ==
  /\ {EmptyHeader, DataSize, MaxPushes} \subseteq Nat
  /\ None \notin Clients /\ IsFiniteSet(Clients)

VARIABLES
  client,   \* per client: "header", "data" (next to send), "recv", "done", "aborted"
  pushes,   \* per client: calls begun
  expired,  \* the time of the run is over
  out,      \* clients whose request is in their I/O thread
  inbox,    \* clients whose request waits at the server
  server,   \* "recv", "send", "close" (of zmsg), "down"
  peer,     \* whose request the server is at
  parts,    \* parts of it that were read
  reply,    \* per client: "none", "queued" in the server's I/O thread, "arrived"
  metered,  \* bytes handed to meter_.AddBytes
  struck,   \* history: the receives that were interrupted, None for the server
  killed,   \* history: the server was killed
  lost      \* history: the clients whose request or reply died with it

history == <<struck, killed, lost>>
vars == <<client, pushes, expired, out, inbox, server, peer, parts, reply, metered,
          struck, killed, lost>>

(* header_size at the client, and at the server.                           *)
HeaderSize == EmptyHeader
ReplySize == EmptyHeader

Init ==
  /\ client = [c \in Clients |-> "header"]
  /\ pushes = [c \in Clients |-> 0]
  /\ expired = FALSE
  /\ out = {} /\ inbox = {}
  /\ server = "recv" /\ peer = None /\ parts = 0
  /\ reply = [c \in Clients |-> "none"]
  /\ metered = 0
  /\ struck = {} /\ killed = FALSE /\ lost = {}

(* zmq_msg_send(&header_msg, ZMQ_SNDMORE): held until the last part.       *)
SendHeader(c) ==
  /\ client[c] = "header"
  /\ pushes[c] < MaxPushes \/ expired
  /\ pushes' = [pushes EXCEPT ![c] = @ + 1]
  /\ client' = [client EXCEPT ![c] = "data"]
  /\ UNCHANGED <<expired, out, inbox, server, peer, parts, reply, metered, history>>

SendData(c) ==
  /\ client[c] = "data"
  /\ client' = [client EXCEPT ![c] = "recv"]
  /\ out' = out \cup {c}
  /\ UNCHANGED <<pushes, expired, inbox, server, peer, parts, reply, metered, history>>

(* The I/O thread has read header_buf and bw_msg.data.                     *)
Deliver(c) ==
  /\ c \in out
  /\ server # "down"
  /\ out' = out \ {c}
  /\ inbox' = inbox \cup {c}
  /\ UNCHANGED <<client, pushes, expired, server, peer, parts, reply, metered, history>>

(* !zmq_msg_more(&zmsg) after a part: the request has two.                 *)
NoMoreAtOnce(n) == TRUE
NoMore(n) == n = 2

MeterWhole(n) == HeaderSize + DataSize * n
(* bytes_recv of a part.                                                   *)
PartSize(n) == IF n = 1 THEN HeaderSize ELSE DataSize

(* zmq_msg_recv of a part, and meter_.AddBytes if it is not empty.         *)
Receive ==
  /\ server = "recv"
  /\ \E c \in IF peer = None THEN inbox ELSE {peer} :
       /\ peer' = c
       /\ inbox' = inbox \ {c}
  /\ parts' = parts + 1
  /\ metered' = metered + PartSize(parts + 1)
  /\ server' = IF NoMore(parts + 1) THEN "send" ELSE "recv"
  /\ UNCHANGED <<client, pushes, expired, out, reply, history>>

(* EINTR while no request is there: zmsg is as zmq_msg_init left it, and   *)
(* has no more parts.                                                      *)
ReceiveInterrupted ==
  /\ server = "recv" /\ peer = None /\ inbox = {}
  /\ server' = "send"
  /\ struck' = struck \cup {None}
  /\ UNCHANGED <<client, pushes, expired, out, inbox, peer, parts, reply, metered, killed, lost>>

(* EFSM: the loop around zmq_msg_send never ends.                          *)
Spinning == server = "send" /\ parts # 2

(* The reply is header_size bytes of zmsg, none in effect.                 *)
Send ==
  /\ server = "send" /\ ~Spinning
  /\ reply' = [reply EXCEPT ![peer] = "queued"]
  /\ server' = "close"
  /\ UNCHANGED <<client, pushes, expired, out, inbox, peer, parts, metered, history>>

(* zmq_msg_close(&zmsg), and the next turn of the loop.                    *)
Close ==
  /\ server = "close"
  /\ server' = "recv" /\ peer' = None /\ parts' = 0
  /\ UNCHANGED <<client, pushes, expired, out, inbox, reply, metered, history>>

DeliverReply(c) ==
  /\ reply[c] = "queued"
  /\ reply' = [reply EXCEPT ![c] = "arrived"]
  /\ UNCHANGED <<client, pushes, expired, out, inbox, server, peer, parts, metered, history>>

(* RPC_CHECK_EQ(header_size, zmq_recv(...)), success = true, and the end   *)
(* of the loop of BwClientApp::Run.                                        *)
Take(c) ==
  /\ client[c] = "recv"
  /\ reply[c] = "arrived"
  /\ reply' = [reply EXCEPT ![c] = "none"]
  /\ client' = [client EXCEPT ![c] =
       IF HeaderSize # ReplySize THEN "aborted" ELSE IF expired THEN "done" ELSE "header"]
  /\ UNCHANGED <<pushes, expired, out, inbox, server, peer, parts, metered, history>>

(* zmq_recv returns -1 with EINTR, which is not header_size: the process   *)
(* aborts, its I/O thread with it.                                         *)
TakeReturns(c) ==
  /\ client[c] = "recv" /\ reply[c] # "arrived"
  /\ client' = [client EXCEPT ![c] = "header"]
  /\ struck' = struck \cup {c}
  /\ UNCHANGED <<pushes, expired, out, inbox, server, peer, parts, reply, metered, killed, lost>>

TakeInterrupted(c) ==
  /\ client[c] = "recv" /\ reply[c] # "arrived"
  /\ client' = [client EXCEPT ![c] = "aborted"]
  /\ struck' = struck \cup {c}
  /\ out' = out \ {c}
  /\ UNCHANGED <<pushes, expired, inbox, server, peer, parts, reply, metered, killed, lost>>

Expire ==
  /\ ~expired
  /\ expired' = TRUE
  /\ UNCHANGED <<client, pushes, out, inbox, server, peer, parts, reply, metered, history>>

(* The server is killed, with what is in it, and started again.            *)
Crash ==
  /\ server # "down"
  /\ server' = "down" /\ peer' = None /\ parts' = 0
  /\ inbox' = {}
  /\ metered' = 0 /\ killed' = TRUE
  /\ lost' = lost \cup inbox \cup {c \in Clients : reply[c] = "queued" \/ (c = peer /\ server # "close")}
  /\ reply' = [c \in Clients |-> IF reply[c] = "queued" THEN "none" ELSE reply[c]]
  /\ UNCHANGED <<client, pushes, expired, out, struck>>

Restart ==
  /\ server = "down"
  /\ server' = "recv"
  /\ UNCHANGED <<client, pushes, expired, out, inbox, peer, parts, reply, metered, history>>

Server == Receive \/ Send \/ Close
Client(c) == SendHeader(c) \/ SendData(c) \/ Take(c)
Io(c) == Deliver(c) \/ DeliverReply(c)

Next ==
  \/ Server \/ ReceiveInterrupted \/ Crash \/ Restart \/ Expire
  \/ \E c \in Clients : Client(c) \/ Io(c) \/ TakeInterrupted(c)

Spec == Init /\ [][Next]_vars

(* Both processes and their I/O threads run, and time passes.              *)
LiveSpec ==
  /\ Spec
  /\ WF_vars(Server) /\ WF_vars(Expire)
  /\ \A c \in Clients : WF_vars(Client(c)) /\ WF_vars(Io(c))

-----------------------------------------------------------------------------
(* Every variable keeps its type.                                          *)
TypeOK ==
  /\ client \in [Clients -> {"header", "data", "recv", "done", "aborted"}]
  /\ pushes \in [Clients -> 0..(MaxPushes + 1)]
  /\ expired \in BOOLEAN /\ killed \in BOOLEAN
  /\ out \subseteq Clients /\ inbox \subseteq Clients
  /\ server \in {"recv", "send", "close", "down"}
  /\ peer \in Clients \cup {None} /\ parts \in 0..2
  /\ reply \in [Clients -> {"none", "queued", "arrived"}]
  /\ metered \in Nat /\ struck \subseteq Clients \cup {None} /\ lost \subseteq Clients

(* What PushDataZero hands to libzmq without a copy - header_buf on its    *)
(* stack and the data of its caller - and what comes back stay within the  *)
(* call: the I/O thread has the request only while the call waits in       *)
(* zmq_recv, a client that has left a call has nothing of it under way,    *)
(* for a later call to take as its own, and a request is in one place.     *)
RequestWithinItsCall == \A c \in Clients :
  /\ c \in out => client[c] = "recv" /\ c \notin inbox /\ reply[c] = "none"
  /\ c \in inbox \/ reply[c] # "none" => client[c] \in {"recv", "aborted"}
  /\ c \in inbox => reply[c] = "none"

(* RunZero never spins on EFSM, and PushDataZero never aborts, unless a    *)
(* signal has interrupted a receive of that process: every part of a       *)
(* request is read before the reply, and both ends agree on its size.      *)
StuckOnlyAfterInterrupt ==
  /\ Spinning => None \in struck
  /\ \A c \in Clients : client[c] = "aborted" => c \in struck

(* The sum over all clients.                                               *)
Total(f) == MapThenSumSet(LAMBDA c : f[c], Clients)

(* The bytes the server metered are those of the requests it has read,     *)
(* none of them twice: at most one message for every call that was begun   *)
(* and, unless the server was killed and its count with it, at least one   *)
(* for every call that has returned.                                       *)
MeteredOnce ==
  LET returned == [c \in Clients |->
        IF client[c] \in {"header", "done"} \/ reply[c] # "none" THEN pushes[c]
        ELSE IF pushes[c] = 0 THEN 0 ELSE pushes[c] - 1]
  IN
  /\ metered <= DataSize * Total(pushes)
  /\ ~killed => metered >= DataSize * Total(returned)

(* If the server stays up from some time on, every client ends after its   *)
(* time, also when the server was killed and started again while the       *)
(* request was on its way - except for a client that a signal struck, or   *)
(* whose server one struck, and for one whose request the killed server    *)
(* had taken: zmq_recv then waits for a reply that nobody will send.       *)
RunsEnd ==
  <>[](server # "down") =>
    \A c \in Clients : <>(client[c] = "done" \/ {c, None} \cap struck # {} \/ c \in lost)

(* Parts, replies and the meter agree.                                     *)
Counted == TypeOK /\ MeteredOnce

=============================================================================
