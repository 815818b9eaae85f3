---------------------------- MODULE SocketAccept ----------------------------
(***************************************************************************)
(* The life of the connections in SocketBwServerApp: the listener, which   *)
(* is registered edge-triggered and accepts one connection per event, the  *)
(* file descriptors the kernel hands out, the endpoints_ map that owns the *)
(* BwServerEndpoint objects, and the tokens of events, which are addresses *)
(* of these objects.  What the handlers do with data is module SocketBw.   *)
(* The thread of the CPU monitor opens files of the same process.          *)
(***************************************************************************)
EXTENDS Integers, Sequences, FiniteSets

CONSTANTS
  Conns,     \* the connections ever made; an endpoint is named after its own
  None,      \* an unused place of endpoints_
  MaxFd,     \* descriptors the process may still open
  Backlog    \* the argument of listen

ASSUME ConnsAssumption == None \notin Conns /\ IsFiniteSet(Conns)
ASSUME BoundsAssumption == MaxFd \in Nat \ {0} /\ Backlog \in Nat \ {0}

VARIABLES
  running,    \* FALSE after a PCHECK in Accept or GetPeerAddr failed, or
              \* the monitor has read from a file that it could not open
  batch,      \* per connection, its unhandled event: "none", "data", "hup"
  lbatch,     \* the batch holds an unhandled event of the listener
  fd,         \* sockfd of each endpoint, -1 before accept and after Close
  endpoints,  \* endpoints_, the owner of the endpoint objects, by descriptor
  ready,      \* accepted connections on the epoll ready list
  lready,     \* the listener is on the epoll ready list
  backlog,    \* established connections waiting for accept
  peer,       \* each client: "new", "connected", "gone", "reset"
  monitor,    \* the descriptor of the file the CPU monitor has open, or -1
  peak        \* history: the most descriptors ever in use at an accept

vars == <<running, batch, lbatch, fd, endpoints, ready, lready, backlog, peer, monitor, peak>>

Fds  == 1..MaxFd
Open == {c \in Conns : fd[c] # -1}
Free == {f \in Fds : f # monitor /\ \A c \in Conns : fd[c] # f}

(* Descriptors in use.                                                     *)
Used == Cardinality(Fds) - Cardinality(Free)

(* The objects that have not been destroyed.                               *)
Alive == {c \in Conns : \E f \in Fds : endpoints[f] = c}

Init ==
  /\ running = TRUE
  /\ batch = [c \in Conns |-> "none"]
  /\ lbatch = FALSE
  /\ fd = [c \in Conns |-> -1]
  /\ endpoints = [f \in Fds |-> None]
  /\ ready = {}
  /\ lready = FALSE
  /\ backlog = <<>>
  /\ peer = [c \in Conns |-> "new"]
  /\ monitor = -1
  /\ peak = 0

-----------------------------------------------------------------------------
(* A client's connect succeeds while the backlog has room (otherwise it    *)
(* waits or SocketBwClientApp::Init tries again a second later).  The new  *)
(* entry is an edge on the listener.                                       *)
Connect(c) ==
  /\ peer[c] = "new"
  /\ Len(backlog) < Backlog
  /\ peer' = [peer EXCEPT ![c] = "connected"]
  /\ backlog' = Append(backlog, c)
  /\ lready' = TRUE
  /\ UNCHANGED <<running, batch, lbatch, fd, endpoints, ready, monitor, peak>>

(* The client goes away; an accepted connection gets an edge.              *)
Disconnect(c) ==
  /\ peer[c] = "connected"
  /\ peer' = [peer EXCEPT ![c] = "gone"]
  /\ ready' = IF fd[c] # -1 THEN ready \cup {c} ELSE ready
  /\ UNCHANGED <<running, batch, lbatch, fd, endpoints, lready, backlog, monitor, peak>>

(* The connection is reset, by the client's host or on the way.            *)
Reset(c) ==
  /\ peer[c] \in {"connected", "gone"}
  /\ peer' = [peer EXCEPT ![c] = "reset"]
  /\ ready' = IF fd[c] # -1 THEN ready \cup {c} ELSE ready
  /\ UNCHANGED <<running, batch, lbatch, fd, endpoints, lready, backlog, monitor, peak>>

(* Bytes from the client.                                                  *)
Data(c) ==
  /\ peer[c] = "connected"
  /\ fd[c] # -1
  /\ ready' = ready \cup {c}
  /\ UNCHANGED <<running, batch, lbatch, fd, endpoints, lready, backlog, peer, monitor, peak>>

-----------------------------------------------------------------------------
AtPoll == running /\ ~lbatch /\ \A c \in Conns : batch[c] = "none"

(* PollUntil: edge-triggered, so what is reported leaves the ready list.   *)
PollUntil ==
  /\ AtPoll
  /\ lbatch' = (lready /\ backlog # <<>>)
  /\ lready' = FALSE
  /\ batch' = [c \in Conns |->
                 IF c \notin ready THEN "none"
                 ELSE IF peer[c] \in {"gone", "reset"} THEN "hup" ELSE "data"]
  /\ ready' = {}
  /\ UNCHANGED <<running, fd, endpoints, backlog, peer, monitor, peak>>

(* accept and fopen get the lowest free descriptor.                        *)
AcceptedFd == CHOOSE f \in Free : \A g \in Free : f <= g

(* endpoints_[fd] = endpoint destroys the object stored there before.      *)
StoreOnce(f, c) == IF endpoints[f] = None THEN [endpoints EXCEPT ![f] = c] ELSE endpoints
StoreNewKey(f, c) ==
  LET unused == {g \in Fds : endpoints[g] = None}
      key == IF unused = {} THEN f ELSE CHOOSE g \in unused : \A h \in unused : h <= g
  IN  [endpoints EXCEPT ![key] = c]
Store(f, c) == [endpoints EXCEPT ![f] = c]

(* The loop goes on to the next event of the batch.                        *)
AcceptAgain == UNCHANGED lbatch
Continue == lbatch' = FALSE

IgnoreNewConnection ==
  /\ running
  /\ lbatch
  /\ Continue
  /\ UNCHANGED <<running, batch, fd, endpoints, ready, lready, backlog, peer, monitor, peak>>

(* getpeername has an answer, unless the connection was reset while it     *)
(* waited in the backlog.                                                  *)
GetPeerAddr(c) == peer[c] # "reset"

(* One accept for the event of the listener.  OnAccepted registers the     *)
(* socket, which is writable and so goes on the ready list; then the map   *)
(* takes the object over.  Without a descriptor, and without the address   *)
(* of the peer, a PCHECK fails.                                            *)
HandleNewConnection ==
  /\ running
  /\ lbatch
  /\ Continue
  /\ IF Free = {} \/ backlog = <<>> \/ ~GetPeerAddr(Head(backlog))
       THEN /\ running' = FALSE
            /\ UNCHANGED <<fd, endpoints, ready, backlog, peak>>
       ELSE LET c == Head(backlog)
                f == AcceptedFd IN
            /\ backlog' = Tail(backlog)
            /\ fd' = [fd EXCEPT ![c] = f]
            /\ ready' = ready \cup {c}
            /\ endpoints' = Store(f, c)
            /\ peak' = IF Used + 1 > peak THEN Used + 1 ELSE peak
            /\ UNCHANGED running
  /\ UNCHANGED <<batch, lready, peer, monitor>>

(* An event of a connection that is not closed: OnRecvReady, OnSendReady.  *)
HandleData(c) ==
  /\ running
  /\ batch[c] = "data"
  /\ batch' = [batch EXCEPT ![c] = "none"]
  /\ UNCHANGED <<running, lbatch, fd, endpoints, ready, lready, backlog, peer, monitor, peak>>

(* OnError closes the socket, after which endpoint->fd() is -1 and         *)
(* endpoints_.erase(endpoint->fd()) removes nothing.                       *)
Close(c) == [fd EXCEPT ![c] = -1]
HandleError(c) ==
  /\ running
  /\ batch[c] = "hup"
  /\ batch' = [batch EXCEPT ![c] = "none"]
  /\ fd' = Close(c)
  /\ ready' = ready \ {c}
  /\ endpoints' = [f \in Fds |-> IF f = fd'[c] THEN None ELSE endpoints[f]]
  /\ UNCHANGED <<running, lbatch, lready, backlog, peer, monitor, peak>>

(* CpuSnapshot::Snapshot opens a file, reads it and closes it, whatever    *)
(* the server thread is doing; fscanf on the NULL of a failed fopen ends   *)
(* the process.                                                            *)
MonitorOpen ==
  /\ running
  /\ monitor = -1
  /\ IF Free = {} THEN running' = FALSE /\ UNCHANGED monitor
                  ELSE monitor' = AcceptedFd /\ UNCHANGED running
  /\ UNCHANGED <<batch, lbatch, fd, endpoints, ready, lready, backlog, peer, peak>>

MonitorClose ==
  /\ running
  /\ monitor # -1
  /\ monitor' = -1
  /\ UNCHANGED <<running, batch, lbatch, fd, endpoints, ready, lready, backlog, peer, peak>>

Server ==
  \/ PollUntil
  \/ HandleNewConnection
  \/ \E c \in Conns : HandleData(c) \/ HandleError(c)

Next ==
  \/ Server
  \/ MonitorOpen \/ MonitorClose
  \/ \E c \in Conns : Connect(c) \/ Disconnect(c) \/ Reset(c) \/ Data(c)

Spec == Init /\ [][Next]_vars

(* The server thread keeps running; clients owe nothing.                   *)
LiveSpec == Spec /\ WF_vars(Server)

-----------------------------------------------------------------------------
(* Every variable keeps its type.                                          *)
TypeOK ==
  /\ running \in BOOLEAN
  /\ batch \in [Conns -> {"none", "data", "hup"}]
  /\ lbatch \in BOOLEAN
  /\ fd \in [Conns -> Fds \cup {-1}]
  /\ endpoints \in [Fds -> Conns \cup {None}]
  /\ ready \in SUBSET Conns
  /\ lready \in BOOLEAN
  /\ backlog \in Seq(Conns)
  /\ peer \in [Conns -> {"new", "connected", "gone", "reset"}]
  /\ monitor \in Fds \cup {-1}
  /\ peak \in Nat

(* An event's token is dereferenced without a check: whatever the order in *)
(* which Run handles a batch, the object is still alive and its socket     *)
(* open, even when an accept earlier in the batch reused a descriptor and  *)
(* destroyed the endpoint that had it.                                     *)
NoDanglingToken ==
  \A c \in Conns : batch[c] # "none" \/ c \in ready => c \in Open /\ c \in Alive

(* An open connection is owned by the entry of its own descriptor, so that *)
(* the destructor run by endpoints_[fd] = endpoint never closes a socket   *)
(* that is in use.                                                         *)
OpenIsOwned == \A c \in Open : endpoints[fd[c]] = c /\ fd[c] # monitor

(* erase(-1) leaves closed endpoints behind, but the kernel reuses the     *)
(* lowest descriptor: the objects kept never outnumber the descriptors     *)
(* that were in use at one time, by connections and by the monitor, whose  *)
(* file can push a new connection off the key of one that has gone.        *)
LeakBounded == Cardinality(Alive) <= peak

(* Accepting, and opening a file of the monitor, ends the process only     *)
(* when every descriptor is in use for an open connection or for such a    *)
(* file, or when the connection accepted was reset in the backlog: an      *)
(* event of the listener always finds a connection to accept, no           *)
(* descriptor is lost to a closed one, and a client that just goes away    *)
(* does no harm.                                                           *)
AcceptFailsOnlyWhenFull ==
  ~running => \/ Cardinality(Open) + (IF monitor = -1 THEN 0 ELSE 1) = MaxFd
              \/ backlog # <<>> /\ peer[Head(backlog)] = "reset"

(* The connection at the head of the backlog is accepted once the listener *)
(* is on the ready list.  The flag is EPOLLET and Run accepts once for an  *)
(* event, so a connection behind the head waits for another edge.          *)
HeadAccepted ==
  \A c \in Conns :
    (lready /\ backlog # <<>> /\ Head(backlog) = c) ~> (fd[c] # -1 \/ ~running)

(* Level-triggered, as the comment above the flag in InterestToEpoll says: *)
(* whenever Run polls with a connection waiting in the backlog, the        *)
(* listener is reported.                                                   *)
ListenerLevelTriggered == AtPoll /\ backlog # <<>> => lready

(* Objects, descriptors and tokens agree; none of the three holds without  *)
(* the others.                                                             *)
Ownership == TypeOK /\ NoDanglingToken /\ OpenIsOwned

=============================================================================
