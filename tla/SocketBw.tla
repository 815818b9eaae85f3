------------------------------ MODULE SocketBw ------------------------------
(***************************************************************************)
(* The data path of the socket bandwidth benchmark: several clients, each  *)
(* a process running BwClientApp::Run over SocketBwClientApp::PushData,    *)
(* and one single-threaded server, SocketBwServerApp::Run, that drives one *)
(* BwServerEndpoint per connection from an edge-triggered epoll set.       *)
(*                                                                         *)
(* A request is MetaSize + HeaderSize + DataSize[c] bytes and its reply is *)
(* HeaderSize bytes.  Every request of a client is the same byte string,   *)
(* so streams are modelled by the number of bytes in them.  One step of    *)
(* the server is one system call and the straight-line code around it.     *)
(* The kernel (two byte queues per connection and the epoll ready list) is *)
(* external: it is modelled from how src/ uses it.                         *)
(***************************************************************************)
EXTENDS Integers, Sequences, FiniteSets

CONSTANTS
  Clients,      \* the client processes, one connection each
  NoClient,     \* "the loop is not inside a handler"
  Mortal,       \* the clients that may be killed while they run
  MetaSize,     \* bytes of the two lengths sent in front of a request
  HeaderSize,   \* bytes of the serialised header; the reply is as long
  DataSize,     \* bytes of payload, per client (its --data option)
  RcvCap,       \* bytes the client-to-server direction can hold
  SndCap,       \* bytes the server-to-client direction can hold
  MaxEvents,    \* EPOLL_MAX_EVENTS
  MaxRpcs       \* bound: calls of PushData by one client

ASSUME ClientsAssumption == NoClient \notin Clients /\ Mortal \subseteq Clients
ASSUME SizesAssumption ==
  /\ MetaSize \in Nat \ {0}
  /\ HeaderSize \in Nat \ {0}
  /\ DataSize \in [Clients -> Nat]
ASSUME LimitsAssumption ==
  /\ RcvCap \in Nat \ {0}
  /\ SndCap \in Nat \ {0}
  /\ MaxEvents \in Nat \ {0}
  /\ MaxRpcs \in Nat \ {0}

VARIABLES
  \* The event loop of SocketBwServerApp::Run.
  pc,         \* where the server is; "loop" is between two events
  cur,        \* the connection whose event is being handled
  phase,      \* who called OnSendReady: Reply ("recv") or Run ("write")
  mask,       \* per connection, the unhandled event of the last PollUntil
  n,          \* bytes RecvAll has read so far, in ReceiveMeta
  \* BwServerEndpoint, one per connection.
  open,       \* life of sock_: "backlog", "open" or "closed"
  state,      \* state_
  interest,   \* interest_
  hdrLen,     \* msg_length of header_buffer_owner_ (0: none)
  hdrGot,     \* bytes_handled_ of header_buffer_
  datLen,     \* msg_length of data_buffer_owner_ (0: none)
  datGot,     \* bytes_handled_ of data_buffer_
  txq,        \* tx_queue_, each buffer as the bytes it has left to send
  \* The kernel's side of each connection.
  reg,        \* the interests epoll has registered for the socket
  ready,      \* connections on the epoll ready list
  inq,        \* bytes the server can read
  outq,       \* reply bytes written by the server, not read by the client
  nospace,    \* SOCK_NOSPACE: wake the writer when there is room again
  fin,        \* the client's end has been shut down in order
  rst,        \* the connection has been reset
  \* The clients.
  cpc,        \* "send" and "recv" inside PushData, "done", "dead"
  csent,      \* bytes of the current request sent
  cgot,       \* bytes of the current reply received
  calls,      \* calls of PushData that have returned
  acks        \* those that returned with bw_ack->success

loopVars   == <<pc, cur, phase, mask, n>>
bufVars    == <<hdrLen, hdrGot, datLen, datGot>>
epVars     == <<open, state, interest, hdrLen, hdrGot, datLen, datGot, txq>>
kernelVars == <<reg, ready, inq, outq, nospace, fin, rst>>
clientVars == <<cpc, csent, cgot, calls, acks>>
vars       == <<loopVars, epVars, kernelVars, clientVars>>

Lesser(a, b)  == IF a < b THEN a ELSE b

RequestSize(c) == MetaSize + HeaderSize + DataSize[c]

-----------------------------------------------------------------------------
(* epoll.                                                                  *)

Gone(c) == cpc[c] \in {"done", "dead"}
Room(c) == SndCap - outq[c]

(* What a poll of the socket reports for the registered interests r.       *)
(* EPOLLRDHUP, EPOLLHUP and EPOLLERR are "HUP", the condition under which  *)
(* Run calls OnError.                                                      *)
Revents(c, r) ==
  {e \in {"IN", "OUT", "HUP"} :
     \/ e = "IN"  /\ "R" \in r /\ (inq[c] > 0 \/ fin[c] \/ rst[c])
     \/ e = "OUT" /\ "W" \in r /\ (Room(c) > 0 \/ rst[c])
     \/ e = "HUP" /\ "R" \in r /\ (fin[c] \/ rst[c])}

(* Recv with nothing to read fails with an error other than EAGAIN.        *)
FatalWithEagain(c) == ~fin[c]
Fatal(c) == rst[c] /\ ~fin[c]

(* An edge on the socket puts it on the ready list if it is registered.    *)
Edge(c) == IF reg[c] # {} THEN ready \cup {c} ELSE ready

(* EPOLL_CTL_ADD and EPOLL_CTL_MOD poll the socket at once.                *)
EpollCtl(c, r) ==
  /\ reg' = [reg EXCEPT ![c] = r]
  /\ ready' = IF Revents(c, r) # {} THEN ready \cup {c} ELSE ready
  /\ nospace' = [nospace EXCEPT ![c] = @ \/ Room(c) = 0]

DeregisterNothing(c) == UNCHANGED <<reg, ready>>
Deregister(c) ==
  /\ reg' = [reg EXCEPT ![c] = {}]
  /\ ready' = ready \ {c}

-----------------------------------------------------------------------------
(* The control flow of one iteration of the loop over the events.          *)

(* The handlers of c's event have returned.                                *)
EndEvent(c) ==
  /\ pc' = "loop"
  /\ cur' = NoClient
  /\ phase' = "recv"
  /\ mask' = [mask EXCEPT ![c] = {}]

(* After OnSendReady: OnError if the event says closed or error.           *)
EndWriteNoError(c) == EndEvent(c)
EndWrite(c) ==
  IF "HUP" \in mask[c]
    THEN pc' = "error" /\ cur' = c /\ UNCHANGED <<phase, mask>>
    ELSE EndEvent(c)

(* After OnRecvReady: OnSendReady if the event says writable.              *)
EndRecv(c) ==
  IF "OUT" \in mask[c]
    THEN pc' = "send" /\ cur' = c /\ phase' = "write" /\ UNCHANGED mask
    ELSE EndWrite(c)

(* OnRecvReady goes on to the next function of its chain.                  *)
ChainStops(c, next) == EndRecv(c)
Chain(c, next) ==
  /\ pc' = next
  /\ UNCHANGED <<cur, phase, mask>>

EndSend(c) == IF phase = "recv" THEN EndRecv(c) ELSE EndWrite(c)

(* PCHECK failed, or SIGPIPE: the server process is gone.                  *)
Abort ==
  /\ pc' = "aborted"
  /\ UNCHANGED <<cur, phase, mask>>

(* poll_.PollUntil: takes up to MaxEvents sockets off the ready list and   *)
(* reports what each of them is ready for now.  With an empty ready list   *)
(* it times out and the loop goes round.                                   *)
PollUntil ==
  /\ pc = "loop"
  /\ \A c \in Clients : mask[c] = {}
  /\ \E B \in SUBSET ready :
       /\ B = ready \/ Cardinality(B) = MaxEvents
       /\ Cardinality(B) <= MaxEvents
       /\ ready' = ready \ B
       /\ mask' = [c \in Clients |-> IF c \in B THEN Revents(c, reg[c]) ELSE {}]
       /\ nospace' = [c \in Clients |-> nospace[c] \/ (c \in B /\ Room(c) = 0)]
  /\ UNCHANGED <<pc, cur, phase, n, epVars, reg, inq, outq, fin, rst, clientVars>>

(* Where OnRecvReady's switch goes in each state.                          *)
Entry == [NEW_RPC |-> "meta", META_RECVED |-> "header",
          HEADER_RECVED |-> "data", DATA_RECVED |-> "reply"]

ReadableAlways(c) == TRUE
Readable(c) == "IN" \in mask[c]

(* The loop takes the next event of the batch; in REPLYING, OnRecvReady    *)
(* does nothing.                                                           *)
Dispatch(c) ==
  /\ pc = "loop"
  /\ mask[c] # {}
  /\ n' = 0
  /\ IF Readable(c) /\ state[c] # "REPLYING"
       THEN pc' = Entry[state[c]] /\ cur' = c /\ UNCHANGED <<phase, mask>>
       ELSE EndRecv(c)
  /\ UNCHANGED <<epVars, kernelVars, clientVars>>

-----------------------------------------------------------------------------
(* BwServerEndpoint.                                                       *)

(* HandleNewConnection and OnAccepted: which backlog entry is accepted and *)
(* when is the subject of module SocketAccept.                             *)
OnAccepted(c) ==
  /\ pc = "loop"
  /\ open[c] = "backlog"
  /\ open' = [open EXCEPT ![c] = "open"]
  /\ state' = [state EXCEPT ![c] = "NEW_RPC"]
  /\ interest' = [interest EXCEPT ![c] = {"R", "W"}]
  /\ EpollCtl(c, {"R", "W"})
  /\ UNCHANGED <<loopVars, bufVars, txq, inq, outq, fin, rst, clientVars>>

(* ReceiveMeta's buffers: the owners only grow, the views are new.         *)
GrownBy(len, size) == len + size
Grown(len, size) == IF len < size THEN size ELSE len
NewBuffersOldView(c) ==
  /\ hdrLen' = [hdrLen EXCEPT ![c] = Grown(@, HeaderSize)]
  /\ datLen' = [datLen EXCEPT ![c] = Grown(@, DataSize[c])]
  /\ UNCHANGED <<hdrGot, datGot>>
NewBuffers(c) ==
  /\ hdrLen' = [hdrLen EXCEPT ![c] = Grown(@, HeaderSize)]
  /\ datLen' = [datLen EXCEPT ![c] = Grown(@, DataSize[c])]
  /\ hdrGot' = [hdrGot EXCEPT ![c] = 0]
  /\ datGot' = [datGot EXCEPT ![c] = 0]

(* Buffer::IsClear.                                                        *)
IsClearOnAny(got, len) == got > 0
IsClear(got, len) == got = len

(* RecvAll gives up at an end of stream or an error.                       *)
RecvAllStops(c) == fin[c] \/ rst[c]

(* ReceiveMeta, one Recv of the loop in RecvAll.  With nothing to read the *)
(* loop spins: that is no step.                                            *)
ReceiveMeta(c) ==
  /\ pc = "meta"
  /\ cur = c
  /\ \/ LET k == Lesser(inq[c], MetaSize - n) IN
        /\ inq[c] > 0
        /\ inq' = [inq EXCEPT ![c] = @ - k]
        /\ n' = n + k
        /\ IF n + k < MetaSize
             THEN UNCHANGED <<pc, cur, phase, mask, state, bufVars>>
             ELSE /\ NewBuffers(c)
                  /\ state' = [state EXCEPT ![c] = "META_RECVED"]
                  /\ Chain(c, "header")
     \/ /\ inq[c] = 0
        /\ RecvAllStops(c)
        /\ EndRecv(c)
        /\ UNCHANGED <<n, inq, state, bufVars>>
  /\ UNCHANGED <<open, interest, txq, reg, ready, outq, nospace, fin, rst, clientVars>>

ReceiveHeader(c) ==
  /\ pc = "header"
  /\ cur = c
  /\ \/ LET k == Lesser(inq[c], hdrLen[c] - hdrGot[c]) IN
        /\ inq[c] > 0
        /\ inq' = [inq EXCEPT ![c] = @ - k]
        /\ hdrGot' = [hdrGot EXCEPT ![c] = @ + k]
        /\ IF IsClear(hdrGot[c] + k, hdrLen[c])
             THEN /\ state' = [state EXCEPT ![c] = "HEADER_RECVED"]
                  /\ Chain(c, "data")
             ELSE EndRecv(c) /\ UNCHANGED state
     \/ /\ inq[c] = 0
        /\ IF Fatal(c) THEN Abort ELSE EndRecv(c)
        /\ UNCHANGED <<inq, hdrGot, state>>
  /\ UNCHANGED <<n, open, interest, hdrLen, datLen, datGot, txq,
                 reg, ready, outq, nospace, fin, rst, clientVars>>

ReceiveData(c) ==
  /\ pc = "data"
  /\ cur = c
  /\ \/ /\ datLen[c] = 0
        /\ state' = [state EXCEPT ![c] = "DATA_RECVED"]
        /\ Chain(c, "reply")
        /\ UNCHANGED <<inq, datGot>>
     \/ LET k == Lesser(inq[c], datLen[c] - datGot[c]) IN
        /\ datLen[c] # 0
        /\ inq[c] > 0
        /\ inq' = [inq EXCEPT ![c] = @ - k]
        /\ datGot' = [datGot EXCEPT ![c] = @ + k]
        /\ IF IsClear(datGot[c] + k, datLen[c])
             THEN /\ state' = [state EXCEPT ![c] = "DATA_RECVED"]
                  /\ Chain(c, "reply")
             ELSE EndRecv(c) /\ UNCHANGED state
     \/ /\ datLen[c] # 0
        /\ inq[c] = 0
        /\ IF Fatal(c) THEN Abort ELSE EndRecv(c)
        /\ UNCHANGED <<inq, datGot, state>>
  /\ UNCHANGED <<n, open, interest, hdrLen, hdrGot, datLen, txq,
                 reg, ready, outq, nospace, fin, rst, clientVars>>

(* The reply is a view of the header buffer; OnSendReady runs next.        *)
ReplySameState(c) ==
  /\ pc = "reply"
  /\ cur = c
  /\ txq' = [txq EXCEPT ![c] = Append(@, hdrLen[c])]
  /\ Chain(c, "send")
  /\ UNCHANGED <<n, open, state, interest, bufVars, kernelVars, clientVars>>
Reply(c) ==
  /\ pc = "reply"
  /\ cur = c
  /\ txq' = [txq EXCEPT ![c] = Append(@, hdrLen[c])]
  /\ state' = [state EXCEPT ![c] = "REPLYING"]
  /\ Chain(c, "send")
  /\ UNCHANGED <<n, open, interest, bufVars, kernelVars, clientVars>>

(* OnSendReady, one Send of its loop.                                      *)
OnSendReady(c) ==
  /\ pc = "send"
  /\ cur = c
  /\ \/ /\ txq[c] = <<>>
        /\ EndSend(c)
        /\ UNCHANGED <<state, interest, txq, outq, nospace>>
     \/ /\ txq[c] # <<>>
        /\ rst[c]
        /\ Abort
        /\ UNCHANGED <<state, interest, txq, outq, nospace>>
     \/ /\ txq[c] # <<>>
        /\ ~rst[c]
        /\ Room(c) = 0
        /\ nospace' = [nospace EXCEPT ![c] = TRUE]
        /\ IF "W" \in interest[c]
             THEN EndSend(c) /\ UNCHANGED interest
             ELSE /\ interest' = [interest EXCEPT ![c] = @ \cup {"W"}]
                  /\ pc' = "rearm"
                  /\ UNCHANGED <<cur, phase, mask>>
        /\ UNCHANGED <<state, txq, outq>>
     \/ /\ txq[c] # <<>>
        /\ ~rst[c]
        /\ \E k \in 1..Lesser(Room(c), Head(txq[c])) :
             /\ outq' = [outq EXCEPT ![c] = @ + k]
             /\ IF k < Head(txq[c])
                  THEN /\ txq' = [txq EXCEPT ![c][1] = @ - k]
                       /\ UNCHANGED <<pc, state, interest>>
                  ELSE /\ state' = [state EXCEPT ![c] = "NEW_RPC"]
                       /\ txq' = [txq EXCEPT ![c] = Tail(@)]
                       /\ IF "W" \in interest[c]
                            THEN /\ interest' = [interest EXCEPT ![c] = {"R"}]
                                 /\ pc' = "rearm"
                            ELSE UNCHANGED <<pc, interest>>
        /\ UNCHANGED <<cur, phase, mask, nospace>>
  /\ UNCHANGED <<n, open, bufVars, reg, ready, inq, fin, rst, clientVars>>

(* The Reregister in OnSendReady: after EAGAIN the loop is left, after the *)
(* end of a reply it goes on.                                              *)
ReregisterMissing(c) ==
  /\ pc = "rearm"
  /\ cur = c
  /\ IF "W" \in interest[c]
       THEN EndSend(c) /\ UNCHANGED <<reg, ready, nospace>>
       ELSE Chain(c, "send") /\ EpollCtl(c, interest[c])
  /\ UNCHANGED <<n, epVars, inq, outq, fin, rst, clientVars>>
Reregister(c) ==
  /\ pc = "rearm"
  /\ cur = c
  /\ EpollCtl(c, interest[c])
  /\ IF "W" \in interest[c] THEN EndSend(c) ELSE Chain(c, "send")
  /\ UNCHANGED <<n, epVars, inq, outq, fin, rst, clientVars>>

(* Deregister and Close.                                                   *)
OnError(c) ==
  /\ pc = "error"
  /\ cur = c
  /\ open' = [open EXCEPT ![c] = "closed"]
  /\ Deregister(c)
  /\ EndEvent(c)
  /\ UNCHANGED <<n, state, interest, bufVars, txq, inq, outq, nospace, fin, rst,
                 clientVars>>

Server ==
  \/ PollUntil
  \/ \E c \in Clients :
       \/ Dispatch(c)
       \/ ReceiveMeta(c)
       \/ ReceiveHeader(c)
       \/ ReceiveData(c)
       \/ Reply(c)
       \/ OnSendReady(c)
       \/ Reregister(c)
       \/ OnError(c)

-----------------------------------------------------------------------------
(* The clients and the connections' other ends.                            *)

(* The two SendAll of PushData: k more bytes of the request have reached   *)
(* the server's socket.                                                    *)
ClientSend(c) ==
  /\ pc # "aborted"
  /\ cpc[c] = "send"
  /\ \E k \in 1..Lesser(RcvCap - inq[c], RequestSize(c) - csent[c]) :
       /\ csent' = [csent EXCEPT ![c] = @ + k]
       /\ inq' = [inq EXCEPT ![c] = @ + k]
       /\ cpc' = [cpc EXCEPT ![c] =
                    IF csent[c] + k = RequestSize(c) THEN "recv" ELSE "send"]
  /\ ready' = Edge(c)
  /\ UNCHANGED <<loopVars, epVars, reg, outq, nospace, fin, rst, cgot, calls, acks>>

(* PushData returns.  Run calls it again unless the time is up, and then   *)
(* the process exits, which shuts the connection down.                     *)
Returns(c) ==
  /\ calls' = [calls EXCEPT ![c] = @ + 1]
  /\ \/ /\ calls[c] + 1 < MaxRpcs
        /\ cpc' = [cpc EXCEPT ![c] = "send"]
        /\ csent' = [csent EXCEPT ![c] = 0]
        /\ cgot' = [cgot EXCEPT ![c] = 0]
        /\ UNCHANGED fin
     \/ /\ cpc' = [cpc EXCEPT ![c] = "done"]
        /\ fin' = [fin EXCEPT ![c] = TRUE]
        /\ UNCHANGED <<csent, cgot>>

(* RecvAll of PushData, one Recv.  Reading makes room for the server: the  *)
(* kernel wakes the writer if SOCK_NOSPACE is set and EPOLLOUT registered. *)
ClientRecv(c) ==
  /\ cpc[c] = "recv"
  /\ \E k \in 1..Lesser(outq[c], HeaderSize - cgot[c]) :
       /\ outq' = [outq EXCEPT ![c] = @ - k]
       /\ IF cgot[c] + k = HeaderSize
            THEN /\ acks' = [acks EXCEPT ![c] = @ + 1]
                 /\ Returns(c)
            ELSE /\ cgot' = [cgot EXCEPT ![c] = @ + k]
                 /\ UNCHANGED <<cpc, csent, calls, acks, fin>>
  /\ nospace' = [nospace EXCEPT ![c] = FALSE]
  /\ ready' = IF \/ nospace[c] /\ "W" \in reg[c]
                 \/ fin'[c]
                THEN Edge(c) ELSE ready
  /\ UNCHANGED <<loopVars, epVars, reg, inq, rst>>

(* The server died.  SendAll may come back short, which fails its          *)
(* RPC_CHECK_EQ, or its bytes were taken by the kernel in vain; RecvAll    *)
(* comes back short and bw_ack->success is false.                          *)
ClientFails(c) ==
  /\ pc = "aborted"
  /\ \/ /\ cpc[c] = "send"
        /\ cpc' = [cpc EXCEPT ![c] = "dead"]
        /\ UNCHANGED <<fin, csent, cgot, calls>>
     \/ /\ cpc[c] \in {"send", "recv"}
        /\ Returns(c)
  /\ UNCHANGED <<loopVars, epVars, reg, ready, inq, outq, nospace, rst, acks>>

(* A client is killed.  Its end is shut down in order or, with reply bytes *)
(* it has not read, by a reset.                                            *)
Kill(c) ==
  /\ c \in Mortal
  /\ ~Gone(c)
  /\ cpc' = [cpc EXCEPT ![c] = "dead"]
  /\ \/ fin' = [fin EXCEPT ![c] = TRUE] /\ UNCHANGED rst
     \/ outq[c] > 0 /\ rst' = [rst EXCEPT ![c] = TRUE] /\ UNCHANGED fin
  /\ ready' = Edge(c)
  /\ UNCHANGED <<loopVars, epVars, reg, inq, outq, nospace, csent, cgot, calls, acks>>

(* Reply bytes that reach a client that is gone are answered by a reset.   *)
Reset(c) ==
  /\ Gone(c)
  /\ outq[c] > 0
  /\ ~rst[c]
  /\ rst' = [rst EXCEPT ![c] = TRUE]
  /\ ready' = Edge(c)
  /\ UNCHANGED <<loopVars, epVars, reg, inq, outq, nospace, fin, clientVars>>

Client(c) ==
  \/ ClientSend(c)
  \/ ClientRecv(c)
  \/ ClientFails(c)

-----------------------------------------------------------------------------
Init ==
  /\ pc = "loop"
  /\ cur = NoClient
  /\ phase = "recv"
  /\ mask = [c \in Clients |-> {}]
  /\ n = 0
  /\ open = [c \in Clients |-> "backlog"]
  /\ state = [c \in Clients |-> "NEW_RPC"]
  /\ interest = [c \in Clients |-> {"R", "W"}]
  /\ hdrLen = [c \in Clients |-> 0]
  /\ hdrGot = [c \in Clients |-> 0]
  /\ datLen = [c \in Clients |-> 0]
  /\ datGot = [c \in Clients |-> 0]
  /\ txq = [c \in Clients |-> <<>>]
  /\ reg = [c \in Clients |-> {}]
  /\ ready = {}
  /\ inq = [c \in Clients |-> 0]
  /\ outq = [c \in Clients |-> 0]
  /\ nospace = [c \in Clients |-> FALSE]
  /\ fin = [c \in Clients |-> FALSE]
  /\ rst = [c \in Clients |-> FALSE]
  /\ cpc = [c \in Clients |-> "send"]
  /\ csent = [c \in Clients |-> 0]
  /\ cgot = [c \in Clients |-> 0]
  /\ calls = [c \in Clients |-> 0]
  /\ acks = [c \in Clients |-> 0]

Next ==
  \/ Server
  \/ \E c \in Clients : OnAccepted(c) \/ Client(c) \/ Kill(c) \/ Reset(c)

Spec == Init /\ [][Next]_vars

(* The server thread and each client process keep running.  Nothing says   *)
(* that a connection is accepted, that a client is killed or when a reset  *)
(* arrives.                                                                *)
Fairness ==
  /\ WF_vars(Server)
  /\ \A c \in Clients : WF_vars(Client(c))

LiveSpec == Spec /\ Fairness

-----------------------------------------------------------------------------
States == {"NEW_RPC", "META_RECVED", "HEADER_RECVED", "DATA_RECVED", "REPLYING"}
PCs == {"loop", "meta", "header", "data", "reply", "send", "rearm",
        "error", "aborted"}

(* Every variable keeps its type; the byte queues stay within the socket   *)
(* buffers and a client never sends or expects more than one request.      *)
TypeOK ==
  /\ pc \in PCs
  /\ cur \in Clients \cup {NoClient}
  /\ phase \in {"recv", "write"}
  /\ mask \in [Clients -> SUBSET {"IN", "OUT", "HUP"}]
  /\ n \in 0..MetaSize
  /\ open \in [Clients -> {"backlog", "open", "closed"}]
  /\ state \in [Clients -> States]
  /\ interest \in [Clients -> SUBSET {"R", "W"}]
  /\ hdrLen \in [Clients -> {0, HeaderSize}]
  /\ hdrGot \in [Clients -> 0..HeaderSize]
  /\ datLen \in [Clients -> Nat]
  /\ datGot \in [Clients -> Nat]
  /\ txq \in [Clients -> Seq(1..HeaderSize)]
  /\ reg \in [Clients -> SUBSET {"R", "W"}]
  /\ ready \in SUBSET Clients
  /\ inq \in [Clients -> 0..RcvCap]
  /\ outq \in [Clients -> 0..SndCap]
  /\ nospace \in [Clients -> BOOLEAN]
  /\ fin \in [Clients -> BOOLEAN]
  /\ rst \in [Clients -> BOOLEAN]
  /\ cpc \in [Clients -> {"send", "recv", "done", "dead"}]
  /\ csent \in [Clients -> Nat]
  /\ cgot \in [Clients -> 0..HeaderSize]
  /\ calls \in [Clients -> 0..MaxRpcs]
  /\ acks \in [Clients -> 0..MaxRpcs]

(* Bytes of the client's current request the server has taken off the      *)
(* stream.                                                                 *)
Offset(c) == csent[c] - inq[c]

(* BwServerEndpoint parses the stream where PushData's framing says it is: *)
(* the lengths it reads at NEW_RPC are a request's first bytes, the header *)
(* and data buffers have the lengths of this request and are filled from   *)
(* its header and data, and a reply is only owed for a request read to its *)
(* last byte.  Only a client that is gone breaks step at NEW_RPC.          *)
ParserInSync ==
  pc # "aborted" =>
    \A c \in Clients :
      /\ state[c] = "NEW_RPC" =>
           \/ Gone(c)
           \/ cur = c /\ pc = "meta" /\ Offset(c) = n
           \/ ~(cur = c /\ pc = "meta") /\ Offset(c) \in {0, RequestSize(c)}
      /\ state[c] = "META_RECVED" =>
           /\ hdrLen[c] = HeaderSize
           /\ Offset(c) = MetaSize + hdrGot[c]
      /\ state[c] = "HEADER_RECVED" =>
           /\ datLen[c] = DataSize[c]
           /\ Offset(c) = MetaSize + HeaderSize + datGot[c]
      /\ state[c] \in {"DATA_RECVED", "REPLYING"} => Offset(c) = RequestSize(c)

(* The reply bytes queued in tx_queue_, in the sockets and already read by *)
(* the client add up to exactly one reply while the client waits for one   *)
(* the server has started, and to none otherwise: RecvAll in PushData can  *)
(* neither be starved nor read bytes of another reply.                     *)
ReplyInSync ==
  \A c \in Clients :
    /\ state[c] = "REPLYING" =>
         /\ Len(txq[c]) = 1
         /\ cpc[c] = "recv" => cgot[c] + outq[c] + Head(txq[c]) = HeaderSize
    /\ state[c] # "REPLYING" => txq[c] = <<>>
    /\ state[c] \in {"META_RECVED", "HEADER_RECVED", "DATA_RECVED"} =>
         outq[c] = 0
    /\ cpc[c] = "recv" /\ state[c] = "NEW_RPC" /\ pc # "aborted" =>
         cgot[c] + outq[c] = IF Offset(c) = RequestSize(c) THEN HeaderSize ELSE 0

(* Edge-triggered epoll loses nothing: whenever Run is about to poll, a    *)
(* connection with unread bytes, an end of stream or a reset is on the     *)
(* ready list, and an unsent reply either has its socket on the ready list *)
(* or waits, with EPOLLOUT registered, for the client to read.             *)
NoLostWakeup ==
  pc = "loop" =>
    \A c \in Clients :
      open[c] = "open" /\ mask[c] = {} =>
        /\ inq[c] > 0 \/ fin[c] \/ rst[c] => c \in ready
        /\ txq[c] # <<>> =>
             /\ "W" \in reg[c]
             /\ c \in ready \/ (Room(c) = 0 /\ nospace[c])

(* ReceiveMeta blocks the whole server until the lengths are complete.  It *)
(* is entered only when there is something to read, so a client that is    *)
(* idle between two requests never holds the loop.                         *)
IdleClientNeverBlocks ==
  pc = "meta" /\ n = 0 => inq[cur] > 0 \/ fin[cur] \/ rst[cur]

(* The server's PCHECKs on Recv never fail, and the one on Send only when  *)
(* the client was killed while its reply was unsent.                       *)
AbortOnlyForKilledPeer ==
  pc = "aborted" => state[cur] = "REPLYING" /\ cpc[cur] = "dead"

(* The token in an event is the endpoint's address.  After OnError nothing *)
(* refers to the connection any more: it is in no event, not on the ready  *)
(* list and not being handled, so its socket is not closed twice.          *)
NoEventAfterClose ==
  \A c \in Clients :
    open[c] = "closed" => mask[c] = {} /\ c \notin ready /\ cur # c

(* The single server thread always comes back to PollUntil, although       *)
(* ReceiveMeta and OnSendReady loop.                                       *)
LoopReturns == pc # "loop" ~> pc \in {"loop", "aborted"}

(* A client whose connection has been accepted finishes its run, unless it *)
(* or the server dies: no call of PushData waits for ever.                 *)
CallsComplete ==
  \A c \in Clients : open[c] = "open" ~> Gone(c) \/ pc = "aborted"

(* The server closes the connection of a client that is gone.              *)
GoneIsClosed ==
  \A c \in Clients :
    open[c] = "open" /\ Gone(c) ~> open[c] = "closed" \/ pc = "aborted"

(* The server keeps its part of the loop whatever its clients do: it comes *)
(* back to PollUntil, and it closes the connections of those that are      *)
(* gone.                                                                   *)
ServerProgress == LoopReturns /\ GoneIsClosed

-----------------------------------------------------------------------------
(* The refinement: a call is pushed when the request has been sent to its  *)
(* last byte and served from the moment ReceiveData has read it.           *)
CallOf(c) ==
  IF cpc[c] = "done" \/ csent[c] < RequestSize(c) THEN "idle"
  ELSE IF state[c] \in {"DATA_RECVED", "REPLYING"} \/ cgot[c] + outq[c] > 0
         THEN "served" ELSE "pushed"

Service == INSTANCE BwService WITH
  up     <- pc # "aborted",
  client <- [c \in Clients |-> IF cpc[c] \in {"send", "recv"} THEN "alive" ELSE cpc[c]],
  call   <- [c \in Clients |-> CallOf(c)]

(* The sockets, the endpoint and the event loop together implement         *)
(* BwService: PushData reports success once per request, and only for one  *)
(* the server has read completely.                                         *)
ImplementsBwService == Service!Spec

=============================================================================
