----------------------------- MODULE SocketInit -----------------------------
(***************************************************************************)
(* How the socket benchmark comes up: SocketBwServerApp::Init step by step *)
(* in server processes that share a port, one of which may be killed and   *)
(* started again, and SocketBwClientApp::Init, which tries to connect      *)
(* until a server is there.                                                *)
(*                                                                         *)
(* The kernel is external: bind fails while another socket listens on the  *)
(* port, or has it without SO_REUSEADDR on both sides, or while an old     *)
(* connection is in TIME_WAIT and SO_REUSEADDR is not set; listen fails    *)
(* while another socket listens; connect fails while none does.            *)
(***************************************************************************)
EXTENDS Naturals

CONSTANTS
  Servers,  \* server processes started with the same --port
  Families, \* subset of {"v4", "v6"}
  MaxKills  \* bound on the times a server is killed

ASSUME InitAssumption == Families \subseteq {"v4", "v6"} /\ MaxKills \in Nat

VARIABLES
  family,    \* that of the first address getaddrinfo gives for the host
  server,    \* per server: "off", the next step of Init, "serving", "aborted"
  reuse,     \* servers whose listener has SO_REUSEADDR
  timewait,  \* old connections of the port are in TIME_WAIT
  client,    \* "connect", "sleep", "nonblock", "ready"
  kills      \* how often a server was killed

boot == <<family, server, reuse, timewait, client, kills>>

BootInit ==
  /\ family \in Families
  /\ server = [p \in Servers |-> "off"]
  /\ reuse = {}
  /\ timewait \in BOOLEAN
  /\ client = "connect"
  /\ kills = 0

Go(p, to) == server' = [server EXCEPT ![p] = to]
Listening(p) == server[p] \in {"register", "serving"}
Others(p) == Servers \ {p}

Start(p) ==
  /\ server[p] = "off"
  /\ Go(p, "reuse")
  /\ UNCHANGED <<family, reuse, timewait, client, kills>>

(* listener_.SetReuseAddr(true) and SetNonBlock(true).                     *)
NoReuseAddr(p) ==
  /\ server[p] = "reuse"
  /\ Go(p, "bind")
  /\ UNCHANGED <<family, reuse, timewait, client, kills>>
SetReuseAddr(p) ==
  /\ server[p] = "reuse"
  /\ reuse' = reuse \cup {p}
  /\ Go(p, "bind")
  /\ UNCHANGED <<family, timewait, client, kills>>

(* PCHECK(!bind(...)).                                                     *)
Bind(p) ==
  LET taken == \/ \E q \in Others(p) : Listening(q)
               \/ \E q \in Others(p) : server[q] = "listen" /\ ~({p, q} \subseteq reuse)
               \/ timewait /\ p \notin reuse
  IN
  /\ server[p] = "bind"
  /\ Go(p, IF taken THEN "aborted" ELSE "listen")
  /\ UNCHANGED <<family, reuse, timewait, client, kills>>

(* PCHECK(!listen(...)).                                                   *)
Listen(p) ==
  /\ server[p] = "listen"
  /\ Go(p, IF \E q \in Others(p) : Listening(q) THEN "aborted" ELSE "register")
  /\ UNCHANGED <<family, reuse, timewait, client, kills>>

Register(p) ==
  /\ server[p] = "register"
  /\ Go(p, "serving")
  /\ UNCHANGED <<family, reuse, timewait, client, kills>>

(* A running server is killed; connections of its clients linger.          *)
Kill(p) ==
  /\ kills < MaxKills
  /\ server[p] \notin {"off", "aborted"}
  /\ kills' = kills + 1
  /\ Go(p, "off")
  /\ reuse' = reuse \ {p}
  /\ timewait' = (timewait \/ (Listening(p) /\ client \in {"nonblock", "ready"}))
  /\ UNCHANGED <<family, client>>

Linger ==
  /\ timewait
  /\ timewait' = FALSE
  /\ UNCHANGED <<family, server, reuse, client, kills>>

LengthOfPointer == FALSE
(* connect(sockfd, &addr.addr, sizeof(addr.addr)): a struct sockaddr is as *)
(* long as an IPv4 address, and too short for an IPv6 one.                 *)
LongEnough == family = "v4"

(* One turn of while (!sock_.Connect(ai)), and the pause after a failure.  *)
TryConnect ==
  /\ client = "connect"
  /\ client' = IF LongEnough /\ \E p \in Servers : Listening(p) THEN "nonblock" ELSE "sleep"
  /\ UNCHANGED <<family, server, reuse, timewait, kills>>

Retry ==
  /\ client = "sleep"
  /\ client' = "connect"
  /\ UNCHANGED <<family, server, reuse, timewait, kills>>

SetNonBlock ==
  /\ client = "nonblock"
  /\ client' = "ready"
  /\ UNCHANGED <<family, server, reuse, timewait, kills>>

ServerInit(p) == Start(p) \/ SetReuseAddr(p) \/ Bind(p) \/ Listen(p) \/ Register(p)
ClientInit == TryConnect \/ Retry \/ SetNonBlock

BootNext == ClientInit \/ Linger \/ \E p \in Servers : ServerInit(p) \/ Kill(p)

BootSpec == BootInit /\ [][BootNext]_boot

(* Processes run, and a server that was killed is started again.           *)
BootLiveSpec == BootSpec /\ WF_boot(ClientInit) /\ \A p \in Servers : WF_boot(ServerInit(p))

-----------------------------------------------------------------------------
(* Every variable keeps its type.                                          *)
BootTypeOK ==
  /\ family \in Families
  /\ server \in [Servers -> {"off", "reuse", "bind", "listen", "register", "serving", "aborted"}]
  /\ reuse \subseteq Servers /\ timewait \in BOOLEAN
  /\ client \in {"connect", "sleep", "nonblock", "ready"}
  /\ kills \in 0..MaxKills

(* A server gives up only to another that listens at that moment: never to *)
(* the old connections of a server that was killed, and never both of two  *)
(* that came up together.                                                  *)
AbortsOnlyToAnother ==
  [][\A p \in Servers : server'[p] = "aborted" /\ server[p] # "aborted" =>
       \E q \in Others(p) : Listening(q)]_boot

(* The client gets through its Init, whichever of the processes starts     *)
(* first and whichever is killed on the way, if the host has an IPv4       *)
(* address; with an IPv6 address connect never succeeds.                   *)
ClientConnects == family = "v4" => <>(client = "ready")

(* The servers go through Init in order, and give up only to another.      *)
PortHeld == []BootTypeOK /\ AbortsOnlyToAnother

=============================================================================
