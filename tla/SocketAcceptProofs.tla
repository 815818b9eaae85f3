------------------------- MODULE SocketAcceptProofs -------------------------
(***************************************************************************)
(* Proofs about the life of connections in SocketBwServerApp: for every    *)
(* set of connections, number of descriptors and backlog; and about how    *)
(* any number of servers come up on one port.                              *)
(***************************************************************************)
EXTENDS SocketAccept, SocketInit, FiniteSetTheorems, FunctionTheorems, SequenceTheorems,
        WellFoundedInduction, TLAPS

(* Keys of endpoints_ that hold an object.                                 *)
Keys == {f \in Fds : endpoints[f] # None}

(* The listener is reported only with a connection to accept, and the keys *)
(* in use are no higher than the most descriptors in use at an accept.     *)
IInv ==
  /\ Ownership
  /\ lbatch => backlog # <<>>
  /\ \A f \in Keys : f <= peak
  /\ AcceptFailsOnlyWhenFull

-----------------------------------------------------------------------------
(* A set of natural numbers that is not empty has a least element.         *)
LEMMA LeastElement ==
  ASSUME NEW S \in SUBSET Nat, S # {}
  PROVE  \E x \in S : \A y \in S : x <= y
<1> DEFINE R == OpToRel(<, Nat)
<1>1. IsWellFoundedOn(R, Nat)
  BY NatLessThanWellFounded
<1>2. \A x, y \in Nat : y < x <=> <<y, x>> \in R
  BY DEF OpToRel
<1> HIDE DEF R
<1>3. PICK x \in S : \A y \in S : ~(<<y, x>> \in R)
  BY <1>1, WFMin
<1>4. \A y \in S : ~(y < x)
  BY <1>2, <1>3
<1> QED BY <1>4

(* accept and fopen return a free descriptor, the lowest one.              *)
LEMMA AcceptedFdIsLowest ==
  ASSUME Free # {}
  PROVE  AcceptedFd \in Free /\ \A g \in Free : AcceptedFd <= g
<1>1. Free \in SUBSET Nat
  BY BoundsAssumption DEF Free, Fds
<1>2. \E f \in Free : \A g \in Free : f <= g
  BY <1>1, LeastElement
<1> QED BY <1>2 DEF AcceptedFd

(* Every lower descriptor is in use, so as many are in use as the new one  *)
(* says.                                                                   *)
LEMMA LowestMeansUsed ==
  ASSUME Free # {}
  PROVE  Used \in Nat /\ AcceptedFd <= Used + 1
<1> DEFINE f == AcceptedFd
<1>1. f \in Free /\ \A g \in Free : f <= g
  BY AcceptedFdIsLowest
<1>2. f \in 1..MaxFd /\ MaxFd \in Nat
  BY <1>1, BoundsAssumption DEF Free, Fds
<1> HIDE DEF f
<1>3. Free \subseteq f..MaxFd
  BY <1>1, <1>2 DEF Free, Fds
<1>4. IsFiniteSet(f..MaxFd) /\ Cardinality(f..MaxFd) = MaxFd - f + 1
  BY <1>2, FS_Interval
<1>5. IsFiniteSet(Free) /\ Cardinality(Free) <= MaxFd - f + 1 /\ Cardinality(Free) \in Nat
  <2>1. IsFiniteSet(Free) /\ Cardinality(Free) <= Cardinality(f..MaxFd)
    BY <1>3, <1>4, FS_Subset
  <2> QED BY <1>4, <2>1, FS_CardinalityType
<1>6. Cardinality(Fds) = MaxFd
  BY <1>2, FS_Interval DEF Fds
<1>7. MaxFd - Cardinality(Free) \in Nat /\ f <= MaxFd - Cardinality(Free) + 1
  BY <1>2, <1>5
<1> QED BY <1>6, <1>7 DEF Used, f

(* With no descriptor left, those of open connections and the monitor's    *)
(* are all there are: fd maps the open connections one to one to the rest. *)
LEMMA FullMeansOpen ==
  ASSUME Ownership, Free = {}
  PROVE  Cardinality(Open) + (IF monitor = -1 THEN 0 ELSE 1) = MaxFd
<1> DEFINE F == [c \in Open |-> fd[c]]
           T == Fds \ {monitor}
<1>1. MaxFd \in Nat /\ IsFiniteSet(Fds) /\ Cardinality(Fds) = MaxFd
  BY BoundsAssumption, FS_Interval DEF Fds
<1>2. F \in [Open -> T]
  BY DEF Ownership, TypeOK, OpenIsOwned, Open
<1>3. \A a, b \in Open : F[a] = F[b] => a = b
  BY DEF Ownership, OpenIsOwned
<1>4. \A f \in T : \E c \in Open : F[c] = f
  <2> SUFFICES ASSUME NEW f \in T PROVE \E c \in Open : F[c] = f
    OBVIOUS
  <2>1. PICK c \in Conns : fd[c] = f
    BY DEF Free
  <2>2. f # -1
    BY BoundsAssumption DEF Fds
  <2> QED BY <2>1, <2>2 DEF Open
<1>5. ExistsBijection(Open, T)
  BY <1>2, <1>3, <1>4, Fun_IsBij DEF ExistsBijection
<1>6. IsFiniteSet(Open)
  BY ConnsAssumption, FS_Subset DEF Open
<1>7. Cardinality(T) = Cardinality(Open)
  BY <1>5, <1>6, FS_Bijection
<1>8. Cardinality(T) = IF monitor \in Fds THEN MaxFd - 1 ELSE MaxFd
  BY <1>1, FS_RemoveElement
<1>9. monitor \in Fds <=> monitor # -1
  BY BoundsAssumption DEF Ownership, TypeOK, Fds
<1> QED BY <1>1, <1>7, <1>8, <1>9

(* The new peak covers the old one and the descriptor of the accept.       *)
LEMMA LargerPeak ==
  ASSUME NEW p \in Nat, NEW u \in Nat, NEW f \in Int, f <= u + 1
  PROVE  LET q == IF u + 1 > p THEN u + 1 ELSE p IN q \in Nat /\ p <= q /\ f <= q
OBVIOUS

-----------------------------------------------------------------------------
LEMMA InitInv == Init => IInv
<1> SUFFICES ASSUME Init PROVE IInv
  OBVIOUS
<1>1. TypeOK
  <2>1. backlog \in Seq(Conns)
    BY EmptySeq DEF Init
  <2>2. running \in BOOLEAN /\ lbatch \in BOOLEAN /\ lready \in BOOLEAN
    BY DEF Init
  <2>3. /\ batch \in [Conns -> {"none", "data", "hup"}]
        /\ fd \in [Conns -> Fds \cup {-1}]
        /\ endpoints \in [Fds -> Conns \cup {None}]
        /\ ready \in SUBSET Conns
        /\ peer \in [Conns -> {"new", "connected", "gone", "reset"}]
        /\ monitor \in Fds \cup {-1}
        /\ peak \in Nat
    BY DEF Init
  <2> QED BY <2>1, <2>2, <2>3 DEF TypeOK
<1>2. NoDanglingToken /\ OpenIsOwned
  BY DEF Init, NoDanglingToken, OpenIsOwned, Open
<1>3. \A f \in Keys : f <= peak
  BY DEF Init, Keys
<1>4. AcceptFailsOnlyWhenFull /\ (lbatch => backlog # <<>>)
  BY DEF Init, AcceptFailsOnlyWhenFull
<1> QED BY <1>1, <1>2, <1>3, <1>4 DEF IInv, Ownership

(* What the clients do and PollUntil leave descriptors and objects alone.  *)
Untouched == UNCHANGED <<running, fd, endpoints, monitor, peak>>

LEMMA UntouchedKeeps ==
  ASSUME IInv, Untouched
  PROVE  Open' = Open /\ Alive' = Alive /\ OpenIsOwned' /\ \A f \in Keys' : f <= peak'
BY DEF IInv, Ownership, Untouched, Open, Alive, OpenIsOwned, Keys

LEMMA ConnectInv == ASSUME IInv, NEW c \in Conns, Connect(c) PROVE IInv'
<1>1. Untouched /\ UNCHANGED <<batch, lbatch, ready>>
  BY DEF Connect, Untouched
<1>2. Open' = Open /\ Alive' = Alive /\ OpenIsOwned' /\ \A f \in Keys' : f <= peak'
  BY <1>1, UntouchedKeeps
<1>3. backlog' = Append(backlog, c) /\ backlog \in Seq(Conns)
  BY DEF IInv, Ownership, TypeOK, Connect
<1>4. /\ backlog' \in Seq(Conns) /\ backlog' # <<>>
      /\ backlog # <<>> => Head(backlog') = Head(backlog) /\ Head(backlog) \in Conns
  BY <1>3, AppendProperties, HeadTailAppend, HeadTailProperties
<1>5. TypeOK'
  BY <1>1, <1>4 DEF IInv, Ownership, TypeOK, Connect, Untouched
<1>6. NoDanglingToken'
  BY <1>1, <1>2 DEF IInv, Ownership, NoDanglingToken
<1>7. backlog # <<>> /\ peer[Head(backlog)] = "reset" => peer'[Head(backlog')] = "reset"
  BY <1>4 DEF IInv, Ownership, TypeOK, Connect
<1>8. AcceptFailsOnlyWhenFull'
  BY <1>1, <1>2, <1>4, <1>7 DEF IInv, AcceptFailsOnlyWhenFull, Untouched
<1> QED BY <1>2, <1>4, <1>5, <1>6, <1>8 DEF IInv, Ownership

(* The peer goes away, is reset, or sends: an edge for an open connection. *)
LEMMA EdgeInv ==
  ASSUME IInv, NEW c \in Conns, Disconnect(c) \/ Reset(c) \/ Data(c)
  PROVE  IInv'
<1>1. Untouched /\ UNCHANGED <<batch, lbatch, lready, backlog>>
  BY DEF Disconnect, Reset, Data, Untouched
<1>2. Open' = Open /\ Alive' = Alive /\ OpenIsOwned' /\ \A f \in Keys' : f <= peak'
  BY <1>1, UntouchedKeeps
<1>3. /\ ready' \in SUBSET Conns /\ \A d \in ready' : d \in ready \/ d \in Open
      /\ peer' \in [Conns -> {"new", "connected", "gone", "reset"}]
      /\ \A d \in Conns : peer[d] = "reset" => peer'[d] = "reset"
  BY DEF IInv, Ownership, TypeOK, Disconnect, Reset, Data, Open
<1>4. TypeOK'
  BY <1>1, <1>3 DEF IInv, Ownership, TypeOK, Untouched
<1>5. Open \subseteq Alive
  BY BoundsAssumption DEF IInv, Ownership, TypeOK, OpenIsOwned, Open, Alive, Fds
<1>6. NoDanglingToken'
  BY <1>1, <1>2, <1>3, <1>5 DEF IInv, Ownership, NoDanglingToken
<1>7. backlog # <<>> => Head(backlog) \in Conns
  BY HeadTailProperties DEF IInv, Ownership, TypeOK
<1>8. AcceptFailsOnlyWhenFull'
  BY <1>1, <1>2, <1>3, <1>7 DEF IInv, AcceptFailsOnlyWhenFull, Untouched
<1> QED BY <1>1, <1>2, <1>4, <1>6, <1>8 DEF IInv, Ownership

LEMMA PollUntilInv == IInv /\ PollUntil => IInv'
<1> SUFFICES ASSUME IInv, PollUntil PROVE IInv'
  OBVIOUS
<1>1. Untouched /\ UNCHANGED <<backlog, peer>> /\ running /\ ready' = {}
  BY DEF PollUntil, AtPoll, Untouched
<1>2. Open' = Open /\ Alive' = Alive /\ OpenIsOwned' /\ \A f \in Keys' : f <= peak'
  BY <1>1, UntouchedKeeps
<1>3. /\ batch' \in [Conns -> {"none", "data", "hup"}]
      /\ \A c \in Conns : batch'[c] # "none" => c \in ready
  BY DEF PollUntil
<1>4. lbatch' \in BOOLEAN /\ lready' \in BOOLEAN /\ (lbatch' => backlog # <<>>)
  BY DEF PollUntil
<1>5. TypeOK'
  BY <1>1, <1>3, <1>4 DEF IInv, Ownership, TypeOK, Untouched
<1>6. NoDanglingToken'
  BY <1>1, <1>2, <1>3 DEF IInv, Ownership, NoDanglingToken
<1>7. AcceptFailsOnlyWhenFull'
  BY <1>1 DEF AcceptFailsOnlyWhenFull, Untouched
<1> QED BY <1>1, <1>2, <1>4, <1>5, <1>6, <1>7 DEF IInv, Ownership

LEMMA HandleNewConnectionInv == IInv /\ HandleNewConnection => IInv'
<1> SUFFICES ASSUME IInv, HandleNewConnection PROVE IInv'
  OBVIOUS
<1>1. /\ running /\ lbatch /\ lbatch' = FALSE /\ backlog # <<>>
      /\ UNCHANGED <<batch, lready, peer, monitor>>
  BY DEF HandleNewConnection, Continue, IInv
<1>2. backlog \in Seq(Conns) /\ Head(backlog) \in Conns /\ Tail(backlog) \in Seq(Conns)
  BY <1>1, HeadTailProperties DEF IInv, Ownership, TypeOK
<1>3. CASE Free = {} \/ ~GetPeerAddr(Head(backlog))
  <2>1. running' = FALSE /\ UNCHANGED <<fd, endpoints, ready, backlog, peak>>
    BY <1>3 DEF HandleNewConnection
  <2>2. Ownership'
    BY <1>1, <2>1 DEF IInv, Ownership, TypeOK, NoDanglingToken, OpenIsOwned, Open, Alive
  <2>3. \A f \in Keys' : f <= peak'
    BY <2>1 DEF IInv, Keys
  <2>4. AcceptFailsOnlyWhenFull'
    <3>1. CASE Free = {}
      <4>1. Cardinality(Open) + (IF monitor = -1 THEN 0 ELSE 1) = MaxFd
        BY <3>1, FullMeansOpen DEF IInv
      <4>2. Open' = Open
        BY <2>1 DEF Open
      <4> QED BY <1>1, <4>1, <4>2 DEF AcceptFailsOnlyWhenFull
    <3>2. CASE ~GetPeerAddr(Head(backlog))
      BY <1>1, <2>1, <3>2 DEF AcceptFailsOnlyWhenFull, GetPeerAddr
    <3> QED BY <1>3, <3>1, <3>2
  <2> QED BY <1>1, <2>2, <2>3, <2>4 DEF IInv
<1>4. CASE Free # {} /\ GetPeerAddr(Head(backlog))
  <2> DEFINE c == Head(backlog)
             f == AcceptedFd
  <2>1. /\ backlog' = Tail(backlog)
        /\ fd' = [fd EXCEPT ![c] = f]
        /\ ready' = ready \cup {c}
        /\ endpoints' = [endpoints EXCEPT ![f] = c]
        /\ peak' = IF Used + 1 > peak THEN Used + 1 ELSE peak
        /\ running' = running
    BY <1>1, <1>4 DEF HandleNewConnection, Store
  <2>2. /\ f \in Fds /\ f # monitor /\ \A d \in Conns : fd[d] # f
        /\ f # -1 /\ Used \in Nat /\ f <= Used + 1
    BY <1>4, AcceptedFdIsLowest, LowestMeansUsed, BoundsAssumption DEF Free, Fds
  <2>3. c \in Conns
    BY <1>2
  <2> HIDE DEF c, f
  <2>4. TypeOK'
    <3>1. peak' \in Nat
      BY <2>1, <2>2 DEF IInv, Ownership, TypeOK
    <3>2. fd' \in [Conns -> Fds \cup {-1}] /\ endpoints' \in [Fds -> Conns \cup {None}]
      BY <2>1, <2>2, <2>3 DEF IInv, Ownership, TypeOK
    <3>3. ready' \in SUBSET Conns /\ backlog' \in Seq(Conns) /\ lbatch' \in BOOLEAN
      BY <1>1, <1>2, <2>1, <2>3 DEF IInv, Ownership, TypeOK
    <3> QED BY <1>1, <2>1, <3>1, <3>2, <3>3 DEF IInv, Ownership, TypeOK
  <2>5. /\ fd'[c] = f /\ \A d \in Conns : d # c => fd'[d] = fd[d]
        /\ endpoints'[f] = c /\ \A g \in Fds : g # f => endpoints'[g] = endpoints[g]
    BY <2>1, <2>2, <2>3 DEF IInv, Ownership, TypeOK
  <2>6. OpenIsOwned'
    <3> SUFFICES ASSUME NEW d \in Conns, fd'[d] # -1
                 PROVE  endpoints'[fd'[d]] = d /\ fd'[d] # monitor'
      BY DEF OpenIsOwned, Open
    <3>1. CASE d = c
      BY <1>1, <2>2, <2>5, <3>1
    <3>2. CASE d # c
      <4>1. d \in Open /\ fd'[d] = fd[d] /\ fd[d] # f
        BY <2>2, <2>5, <3>2 DEF Open
      <4>2. fd[d] \in Fds
        BY <4>1 DEF IInv, Ownership, TypeOK, Open
      <4> QED BY <1>1, <2>5, <4>1, <4>2 DEF IInv, Ownership, OpenIsOwned
    <3> QED BY <3>1, <3>2
  <2>7. Open \cup {c} \subseteq Open'
    BY <2>2, <2>3, <2>5 DEF Open
  <2>8. Open' \subseteq Alive'
    BY <2>4, <2>6 DEF TypeOK, OpenIsOwned, Open, Alive
  <2>9. NoDanglingToken'
    BY <1>1, <2>1, <2>7, <2>8 DEF IInv, Ownership, NoDanglingToken
  <2>10. \A g \in Keys' : g <= peak'
    <3>1. peak \in Nat
      BY DEF IInv, Ownership, TypeOK
    <3>2. peak' \in Nat /\ peak <= peak' /\ f <= peak'
      BY <2>1, <2>2, <3>1, LargerPeak DEF Fds
    <3> SUFFICES ASSUME NEW g \in Fds, endpoints'[g] # None PROVE g <= peak'
      BY DEF Keys
    <3>3. CASE g = f
      BY <3>2, <3>3
    <3>4. CASE g # f
      <4>1. g <= peak /\ g \in Nat
        BY <2>5, <3>4, BoundsAssumption DEF IInv, Keys, Fds
      <4> QED BY <3>1, <3>2, <4>1
    <3> QED BY <3>3, <3>4
  <2>11. AcceptFailsOnlyWhenFull'
    BY <1>1, <2>1 DEF AcceptFailsOnlyWhenFull
  <2> QED BY <1>1, <2>4, <2>6, <2>9, <2>10, <2>11 DEF IInv, Ownership
<1> QED BY <1>3, <1>4

LEMMA HandleDataInv == ASSUME IInv, NEW c \in Conns, HandleData(c) PROVE IInv'
<1>1. Untouched /\ UNCHANGED <<lbatch, ready, lready, backlog, peer>> /\ running
  BY DEF HandleData, Untouched
<1>2. Open' = Open /\ Alive' = Alive /\ OpenIsOwned' /\ \A f \in Keys' : f <= peak'
  BY <1>1, UntouchedKeeps
<1>3. /\ batch' \in [Conns -> {"none", "data", "hup"}]
      /\ \A d \in Conns : batch'[d] # "none" => batch[d] # "none"
  BY DEF HandleData, IInv, Ownership, TypeOK
<1>4. TypeOK'
  BY <1>1, <1>3 DEF IInv, Ownership, TypeOK, Untouched
<1>5. NoDanglingToken'
  BY <1>1, <1>2, <1>3 DEF IInv, Ownership, NoDanglingToken
<1>6. AcceptFailsOnlyWhenFull'
  BY <1>1 DEF AcceptFailsOnlyWhenFull, Untouched
<1> QED BY <1>1, <1>2, <1>4, <1>5, <1>6 DEF IInv, Ownership

(* erase(-1) erases nothing, so OnError leaves endpoints_ as it is.        *)
LEMMA HandleErrorInv == ASSUME IInv, NEW c \in Conns, HandleError(c) PROVE IInv'
<1>1. /\ running /\ UNCHANGED <<running, lbatch, lready, backlog, peer, monitor, peak>>
      /\ fd' = [fd EXCEPT ![c] = -1] /\ ready' = ready \ {c}
      /\ batch' = [batch EXCEPT ![c] = "none"]
  BY DEF HandleError, Close
<1>2. fd'[c] = -1 /\ \A d \in Conns : d # c => fd'[d] = fd[d]
  BY <1>1 DEF IInv, Ownership, TypeOK
<1>3. endpoints' = endpoints
  <2>1. \A f \in Fds : f # fd'[c]
    BY <1>2, BoundsAssumption DEF Fds
  <2> QED BY <2>1 DEF HandleError, IInv, Ownership, TypeOK
<1>4. TypeOK'
  BY <1>1, <1>3 DEF IInv, Ownership, TypeOK
<1>5. Open' = Open \ {c} /\ Alive' = Alive /\ Keys' = Keys
  BY <1>2, <1>3 DEF Open, Alive, Keys
<1>6. OpenIsOwned'
  BY <1>1, <1>2, <1>3, <1>5 DEF IInv, Ownership, OpenIsOwned, Open
<1>7. NoDanglingToken'
  <2>1. \A d \in Conns : batch'[d] # "none" \/ d \in ready' => d # c /\ (batch[d] # "none" \/ d \in ready)
    BY <1>1 DEF IInv, Ownership, TypeOK
  <2> QED BY <1>5, <2>1 DEF IInv, Ownership, NoDanglingToken
<1>8. AcceptFailsOnlyWhenFull'
  BY <1>1 DEF AcceptFailsOnlyWhenFull
<1> QED BY <1>1, <1>4, <1>5, <1>6, <1>7, <1>8 DEF IInv, Ownership

LEMMA MonitorInv == IInv /\ (MonitorOpen \/ MonitorClose) => IInv'
<1> SUFFICES ASSUME IInv, MonitorOpen \/ MonitorClose PROVE IInv'
  OBVIOUS
<1>1. running /\ UNCHANGED <<batch, lbatch, fd, endpoints, ready, lready, backlog, peer, peak>>
  BY DEF MonitorOpen, MonitorClose
<1>2. Open' = Open /\ Alive' = Alive /\ Keys' = Keys
  BY <1>1 DEF Open, Alive, Keys
<1>3. \/ running' = running /\ monitor' \in Free
      \/ running' = running /\ monitor' = -1
      \/ running' = FALSE /\ monitor' = monitor /\ Free = {}
  BY AcceptedFdIsLowest DEF MonitorOpen, MonitorClose
<1>4. TypeOK'
  BY <1>1, <1>3 DEF IInv, Ownership, TypeOK, Free
<1>5. NoDanglingToken'
  BY <1>1, <1>2 DEF IInv, Ownership, NoDanglingToken
<1>6. OpenIsOwned'
  BY <1>1, <1>2, <1>3 DEF IInv, Ownership, OpenIsOwned, Open, Free
<1>7. AcceptFailsOnlyWhenFull'
  <2>1. CASE running' = running
    BY <1>1, <2>1 DEF AcceptFailsOnlyWhenFull
  <2>2. CASE monitor' = monitor /\ Free = {}
    BY <1>2, <2>2, FullMeansOpen DEF IInv, AcceptFailsOnlyWhenFull
  <2> QED BY <1>3, <2>1, <2>2
<1> QED BY <1>1, <1>2, <1>4, <1>5, <1>6, <1>7 DEF IInv, Ownership

(* The inductive invariant of connections, objects and descriptors, which  *)
(* every step of the server, the clients and the CPU monitor preserves.    *)
THEOREM Invariance == Spec => []IInv
<1>1. IInv /\ UNCHANGED vars => IInv'
  BY DEF IInv, Ownership, TypeOK, NoDanglingToken, OpenIsOwned, AcceptFailsOnlyWhenFull,
         Open, Alive, Keys, vars
<1>2. IInv /\ [Next]_vars => IInv'
  BY <1>1, ConnectInv, EdgeInv, PollUntilInv, HandleNewConnectionInv, HandleDataInv,
     HandleErrorInv, MonitorInv DEF Next, Server
<1> QED BY <1>2, InitInv, PTL DEF Spec

-----------------------------------------------------------------------------
(* Every token of an event is the address of a live endpoint with an open  *)
(* socket, and every open socket is owned by the entry of its descriptor.  *)
THEOREM TokensAreOwned == Spec => []Ownership
<1>1. IInv => Ownership
  BY DEF IInv
<1> QED BY <1>1, Invariance, PTL

(* The objects that erase(-1) leaves behind never outnumber the most       *)
(* descriptors in use at an accept: their keys are that low.               *)
THEOREM LeakIsBounded == Spec => []LeakBounded
<1>1. ASSUME IInv PROVE LeakBounded
  <2>1. peak \in Nat /\ endpoints \in [Fds -> Conns \cup {None}]
    BY <1>1 DEF IInv, Ownership, TypeOK
  <2>2. Keys \in SUBSET (1..peak)
    BY <1>1, <2>1, BoundsAssumption DEF IInv, Keys, Fds
  <2>3. IsFiniteSet(1..peak) /\ Cardinality(1..peak) = peak
    BY <2>1, FS_Interval
  <2>4. IsFiniteSet(Keys) /\ Cardinality(Keys) <= peak
    BY <2>2, <2>3, FS_Subset
  <2> DEFINE E == [f \in Keys |-> endpoints[f]]
  <2>5. E \in Surjection(Keys, Alive)
    <3>1. E \in [Keys -> Alive]
      BY <2>1 DEF Keys, Alive
    <3>2. \A c \in Alive : \E f \in Keys : E[f] = c
      BY ConnsAssumption DEF Keys, Alive
    <3> QED BY <3>1, <3>2, Fun_IsSurj
  <2>6. Cardinality(Alive) <= Cardinality(Keys) /\ IsFiniteSet(Alive)
    BY <2>4, <2>5, FS_Surjection
  <2>7. Cardinality(Alive) \in Nat /\ Cardinality(Keys) \in Nat
    BY <2>4, <2>6, FS_CardinalityType
  <2> QED BY <2>1, <2>4, <2>6, <2>7 DEF LeakBounded
<1>2. IInv => LeakBounded
  BY <1>1
<1> QED BY <1>2, Invariance, PTL

(* A PCHECK of Accept, or the monitor's fopen, fails only with every       *)
(* descriptor in use or for a connection reset in the backlog.             *)
THEOREM AcceptFailsWhenFull == Spec => []AcceptFailsOnlyWhenFull
<1>1. IInv => AcceptFailsOnlyWhenFull
  BY DEF IInv
<1> QED BY <1>1, Invariance, PTL

-----------------------------------------------------------------------------
(* How a server comes up: past SetReuseAddr, its listener has the option.  *)
BootInv ==
  /\ BootTypeOK
  /\ \A p \in Servers : server[p] \in {"bind", "listen", "register", "serving"} => p \in reuse

LEMMA BootStart ==
  ASSUME BootInit
  PROVE  BootInv
<1>1. timewait \in BOOLEAN /\ kills \in 0..MaxKills
  BY InitAssumption DEF BootInit
<1>2. BootTypeOK
  BY <1>1 DEF BootInit, BootTypeOK
<1> QED BY <1>2 DEF BootInit, BootInv

LEMMA ServerBoots ==
  ASSUME BootInv, NEW p \in Servers, ServerInit(p)
  PROVE  BootInv' /\ (server'[p] = "aborted" => \E q \in Others(p) : Listening(q))
<1>1. /\ server \in [Servers -> {"off", "reuse", "bind", "listen", "register", "serving", "aborted"}]
      /\ reuse \subseteq Servers /\ timewait \in BOOLEAN
  BY DEF BootInv, BootTypeOK
<1>2. PICK to \in {"reuse", "bind", "listen", "register", "serving", "aborted"} : Go(p, to)
  BY DEF ServerInit, Start, SetReuseAddr, Bind, Listen, Register
<1>3. /\ server' \in [Servers -> {"off", "reuse", "bind", "listen", "register", "serving", "aborted"}]
      /\ server'[p] = to /\ \A q \in Servers : q # p => server'[q] = server[q]
  BY <1>1, <1>2 DEF Go
<1>4. UNCHANGED <<family, timewait, client, kills>> /\ reuse' \subseteq Servers /\ reuse \subseteq reuse'
  BY <1>1 DEF ServerInit, Start, SetReuseAddr, Bind, Listen, Register
<1>5. BootTypeOK'
  BY <1>3, <1>4 DEF BootInv, BootTypeOK
<1>6. to \in {"bind", "listen", "register", "serving"} => p \in reuse'
  <2>1. CASE Start(p)
    BY <1>1, <1>3, <2>1 DEF Start, Go
  <2>2. CASE SetReuseAddr(p)
    BY <2>2 DEF SetReuseAddr
  <2>3. CASE Bind(p) \/ Listen(p) \/ Register(p)
    BY <2>3 DEF Bind, Listen, Register, BootInv
  <2> QED BY <2>1, <2>2, <2>3 DEF ServerInit
<1>7. BootInv'
  BY <1>3, <1>4, <1>5, <1>6 DEF BootInv
<1>8. ASSUME to = "aborted" PROVE \E q \in Others(p) : Listening(q)
  <2>1. CASE Start(p) \/ SetReuseAddr(p) \/ Register(p)
    BY <1>1, <1>3, <1>8, <2>1 DEF Start, SetReuseAddr, Register, Go
  <2>2. CASE Listen(p)
    BY <1>1, <1>3, <1>8, <2>2 DEF Listen, Go
  <2>3. CASE Bind(p)
    <3>1. p \in reuse /\ \A q \in Others(p) : server[q] = "listen" => {p, q} \subseteq reuse
      BY <2>3 DEF Bind, BootInv, Others
    <3>2. \/ \E q \in Others(p) : Listening(q)
          \/ \E q \in Others(p) : server[q] = "listen" /\ ~({p, q} \subseteq reuse)
          \/ timewait /\ p \notin reuse
      BY <1>1, <1>3, <1>8, <2>3 DEF Bind, Go
    <3> QED BY <3>1, <3>2
  <2> QED BY <2>1, <2>2, <2>3 DEF ServerInit
<1> QED BY <1>3, <1>7, <1>8

LEMMA KillBoot ==
  ASSUME BootInv, NEW p \in Servers, Kill(p)
  PROVE  BootInv' /\ server' = [server EXCEPT ![p] = "off"]
<1>1. /\ server \in [Servers -> {"off", "reuse", "bind", "listen", "register", "serving", "aborted"}]
      /\ reuse \subseteq Servers /\ timewait \in BOOLEAN /\ kills \in 0..MaxKills
  BY DEF BootInv, BootTypeOK
<1>2. server' = [server EXCEPT ![p] = "off"] /\ reuse' = reuse \ {p} /\ UNCHANGED <<family, client>>
  BY DEF Kill, Go
<1>3. kills' \in 0..MaxKills
  BY <1>1, InitAssumption DEF Kill
<1>4. timewait' \in BOOLEAN
  BY <1>1, Zenon DEF Kill
<1>5. /\ server' \in [Servers -> {"off", "reuse", "bind", "listen", "register", "serving", "aborted"}]
      /\ server'[p] = "off" /\ \A q \in Servers : q # p => server'[q] = server[q]
  BY <1>1, <1>2
<1>6. BootTypeOK'
  BY <1>1, <1>2, <1>3, <1>4, <1>5 DEF BootInv, BootTypeOK
<1> QED BY <1>2, <1>5, <1>6 DEF BootInv

LEMMA OtherBoot ==
  ASSUME BootInv, ClientInit \/ Linger \/ UNCHANGED boot
  PROVE  BootInv' /\ server' = server
<1>1. UNCHANGED <<family, server, reuse, kills>>
  BY DEF ClientInit, TryConnect, Retry, SetNonBlock, Linger, boot
<1>2. client' \in {"connect", "sleep", "nonblock", "ready"}
  BY DEF BootInv, BootTypeOK, ClientInit, TryConnect, Retry, SetNonBlock, Linger, boot
<1>3. timewait' \in BOOLEAN
  <2>1. timewait' = FALSE \/ timewait' = timewait
    BY DEF ClientInit, TryConnect, Retry, SetNonBlock, Linger, boot
  <2> QED BY <2>1 DEF BootInv, BootTypeOK
<1>4. BootTypeOK'
  BY <1>1, <1>2, <1>3 DEF BootInv, BootTypeOK
<1> QED BY <1>1, <1>4 DEF BootInv

(* Of any number of servers that are started on one port, in whatever      *)
(* order they go through Init and whichever are killed and started again,  *)
(* one gives up only while another listens: SO_REUSEADDR is set before     *)
(* bind in every one of them, so neither TIME_WAIT nor a socket that is    *)
(* bound and does not yet listen can make PCHECK fail.                     *)
THEOREM PortIsHeld == BootSpec => PortHeld
<1> DEFINE Gives(p) == server'[p] = "aborted" /\ server[p] # "aborted"
<1>1. BootInit => BootInv
  BY BootStart
<1>2. ASSUME BootInv, [BootNext]_boot
      PROVE  BootInv' /\ \A p \in Servers : Gives(p) => \E q \in Others(p) : Listening(q)
  <2>1. ASSUME NEW r \in Servers, ServerInit(r)
        PROVE  BootInv' /\ \A p \in Servers : Gives(p) => \E q \in Others(p) : Listening(q)
    <3>1. \A p \in Servers : p # r => server'[p] = server[p]
      BY <1>2, <2>1 DEF BootInv, BootTypeOK, ServerInit, Start, SetReuseAddr, Bind, Listen, Register, Go
    <3> QED BY <1>2, <2>1, <3>1, ServerBoots
  <2>2. ASSUME NEW r \in Servers, Kill(r)
        PROVE  BootInv' /\ \A p \in Servers : Gives(p) => \E q \in Others(p) : Listening(q)
    BY <1>2, <2>2, KillBoot DEF BootInv, BootTypeOK
  <2>3. CASE ClientInit \/ Linger \/ UNCHANGED boot
    BY <1>2, <2>3, OtherBoot
  <2> QED BY <1>2, <2>1, <2>2, <2>3 DEF BootNext
<1>3. BootInv => BootTypeOK
  BY DEF BootInv
<1>4. BootSpec => []BootInv
  BY <1>1, <1>2, PTL DEF BootSpec
<1>5. BootSpec => AbortsOnlyToAnother
  BY <1>2, <1>4, PTL DEF BootSpec, AbortsOnlyToAnother
<1> QED BY <1>3, <1>4, <1>5, PTL DEF PortHeld

=============================================================================
