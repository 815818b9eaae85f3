--------------------------- MODULE SocketBwProofs ---------------------------
(***************************************************************************)
(* Proofs about SocketBw for any number of clients, any message sizes and  *)
(* any buffer sizes.  The invariants the runs check are not inductive: the *)
(* parser's position, the reply bytes under way and the places where a     *)
(* wakeup may be pending have to be known at every program counter, not    *)
(* only between two events.                                                *)
(***************************************************************************)
EXTENDS SocketBw, SequenceTheorems, TLAPS

(* c's event is being handled, at one of the places in P.                  *)
At(c, P) == cur = c /\ pc \in P

(* Where the loop is, and what holds of the connection it serves.          *)
LoopInv ==
  /\ pc = "loop" <=> cur = NoClient
  /\ pc # "loop" => open[cur] = "open"
  /\ pc = "meta" => state[cur] = "NEW_RPC" /\ n < MetaSize
  /\ pc = "header" => state[cur] = "META_RECVED"
  /\ pc = "data" => state[cur] = "HEADER_RECVED"
  /\ pc = "reply" => state[cur] = "DATA_RECVED"
  /\ pc = "rearm" => ("W" \notin interest[cur] => txq[cur] = <<>>)
  /\ pc = "error" => "HUP" \in mask[cur]
  /\ pc = "aborted" => state[cur] = "REPLYING" /\ cpc[cur] = "dead"
  /\ IdleClientNeverBlocks

(* Life of a connection: registration, events, the other end.              *)
LifeInv(c) ==
  /\ open[c] = "backlog" =>
       /\ state[c] = "NEW_RPC" /\ txq[c] = <<>> /\ outq[c] = 0
       /\ ~nospace[c]
  /\ open[c] # "open" => reg[c] = {} /\ mask[c] = {} /\ c \notin ready /\ cur # c
  /\ open[c] = "open" => "R" \in interest[c] /\ "R" \in reg[c]
  /\ open[c] = "open" /\ ~At(c, {"rearm"}) => reg[c] = interest[c]
  /\ open[c] = "closed" => fin[c] \/ rst[c]
  /\ "HUP" \in mask[c] => fin[c] \/ rst[c]
  /\ "IN" \in mask[c] /\ cur # c => inq[c] > 0 \/ fin[c] \/ rst[c]
  /\ fin[c] \/ rst[c] => Gone(c)
  /\ acks[c] <= calls[c]
  /\ ~Gone(c) => calls[c] < MaxRpcs

(* The request stream.                                                     *)
ParseInv(c) ==
  /\ csent[c] <= RequestSize(c)
  /\ cpc[c] = "send" => csent[c] < RequestSize(c)
  /\ cpc[c] = "recv" => csent[c] = RequestSize(c)
  /\ state[c] = "DATA_RECVED" => At(c, {"reply"})
  /\ pc # "aborted" => inq[c] <= csent[c]
  /\ pc # "aborted" /\ cpc[c] = "done" =>
       state[c] = "NEW_RPC" /\ csent[c] = RequestSize(c) /\ inq[c] = 0 /\ outq[c] = 0
  /\ pc # "aborted" /\ state[c] = "NEW_RPC" =>
       \/ inq[c] = 0 /\ Gone(c)
       \/ At(c, {"meta"}) /\ Offset(c) = n
       \/ ~At(c, {"meta"}) /\ Offset(c) \in {0, RequestSize(c)}
  /\ state[c] = "META_RECVED" =>
       /\ hdrLen[c] = HeaderSize /\ hdrGot[c] < HeaderSize
       /\ datLen[c] = DataSize[c] /\ datGot[c] = 0
       /\ pc # "aborted" => Offset(c) = MetaSize + hdrGot[c]
  /\ state[c] = "HEADER_RECVED" =>
       /\ hdrLen[c] = HeaderSize
       /\ datLen[c] = DataSize[c]
       /\ datGot[c] < DataSize[c] \/ (DataSize[c] = 0 /\ datGot[c] = 0)
       /\ pc # "aborted" => Offset(c) = MetaSize + HeaderSize + datGot[c]
  /\ state[c] \in {"DATA_RECVED", "REPLYING"} =>
       /\ hdrLen[c] = HeaderSize
       /\ pc # "aborted" => Offset(c) = RequestSize(c)
  /\ datLen[c] \in {0, DataSize[c]}

(* The reply stream.                                                       *)
ReplyInv(c) ==
  /\ state[c] = "REPLYING" => txq[c] = <<Head(txq[c])>>
  /\ state[c] # "REPLYING" => txq[c] = <<>>
  /\ state[c] \in {"META_RECVED", "HEADER_RECVED", "DATA_RECVED"} =>
       outq[c] = 0 /\ (cpc[c] = "recv" => cgot[c] = 0)
  /\ pc # "aborted" /\ cpc[c] = "send" =>
       outq[c] = 0 /\ cgot[c] = 0 /\ state[c] # "REPLYING"
  /\ cpc[c] = "recv" /\ state[c] = "REPLYING" =>
       cgot[c] + outq[c] + Head(txq[c]) = HeaderSize
  /\ pc # "aborted" /\ cpc[c] = "recv" /\ state[c] = "NEW_RPC" =>
       cgot[c] + outq[c] = IF Offset(c) = RequestSize(c) THEN HeaderSize ELSE 0
  /\ pc # "aborted" /\ state[c] = "NEW_RPC" /\ inq[c] > 0 => outq[c] = 0
  /\ pc # "aborted" /\ rst[c] => cpc[c] = "dead" /\ outq[c] > 0

(* Every condition the server must react to has a wakeup on its way.       *)
WakeInv(c) ==
  pc # "aborted" /\ open[c] = "open" =>
    /\ inq[c] > 0 =>
         \/ c \in ready
         \/ "IN" \in mask[c] /\ cur # c
         \/ At(c, {"meta", "header", "data"})
    /\ fin[c] \/ rst[c] => c \in ready \/ "HUP" \in mask[c]
    /\ txq[c] # <<>> /\ ~At(c, {"send", "rearm"}) =>
         /\ "W" \in interest[c]
         /\ \/ c \in ready
            \/ Room(c) = 0 /\ nospace[c]
            \/ "OUT" \in mask[c] /\ cur # c
            \/ rst[c]

ConnInv(c) == LifeInv(c) /\ ParseInv(c) /\ ReplyInv(c) /\ WakeInv(c)

IInv ==
  /\ TypeOK
  /\ LoopInv
  /\ \A c \in Clients : ConnInv(c)

-----------------------------------------------------------------------------
USE ClientsAssumption, SizesAssumption, LimitsAssumption

(* What TypeOK says of one connection.                                     *)
TypeAt(c) ==
  /\ mask[c] \subseteq {"IN", "OUT", "HUP"}
  /\ open[c] \in {"backlog", "open", "closed"}
  /\ state[c] \in States
  /\ interest[c] \subseteq {"R", "W"}
  /\ hdrLen[c] \in Nat /\ hdrGot[c] \in Nat /\ datLen[c] \in Nat /\ datGot[c] \in Nat
  /\ reg[c] \subseteq {"R", "W"}
  /\ hdrGot[c] <= HeaderSize /\ cgot[c] <= HeaderSize
  /\ inq[c] \in Nat /\ inq[c] <= RcvCap /\ outq[c] \in Nat /\ outq[c] <= SndCap
  /\ csent[c] \in Nat /\ cgot[c] \in Nat /\ calls[c] \in Nat /\ acks[c] \in Nat
  /\ cpc[c] \in {"send", "recv", "done", "dead"}
  /\ DataSize[c] \in Nat

LEMMA TypeOKAt ==
  ASSUME TypeOK, NEW c \in Clients
  PROVE  TypeAt(c)
<1>1. mask[c] \in SUBSET {"IN", "OUT", "HUP"}
  BY DEF TypeOK
<1>2. interest[c] \in SUBSET {"R", "W"} /\ reg[c] \in SUBSET {"R", "W"}
  BY DEF TypeOK
<1>3. inq[c] \in 0..RcvCap /\ outq[c] \in 0..SndCap /\ cgot[c] \in 0..HeaderSize
  BY DEF TypeOK
<1>4. hdrLen[c] \in {0, HeaderSize} /\ hdrGot[c] \in 0..HeaderSize
  BY DEF TypeOK
<1>5. calls[c] \in 0..MaxRpcs /\ acks[c] \in 0..MaxRpcs
  BY DEF TypeOK
<1>6. /\ datLen[c] \in Nat /\ datGot[c] \in Nat /\ csent[c] \in Nat
      /\ DataSize[c] \in Nat
  BY DEF TypeOK
<1>7. /\ open[c] \in {"backlog", "open", "closed"}
      /\ state[c] \in States
      /\ cpc[c] \in {"send", "recv", "done", "dead"}
  BY DEF TypeOK
<1> QED BY <1>1, <1>2, <1>3, <1>4, <1>5, <1>6, <1>7 DEF TypeAt

(* Nothing about connection c changes.                                     *)
Same(c) ==
  /\ mask'[c] = mask[c] /\ open'[c] = open[c] /\ state'[c] = state[c]
  /\ interest'[c] = interest[c] /\ reg'[c] = reg[c]
  /\ hdrLen'[c] = hdrLen[c] /\ hdrGot'[c] = hdrGot[c]
  /\ datLen'[c] = datLen[c] /\ datGot'[c] = datGot[c]
  /\ txq'[c] = txq[c] /\ inq'[c] = inq[c] /\ outq'[c] = outq[c]
  /\ nospace'[c] = nospace[c] /\ fin'[c] = fin[c] /\ rst'[c] = rst[c]
  /\ cpc'[c] = cpc[c] /\ csent'[c] = csent[c] /\ cgot'[c] = cgot[c]
  /\ calls'[c] = calls[c] /\ acks'[c] = acks[c]
  /\ c \in ready' <=> c \in ready

(* A step about another connection preserves c's invariant.                *)
LEMMA Frame ==
  ASSUME NEW c \in Clients, ConnInv(c), Same(c),
         \/ cur # c /\ cur' # c /\ (pc = "aborted" => pc' = "aborted")
         \/ UNCHANGED <<pc, cur, n>>
  PROVE  ConnInv(c)'
<1> USE DEF ConnInv, Same, At, Gone, Offset, RequestSize, Room
<1>1. LifeInv(c)'
  BY DEF LifeInv
<1>2. ParseInv(c)'
  BY DEF ParseInv
<1>3. ReplyInv(c)'
  BY DEF ReplyInv
<1>4. WakeInv(c)'
  BY DEF WakeInv
<1> QED BY <1>1, <1>2, <1>3, <1>4

-----------------------------------------------------------------------------
(* The three ways in which a handler of d's event is left.                 *)
Leaves(d) ==
  /\ phase' \in {"recv", "write"}
  /\ mask' \in [Clients -> SUBSET {"IN", "OUT", "HUP"}]
  /\ \A c \in Clients : c # d => mask'[c] = mask[c]
  /\ \/ pc' = "send" /\ cur' = d /\ mask'[d] = mask[d]
     \/ pc' = "error" /\ cur' = d /\ mask'[d] = mask[d] /\ "HUP" \in mask[d]
     \/ pc' = "loop" /\ cur' = NoClient /\ mask'[d] = {} /\ "HUP" \notin mask[d]

LEMMA EndWriteLeaves ==
  ASSUME TypeOK, NEW d \in Clients, EndWrite(d)
  PROVE  Leaves(d)
<1>1. /\ phase \in {"recv", "write"}
      /\ mask \in [Clients -> SUBSET {"IN", "OUT", "HUP"}]
  BY DEF TypeOK
<1>2. CASE "HUP" \in mask[d]
  BY <1>1, <1>2 DEF EndWrite, Leaves
<1>3. CASE "HUP" \notin mask[d]
  BY <1>1, <1>3 DEF EndWrite, EndEvent, Leaves
<1> QED BY <1>2, <1>3

LEMMA EndRecvLeaves ==
  ASSUME TypeOK, NEW d \in Clients, EndRecv(d)
  PROVE  Leaves(d)
BY EndWriteLeaves DEF EndRecv, Leaves, TypeOK

LEMMA EndSendLeaves ==
  ASSUME TypeOK, NEW d \in Clients, EndSend(d)
  PROVE  Leaves(d)
BY EndWriteLeaves, EndRecvLeaves DEF EndSend

(* What is known of d while its event is handled.                          *)
LEMMA AtD ==
  ASSUME IInv, NEW d \in Clients
  PROVE  TypeAt(d) /\ LoopInv /\ LifeInv(d) /\ ParseInv(d) /\ ReplyInv(d) /\ WakeInv(d)
BY TypeOKAt DEF IInv, ConnInv

LEMMA ReceiveHeaderInv ==
  ASSUME IInv, NEW d \in Clients, ReceiveHeader(d)
  PROVE  IInv'
<1>1. /\ pc = "header" /\ cur = d /\ TypeOK
      /\ UNCHANGED <<n, open, interest, hdrLen, datLen, datGot, txq,
                     reg, ready, outq, nospace, fin, rst, clientVars>>
  BY DEF IInv, ReceiveHeader
<1>2. TypeAt(d) /\ LoopInv /\ LifeInv(d) /\ ParseInv(d) /\ ReplyInv(d) /\ WakeInv(d)
  BY AtD
<1>3. /\ state[d] = "META_RECVED" /\ open[d] = "open" /\ ~Fatal(d)
      /\ hdrLen[d] = HeaderSize /\ hdrGot[d] < HeaderSize
  BY <1>1, <1>2 DEF LoopInv, ParseInv, ReplyInv, Fatal, States, TypeAt
<1> DEFINE others ==
      \A c \in Clients : c # d =>
        /\ mask'[c] = mask[c] /\ state'[c] = state[c]
        /\ inq'[c] = inq[c] /\ hdrGot'[c] = hdrGot[c]
    types ==
      /\ phase' \in {"recv", "write"}
      /\ mask' \in [Clients -> SUBSET {"IN", "OUT", "HUP"}]
      /\ state' \in [Clients -> States]
      /\ inq' \in [Clients -> 0..RcvCap]
      /\ hdrGot' \in [Clients -> 0..HeaderSize]
    step ==
      \/ /\ inq[d] > 0 /\ inq'[d] = 0 /\ hdrGot'[d] = hdrGot[d] + inq[d]
         /\ hdrGot'[d] < HeaderSize /\ state'[d] = "META_RECVED" /\ Leaves(d)
      \/ /\ inq[d] > 0 /\ inq'[d] = inq[d] - (HeaderSize - hdrGot[d])
         /\ hdrGot'[d] = HeaderSize /\ state'[d] = "HEADER_RECVED"
         /\ inq'[d] >= 0
         /\ pc' = "data" /\ cur' = d /\ mask' = mask /\ phase' = phase
      \/ /\ inq[d] = 0 /\ inq' = inq /\ hdrGot' = hdrGot /\ state' = state /\ Leaves(d)
<1>5. others /\ types /\ step
  <2> DEFINE k == Lesser(inq[d], hdrLen[d] - hdrGot[d])
  <2>1. /\ k \in Nat
        /\ k = IF inq[d] < HeaderSize - hdrGot[d] THEN inq[d] ELSE HeaderSize - hdrGot[d]
    BY <1>2, <1>3 DEF Lesser, TypeAt
  <2>2. inq[d] - k \in 0..RcvCap /\ hdrGot[d] + k \in 0..HeaderSize
    BY <1>2, <1>3, <2>1 DEF TypeAt
  <2>t. /\ mask \in [Clients -> SUBSET {"IN", "OUT", "HUP"}]
        /\ state \in [Clients -> States]
        /\ inq \in [Clients -> 0..RcvCap]
        /\ hdrGot \in [Clients -> 0..HeaderSize]
        /\ phase \in {"recv", "write"}
        /\ {"META_RECVED", "HEADER_RECVED"} \subseteq States
    BY <1>1 DEF TypeOK, States
  <2> HIDE DEF k
  <2>3. CASE /\ inq[d] > 0
             /\ inq' = [inq EXCEPT ![d] = @ - k]
             /\ hdrGot' = [hdrGot EXCEPT ![d] = @ + k]
             /\ hdrGot[d] + k = HeaderSize
             /\ state' = [state EXCEPT ![d] = "HEADER_RECVED"]
             /\ Chain(d, "data")
    BY <1>1, <1>2, <1>3, <2>1, <2>2, <2>3, <2>t DEF Chain, TypeAt
  <2>4. CASE /\ inq[d] > 0
             /\ inq' = [inq EXCEPT ![d] = @ - k]
             /\ hdrGot' = [hdrGot EXCEPT ![d] = @ + k]
             /\ hdrGot[d] + k # HeaderSize
             /\ EndRecv(d)
             /\ state' = state
    <3>1. Leaves(d)
      BY <1>1, <2>4, EndRecvLeaves
    <3> QED BY <1>1, <1>2, <1>3, <2>1, <2>2, <2>4, <2>t, <3>1 DEF Leaves, TypeAt
  <2>5. CASE inq[d] = 0 /\ EndRecv(d) /\ UNCHANGED <<inq, hdrGot, state>>
    <3>1. Leaves(d)
      BY <1>1, <2>5, EndRecvLeaves
    <3>2. others /\ types
      BY <2>5, <2>t, <3>1 DEF Leaves
    <3>3. step
      BY <2>5, <3>1
    <3> QED BY <3>2, <3>3
  <2> QED BY <1>3, <2>3, <2>4, <2>5 DEF ReceiveHeader, IsClear, k
<1>6. TypeOK'
  BY <1>1, <1>5 DEF TypeOK, Leaves, PCs, clientVars
<1>7. LoopInv'
  BY <1>1, <1>2, <1>3, <1>5 DEF LoopInv, LifeInv, Leaves, clientVars, IdleClientNeverBlocks
<1>8. LifeInv(d)'
  BY <1>1, <1>2, <1>3, <1>5 DEF LoopInv, LifeInv, Leaves, clientVars, At, Gone
<1>9. ParseInv(d)'
  BY <1>1, <1>2, <1>3, <1>5 DEF LoopInv, ParseInv, TypeAt, Leaves, clientVars, At, Gone, Offset, RequestSize
<1>10. ReplyInv(d)'
  BY <1>1, <1>2, <1>3, <1>5 DEF LoopInv, ReplyInv, Leaves, clientVars
<1>11. WakeInv(d)'
  BY <1>1, <1>2, <1>3, <1>5 DEF LoopInv, WakeInv, ReplyInv, Leaves, clientVars, At, Room
<1>12. ASSUME NEW c \in Clients, c # d PROVE ConnInv(c)'
  BY <1>1, <1>5, <1>12, Frame DEF IInv, Same, clientVars, Leaves
<1> QED BY <1>6, <1>7, <1>8, <1>9, <1>10, <1>11, <1>12 DEF IInv, ConnInv

LEMMA ReceiveMetaInv ==
  ASSUME IInv, NEW d \in Clients, ReceiveMeta(d)
  PROVE  IInv'
<1>1. /\ pc = "meta" /\ cur = d /\ TypeOK
      /\ UNCHANGED <<open, interest, txq, reg, ready, outq, nospace, fin, rst, clientVars>>
  BY DEF IInv, ReceiveMeta
<1>2. TypeAt(d) /\ LoopInv /\ LifeInv(d) /\ ParseInv(d) /\ ReplyInv(d) /\ WakeInv(d)
  BY AtD
<1>3. state[d] = "NEW_RPC" /\ open[d] = "open" /\ n \in Nat /\ n < MetaSize
  BY <1>1, <1>2 DEF LoopInv, TypeOK
<1> DEFINE others ==
      \A c \in Clients : c # d =>
        /\ mask'[c] = mask[c] /\ state'[c] = state[c] /\ inq'[c] = inq[c]
        /\ hdrLen'[c] = hdrLen[c] /\ hdrGot'[c] = hdrGot[c]
        /\ datLen'[c] = datLen[c] /\ datGot'[c] = datGot[c]
    types ==
      /\ phase' \in {"recv", "write"}
      /\ mask' \in [Clients -> SUBSET {"IN", "OUT", "HUP"}]
      /\ n' \in 0..MetaSize
      /\ state' \in [Clients -> States]
      /\ inq' \in [Clients -> 0..RcvCap]
      /\ hdrLen' \in [Clients -> {0, HeaderSize}]
      /\ hdrGot' \in [Clients -> 0..HeaderSize]
      /\ datLen' \in [Clients -> Nat]
      /\ datGot' \in [Clients -> Nat]
    partial ==
         /\ inq[d] > 0 /\ inq'[d] = 0 /\ n' = n + inq[d] /\ n' < MetaSize
         /\ UNCHANGED <<pc, cur, phase, mask, state, bufVars>>
    complete ==
         /\ inq[d] > 0 /\ inq'[d] = inq[d] - (MetaSize - n) /\ inq'[d] >= 0
         /\ hdrLen'[d] = HeaderSize /\ hdrGot'[d] = 0
         /\ datLen'[d] = DataSize[d] /\ datGot'[d] = 0
         /\ state'[d] = "META_RECVED"
         /\ pc' = "header" /\ cur' = d /\ mask' = mask /\ phase' = phase
    stops ==
         /\ inq[d] = 0 /\ (fin[d] \/ rst[d])
         /\ UNCHANGED <<n, inq, state, bufVars>> /\ Leaves(d)
<1>4. others /\ types /\ (partial \/ complete \/ stops)
  <2> DEFINE k == Lesser(inq[d], MetaSize - n)
  <2>1. /\ k \in Nat
        /\ k = IF inq[d] < MetaSize - n THEN inq[d] ELSE MetaSize - n
        /\ inq[d] - k \in 0..RcvCap /\ n + k \in 0..MetaSize
    BY <1>2, <1>3 DEF Lesser, TypeAt
  <2>2. /\ mask \in [Clients -> SUBSET {"IN", "OUT", "HUP"}]
        /\ state \in [Clients -> States]
        /\ inq \in [Clients -> 0..RcvCap]
        /\ hdrLen \in [Clients -> {0, HeaderSize}]
        /\ hdrGot \in [Clients -> 0..HeaderSize]
        /\ datLen \in [Clients -> Nat]
        /\ datGot \in [Clients -> Nat]
        /\ phase \in {"recv", "write"}
        /\ n \in 0..MetaSize
        /\ "META_RECVED" \in States
    BY <1>1 DEF TypeOK, States
  <2>3. /\ Grown(hdrLen[d], HeaderSize) = HeaderSize
        /\ Grown(datLen[d], DataSize[d]) = DataSize[d]
    BY <1>2, <2>2 DEF Grown, ParseInv, TypeAt
  <2> HIDE DEF k
  <2>4. CASE /\ inq[d] > 0
             /\ inq' = [inq EXCEPT ![d] = @ - k]
             /\ n' = n + k
             /\ n + k < MetaSize
             /\ UNCHANGED <<pc, cur, phase, mask, state, bufVars>>
    BY <1>2, <1>3, <2>1, <2>2, <2>4 DEF TypeAt, bufVars
  <2>5. CASE /\ inq[d] > 0
             /\ inq' = [inq EXCEPT ![d] = @ - k]
             /\ n' = n + k
             /\ ~(n + k < MetaSize)
             /\ NewBuffers(d)
             /\ state' = [state EXCEPT ![d] = "META_RECVED"]
             /\ Chain(d, "header")
    <3>1. inq[d] - k = inq[d] - (MetaSize - n) /\ inq[d] - k >= 0
      BY <1>2, <1>3, <2>1, <2>5 DEF TypeAt
    <3>2. /\ hdrLen' = [hdrLen EXCEPT ![d] = HeaderSize]
          /\ datLen' = [datLen EXCEPT ![d] = DataSize[d]]
          /\ hdrGot' = [hdrGot EXCEPT ![d] = 0]
          /\ datGot' = [datGot EXCEPT ![d] = 0]
      BY <2>3, <2>5 DEF NewBuffers
    <3> QED BY <1>1, <1>2, <2>1, <2>2, <2>5, <3>1, <3>2 DEF Chain, TypeAt
  <2>6. CASE inq[d] = 0 /\ RecvAllStops(d) /\ EndRecv(d) /\ UNCHANGED <<n, inq, state, bufVars>>
    BY <1>1, <2>2, <2>6, EndRecvLeaves DEF Leaves, RecvAllStops, bufVars
  <2> QED BY <2>4, <2>5, <2>6 DEF ReceiveMeta, k
<1>5. TypeOK'
  BY <1>1, <1>4 DEF TypeOK, Leaves, PCs, clientVars
<1>6. LoopInv' /\ LifeInv(d)' /\ ParseInv(d)' /\ ReplyInv(d)' /\ WakeInv(d)'
  <2>1. CASE partial
    <3>1. LoopInv' /\ LifeInv(d)'
      BY <1>1, <1>2, <1>3, <2>1 DEF LoopInv, LifeInv, TypeAt, clientVars, At, Gone, IdleClientNeverBlocks
    <3>2. ParseInv(d)'
      BY <1>1, <1>2, <1>3, <2>1 DEF ParseInv, TypeAt, clientVars, bufVars, At, Gone, Offset, RequestSize
    <3>3. ReplyInv(d)'
      BY <1>1, <1>2, <1>3, <2>1, SMTT(60) DEF ParseInv, ReplyInv, TypeAt, clientVars, At, Gone, Offset, RequestSize
    <3>4. WakeInv(d)'
      BY <1>1, <1>2, <1>3, <2>1 DEF ReplyInv, WakeInv, clientVars, At
    <3> QED BY <3>1, <3>2, <3>3, <3>4
  <2>2. CASE complete
    <3>1. LoopInv' /\ LifeInv(d)'
      BY <1>1, <1>2, <1>3, <2>2 DEF LoopInv, LifeInv, clientVars, At, Gone, IdleClientNeverBlocks
    <3>2. ParseInv(d)'
      BY <1>1, <1>2, <1>3, <2>2 DEF ParseInv, TypeAt, clientVars, At, Gone, Offset, RequestSize
    <3>3. ReplyInv(d)' /\ WakeInv(d)'
      BY <1>1, <1>2, <1>3, <2>2, SMTT(60) DEF ParseInv, ReplyInv, WakeInv, TypeAt, clientVars, At, Gone, Offset, RequestSize, Room
    <3> QED BY <3>1, <3>2, <3>3
  <2>3. CASE stops
    <3>1. LoopInv' /\ LifeInv(d)'
      BY <1>1, <1>2, <1>3, <2>3 DEF LoopInv, LifeInv, Leaves, clientVars, At, Gone, IdleClientNeverBlocks
    <3>2. ParseInv(d)'
      BY <1>1, <1>2, <1>3, <2>3 DEF LifeInv, ParseInv, Leaves, clientVars, bufVars, At, Gone, Offset
    <3>3. ReplyInv(d)' /\ WakeInv(d)'
      BY <1>1, <1>2, <1>3, <2>3 DEF ReplyInv, WakeInv, Leaves, clientVars, At, Offset, Room
    <3> QED BY <3>1, <3>2, <3>3
  <2> QED BY <1>4, <2>1, <2>2, <2>3
<1>7. ASSUME NEW c \in Clients, c # d PROVE ConnInv(c)'
  BY <1>1, <1>4, <1>7, Frame DEF IInv, Same, clientVars, Leaves
<1> QED BY <1>5, <1>6, <1>7 DEF IInv, ConnInv

LEMMA ReplyInvariant ==
  ASSUME IInv, NEW d \in Clients, Reply(d)
  PROVE  IInv'
<1>1. /\ pc = "reply" /\ cur = d /\ TypeOK
      /\ txq' = [txq EXCEPT ![d] = Append(@, hdrLen[d])]
      /\ state' = [state EXCEPT ![d] = "REPLYING"]
      /\ pc' = "send"
      /\ UNCHANGED <<cur, phase, mask, n, open, interest, bufVars, kernelVars, clientVars>>
  BY DEF IInv, Reply, Chain
<1>2. TypeAt(d) /\ LoopInv /\ LifeInv(d) /\ ParseInv(d) /\ ReplyInv(d) /\ WakeInv(d)
  BY AtD
<1>3. /\ state[d] = "DATA_RECVED" /\ open[d] = "open"
      /\ hdrLen[d] = HeaderSize /\ txq[d] = <<>>
  BY <1>1, <1>2 DEF LoopInv, ParseInv, ReplyInv
<1>4. Append(<<>>, HeaderSize) = <<HeaderSize>> /\ Head(<<HeaderSize>>) = HeaderSize
  OBVIOUS
<1>5. /\ txq'[d] = <<HeaderSize>> /\ state'[d] = "REPLYING"
      /\ \A c \in Clients : c # d => txq'[c] = txq[c] /\ state'[c] = state[c]
      /\ txq' \in [Clients -> Seq(1..HeaderSize)]
      /\ state' \in [Clients -> States]
  BY <1>1, <1>3, <1>4 DEF TypeOK, States
<1>6. TypeOK'
  BY <1>1, <1>5 DEF TypeOK, PCs, bufVars, kernelVars, clientVars
<1>7. LoopInv'
  BY <1>1, <1>2 DEF LoopInv, IdleClientNeverBlocks
<1>8. LifeInv(d)'
  BY <1>1, <1>2, <1>3, <1>5 DEF LifeInv, kernelVars, clientVars, At, Gone
<1>9. ParseInv(d)'
  BY <1>1, <1>2, <1>3, <1>5 DEF ParseInv, bufVars, kernelVars, clientVars, At, Gone, Offset, RequestSize
<1>10. ReplyInv(d)'
  BY <1>1, <1>2, <1>3, <1>4, <1>5 DEF ReplyInv, ParseInv, TypeAt, kernelVars, clientVars, Offset
<1>11. WakeInv(d)'
  BY <1>1, <1>2, <1>3, <1>5 DEF WakeInv, ParseInv, TypeAt, kernelVars, At, Offset, RequestSize
<1>12. ASSUME NEW c \in Clients, c # d PROVE ConnInv(c)'
  BY <1>1, <1>5, <1>12, Frame DEF IInv, Same, bufVars, kernelVars, clientVars
<1> QED BY <1>6, <1>7, <1>8, <1>9, <1>10, <1>11, <1>12 DEF IInv, ConnInv

LEMMA ReceiveDataInv ==
  ASSUME IInv, NEW d \in Clients, ReceiveData(d)
  PROVE  IInv'
<1>1. /\ pc = "data" /\ cur = d /\ TypeOK
      /\ UNCHANGED <<n, open, interest, hdrLen, hdrGot, datLen, txq,
                     reg, ready, outq, nospace, fin, rst, clientVars>>
  BY DEF IInv, ReceiveData
<1>2. TypeAt(d) /\ LoopInv /\ LifeInv(d) /\ ParseInv(d) /\ ReplyInv(d) /\ WakeInv(d)
  BY AtD
<1>3. /\ state[d] = "HEADER_RECVED" /\ open[d] = "open" /\ ~Fatal(d)
      /\ hdrLen[d] = HeaderSize /\ datLen[d] = DataSize[d]
      /\ datGot[d] < DataSize[d] \/ (DataSize[d] = 0 /\ datGot[d] = 0)
  BY <1>1, <1>2 DEF LoopInv, ParseInv, ReplyInv, Fatal, TypeAt
<1> DEFINE others ==
      \A c \in Clients : c # d =>
        /\ mask'[c] = mask[c] /\ state'[c] = state[c]
        /\ inq'[c] = inq[c] /\ datGot'[c] = datGot[c]
    types ==
      /\ phase' \in {"recv", "write"}
      /\ mask' \in [Clients -> SUBSET {"IN", "OUT", "HUP"}]
      /\ state' \in [Clients -> States]
      /\ inq' \in [Clients -> 0..RcvCap]
      /\ datGot' \in [Clients -> Nat]
    waits ==
      /\ inq'[d] = 0 /\ datGot'[d] = datGot[d] + inq[d]
      /\ datGot'[d] < DataSize[d] /\ state'[d] = "HEADER_RECVED" /\ Leaves(d)
    complete ==
      /\ inq'[d] = inq[d] - (DataSize[d] - datGot[d])
      /\ inq'[d] >= 0
      /\ state'[d] = "DATA_RECVED"
      /\ pc' = "reply" /\ cur' = d /\ mask' = mask /\ phase' = phase
<1>4. others /\ types /\ (waits \/ complete)
  <2> DEFINE k == Lesser(inq[d], datLen[d] - datGot[d])
  <2>1. /\ k \in Nat
        /\ k = IF inq[d] < DataSize[d] - datGot[d] THEN inq[d] ELSE DataSize[d] - datGot[d]
        /\ inq[d] - k \in 0..RcvCap /\ datGot[d] + k \in Nat
    BY <1>2, <1>3, SMTT(60) DEF Lesser, TypeAt
  <2>2. /\ mask \in [Clients -> SUBSET {"IN", "OUT", "HUP"}]
        /\ state \in [Clients -> States]
        /\ inq \in [Clients -> 0..RcvCap]
        /\ datGot \in [Clients -> Nat]
        /\ phase \in {"recv", "write"}
        /\ {"HEADER_RECVED", "DATA_RECVED"} \subseteq States
    BY <1>1 DEF TypeOK, States
  <2> HIDE DEF k
  <2>3. CASE /\ datLen[d] = 0
             /\ state' = [state EXCEPT ![d] = "DATA_RECVED"]
             /\ Chain(d, "reply")
             /\ UNCHANGED <<inq, datGot>>
    BY <1>1, <1>2, <1>3, <2>2, <2>3 DEF Chain, TypeAt
  <2>4. CASE /\ inq' = [inq EXCEPT ![d] = @ - k]
             /\ datGot' = [datGot EXCEPT ![d] = @ + k]
             /\ datGot[d] + k = DataSize[d]
             /\ state' = [state EXCEPT ![d] = "DATA_RECVED"]
             /\ Chain(d, "reply")
    <3>1. inq[d] - k = inq[d] - (DataSize[d] - datGot[d]) /\ inq[d] - k >= 0
      BY <1>2, <1>3, <2>1, <2>4 DEF TypeAt
    <3> QED BY <1>1, <2>1, <2>2, <2>4, <3>1 DEF Chain
  <2>5. CASE /\ inq' = [inq EXCEPT ![d] = @ - k]
             /\ datGot' = [datGot EXCEPT ![d] = @ + k]
             /\ datGot[d] + k # DataSize[d]
             /\ EndRecv(d)
             /\ state' = state
    <3>1. Leaves(d)
      BY <1>1, <2>5, EndRecvLeaves
    <3>2. k = inq[d] /\ inq[d] - k = 0 /\ datGot[d] + k < DataSize[d]
      BY <1>2, <1>3, <2>1, <2>5 DEF TypeAt
    <3> QED BY <1>1, <1>3, <2>1, <2>2, <2>5, <3>1, <3>2 DEF Leaves
  <2>6. CASE /\ datLen[d] # 0 /\ inq[d] = 0
             /\ EndRecv(d) /\ UNCHANGED <<inq, datGot, state>>
    BY <1>1, <1>2, <1>3, <2>2, <2>6, EndRecvLeaves DEF Leaves, TypeAt
  <2> QED BY <1>3, <2>3, <2>4, <2>5, <2>6 DEF ReceiveData, IsClear, k
<1>5. TypeOK'
  BY <1>1, <1>4 DEF TypeOK, Leaves, PCs, clientVars
<1>6. LoopInv' /\ LifeInv(d)' /\ ParseInv(d)' /\ ReplyInv(d)' /\ WakeInv(d)'
  <2>1. CASE waits
    <3>1. LoopInv' /\ LifeInv(d)'
      BY <1>1, <1>2, <1>3, <2>1 DEF LoopInv, LifeInv, Leaves, clientVars, At, Gone, IdleClientNeverBlocks
    <3>2. ParseInv(d)'
      BY <1>1, <1>2, <1>3, <2>1 DEF ParseInv, TypeAt, Leaves, clientVars, At, Gone, Offset, RequestSize
    <3>3. ReplyInv(d)' /\ WakeInv(d)'
      BY <1>1, <1>2, <1>3, <2>1 DEF ReplyInv, WakeInv, Leaves, clientVars, At, Room
    <3> QED BY <3>1, <3>2, <3>3
  <2>2. CASE complete
    <3>1. LoopInv' /\ LifeInv(d)'
      BY <1>1, <1>2, <1>3, <2>2 DEF LoopInv, LifeInv, clientVars, At, Gone, IdleClientNeverBlocks
    <3>2. ParseInv(d)' /\ inq'[d] = 0
      BY <1>1, <1>2, <1>3, <2>2 DEF ParseInv, TypeAt, clientVars, At, Gone, Offset, RequestSize
    <3>3. ReplyInv(d)' /\ WakeInv(d)'
      BY <1>1, <1>2, <1>3, <2>2, <3>2 DEF ReplyInv, WakeInv, clientVars, At, Room
    <3> QED BY <3>1, <3>2, <3>3
  <2> QED BY <1>4, <2>1, <2>2
<1>7. ASSUME NEW c \in Clients, c # d PROVE ConnInv(c)'
  BY <1>1, <1>4, <1>7, Frame DEF IInv, Same, clientVars, Leaves
<1> QED BY <1>5, <1>6, <1>7 DEF IInv, ConnInv

LEMMA OnErrorInv ==
  ASSUME IInv, NEW d \in Clients, OnError(d)
  PROVE  IInv'
<1>1. /\ pc = "error" /\ cur = d /\ TypeOK
      /\ open' = [open EXCEPT ![d] = "closed"]
      /\ reg' = [reg EXCEPT ![d] = {}]
      /\ ready' = ready \ {d}
      /\ mask' = [mask EXCEPT ![d] = {}]
      /\ pc' = "loop" /\ cur' = NoClient /\ phase' = "recv"
      /\ UNCHANGED <<n, state, interest, bufVars, txq, inq, outq, nospace, fin, rst,
                     clientVars>>
  BY DEF IInv, OnError, Deregister, EndEvent
<1>2. TypeAt(d) /\ LoopInv /\ LifeInv(d) /\ ParseInv(d) /\ ReplyInv(d) /\ WakeInv(d)
  BY AtD
<1>3. fin[d] \/ rst[d]
  BY <1>1, <1>2 DEF LoopInv, LifeInv
<1>4. TypeOK'
  BY <1>1 DEF TypeOK, PCs, bufVars, clientVars
<1>5. /\ open'[d] = "closed" /\ reg'[d] = {} /\ d \notin ready' /\ mask'[d] = {}
      /\ \A c \in Clients : c # d =>
           /\ open'[c] = open[c] /\ reg'[c] = reg[c] /\ mask'[c] = mask[c]
  BY <1>1 DEF TypeOK
<1>6. LoopInv'
  BY <1>1 DEF LoopInv, IdleClientNeverBlocks
<1>7. LifeInv(d)' /\ WakeInv(d)'
  BY <1>1, <1>2, <1>3, <1>5 DEF LifeInv, WakeInv, Gone, clientVars
<1>8. ParseInv(d)' /\ ReplyInv(d)'
  BY <1>1, <1>2, <1>3, <1>5 DEF LifeInv, ParseInv, ReplyInv, At, Gone, Offset, bufVars, clientVars
<1>9. ASSUME NEW c \in Clients, c # d PROVE ConnInv(c)'
  BY <1>1, <1>5, <1>9, Frame DEF IInv, Same, bufVars, clientVars
<1> QED BY <1>4, <1>6, <1>7, <1>8, <1>9 DEF IInv, ConnInv

(* A queue with one element.                                               *)
LEMMA Singleton ==
  ASSUME NEW S, NEW q \in Seq(S), q # <<>>, q = <<Head(q)>>
  PROVE  Head(q) \in S /\ q[1] = Head(q) /\ Tail(q) = <<>>
<1>1. Len(q) = 1 /\ Head(q) \in S /\ q[1] = Head(q)
  BY HeadTailProperties
<1>2. Tail(q) \in Seq(S) /\ Len(Tail(q)) = 0
  BY <1>1, HeadTailProperties
<1>3. Tail(q) = <<>>
  BY <1>2, EmptySeq
<1> QED BY <1>1, <1>3

LEMMA SingletonUpdate ==
  ASSUME NEW x, NEW y
  PROVE  [<<x>> EXCEPT ![1] = y] = <<y>>
OBVIOUS

LEMMA OnSendReadyInv ==
  ASSUME IInv, NEW d \in Clients, OnSendReady(d)
  PROVE  IInv'
<1>1. /\ pc = "send" /\ cur = d /\ TypeOK
      /\ UNCHANGED <<n, open, bufVars, reg, ready, inq, fin, rst, clientVars>>
  BY DEF IInv, OnSendReady
<1>2. TypeAt(d) /\ LoopInv /\ LifeInv(d) /\ ParseInv(d) /\ ReplyInv(d) /\ WakeInv(d)
  BY AtD
<1>3. open[d] = "open" /\ state[d] # "DATA_RECVED"
  BY <1>1, <1>2 DEF LoopInv, ParseInv, At
<1>4. ASSUME txq[d] # <<>>
      PROVE  /\ state[d] = "REPLYING" /\ txq[d] = <<Head(txq[d])>>
             /\ Head(txq[d]) \in 1..HeaderSize /\ txq[d][1] = Head(txq[d])
             /\ Tail(txq[d]) = <<>>
  <2>1. state[d] = "REPLYING" /\ txq[d] = <<Head(txq[d])>> /\ txq[d] \in Seq(1..HeaderSize)
    BY <1>1, <1>2, <1>4 DEF ReplyInv, TypeOK
  <2> QED BY <2>1, <1>4, Singleton
<1>5. CASE txq[d] = <<>> /\ EndSend(d) /\ UNCHANGED <<state, interest, txq, outq, nospace>>
  <2>1. Leaves(d)
    BY <1>1, <1>5, EndSendLeaves
  <2>2. TypeOK'
    BY <1>1, <1>5, <2>1 DEF TypeOK, Leaves, PCs, bufVars, clientVars
  <2>3. LoopInv' /\ LifeInv(d)'
    BY <1>1, <1>2, <1>3, <1>5, <2>1 DEF LoopInv, LifeInv, Leaves, clientVars, At, Gone, IdleClientNeverBlocks
  <2>4. ParseInv(d)' /\ ReplyInv(d)'
    BY <1>1, <1>2, <1>3, <1>5, <2>1 DEF ParseInv, ReplyInv, Leaves, bufVars, clientVars, At, Gone, Offset
  <2>5. WakeInv(d)'
    BY <1>1, <1>2, <1>3, <1>5, <2>1 DEF WakeInv, Leaves, clientVars, At
  <2>6. ASSUME NEW c \in Clients, c # d PROVE ConnInv(c)'
    BY <1>1, <1>5, <2>1, <2>6, Frame DEF IInv, Same, bufVars, clientVars, Leaves
  <2> QED BY <2>2, <2>3, <2>4, <2>5, <2>6 DEF IInv, ConnInv
<1>6. CASE /\ txq[d] # <<>> /\ rst[d]
           /\ Abort
           /\ UNCHANGED <<state, interest, txq, outq, nospace>>
  <2>1. pc' = "aborted" /\ UNCHANGED <<cur, phase, mask>>
    BY <1>6 DEF Abort
  <2>2. TypeOK'
    BY <1>1, <1>6, <2>1 DEF TypeOK, PCs, bufVars, clientVars
  <2>3. LoopInv' /\ LifeInv(d)'
    BY <1>1, <1>2, <1>3, <1>4, <1>6, <2>1 DEF LoopInv, LifeInv, ReplyInv, clientVars, At, Gone, IdleClientNeverBlocks
  <2>4. ParseInv(d)' /\ ReplyInv(d)' /\ WakeInv(d)'
    BY <1>1, <1>2, <1>3, <1>4, <1>6, <2>1 DEF ParseInv, ReplyInv, WakeInv, bufVars, clientVars
  <2>5. ASSUME NEW c \in Clients, c # d PROVE ConnInv(c)'
    BY <1>1, <1>6, <2>1, <2>5, Frame DEF IInv, Same, bufVars, clientVars
  <2> QED BY <2>2, <2>3, <2>4, <2>5 DEF IInv, ConnInv
<1>7. CASE /\ txq[d] # <<>> /\ ~rst[d] /\ Room(d) = 0
           /\ nospace' = [nospace EXCEPT ![d] = TRUE]
           /\ IF "W" \in interest[d]
                THEN EndSend(d) /\ UNCHANGED interest
                ELSE /\ interest' = [interest EXCEPT ![d] = @ \cup {"W"}]
                     /\ pc' = "rearm"
                     /\ UNCHANGED <<cur, phase, mask>>
           /\ UNCHANGED <<state, txq, outq>>
  <2> DEFINE others ==
        \A c \in Clients : c # d =>
          mask'[c] = mask[c] /\ interest'[c] = interest[c] /\ nospace'[c] = nospace[c]
      types ==
        /\ phase' \in {"recv", "write"}
        /\ mask' \in [Clients -> SUBSET {"IN", "OUT", "HUP"}]
        /\ interest' \in [Clients -> SUBSET {"R", "W"}]
        /\ nospace' \in [Clients -> BOOLEAN]
      step ==
        \/ Leaves(d) /\ "W" \in interest[d] /\ interest' = interest
        \/ /\ pc' = "rearm" /\ UNCHANGED <<cur, phase, mask>>
           /\ interest'[d] = interest[d] \cup {"W"}
  <2>1. others /\ types /\ step /\ nospace'[d]
    <3>1. /\ mask \in [Clients -> SUBSET {"IN", "OUT", "HUP"}]
          /\ interest \in [Clients -> SUBSET {"R", "W"}]
          /\ nospace \in [Clients -> BOOLEAN]
          /\ phase \in {"recv", "write"}
      BY <1>1 DEF TypeOK
    <3>2. CASE "W" \in interest[d]
      BY <1>1, <1>7, <3>1, <3>2, EndSendLeaves DEF Leaves
    <3>3. CASE "W" \notin interest[d]
      BY <1>1, <1>7, <3>1, <3>3
    <3> QED BY <3>2, <3>3
  <2>2. TypeOK'
    BY <1>1, <1>7, <2>1 DEF TypeOK, Leaves, PCs, bufVars, clientVars
  <2>3. LoopInv' /\ LifeInv(d)'
    BY <1>1, <1>2, <1>3, <1>7, <2>1 DEF LoopInv, LifeInv, Leaves, clientVars, At, Gone, IdleClientNeverBlocks
  <2>4. ParseInv(d)' /\ ReplyInv(d)'
    BY <1>1, <1>2, <1>3, <1>7, <2>1 DEF ParseInv, ReplyInv, Leaves, bufVars, clientVars, At, Gone, Offset
  <2>5. WakeInv(d)'
    BY <1>1, <1>2, <1>3, <1>7, <2>1 DEF WakeInv, Leaves, clientVars, At, Room
  <2>6. ASSUME NEW c \in Clients, c # d PROVE ConnInv(c)'
    <3>1. UNCHANGED <<state, txq, outq>>
      BY <1>7
    <3>2. cur = d /\ cur' # c /\ pc # "aborted"
      BY <1>1, <2>1, <2>6 DEF Leaves
    <3> QED BY <1>1, <2>1, <2>6, <3>1, <3>2, Frame DEF IInv, Same, bufVars, clientVars
  <2> QED BY <2>2, <2>3, <2>4, <2>5, <2>6 DEF IInv, ConnInv
<1>8. ASSUME NEW k \in Nat, k > 0, k <= Room(d), k < Head(txq[d]),
             txq[d] # <<>>, ~rst[d],
             outq' = [outq EXCEPT ![d] = @ + k],
             txq' = [txq EXCEPT ![d][1] = @ - k],
             UNCHANGED <<pc, cur, phase, mask, state, interest, nospace>>
      PROVE  IInv'
  <2>1. /\ state[d] = "REPLYING" /\ txq[d] = <<Head(txq[d])>>
        /\ Head(txq[d]) \in 1..HeaderSize /\ txq[d][1] = Head(txq[d])
    BY <1>4, <1>8
  <2>2. outq[d] + k \in 0..SndCap
    <3>1. outq[d] \in Nat /\ k <= SndCap - outq[d]
      BY <1>2, <1>8 DEF Room, TypeAt
    <3> QED BY <3>1
  <2>3. /\ outq'[d] = outq[d] + k
        /\ outq' \in [Clients -> 0..SndCap]
        /\ \A c \in Clients : c # d => outq'[c] = outq[c]
    BY <1>1, <1>8, <2>2 DEF TypeOK
  <2>4. Head(txq[d]) - k \in 1..HeaderSize
    BY <1>8, <2>1
  <2> DEFINE rest == <<Head(txq[d]) - k>>
  <2>5. rest \in Seq(1..HeaderSize) /\ Head(rest) = Head(txq[d]) - k
    BY <2>4
  <2>6. [txq[d] EXCEPT ![1] = Head(txq[d]) - k] = rest
    BY <2>1, SingletonUpdate
  <2> HIDE DEF rest
  <2>7. /\ txq'[d] = rest
        /\ txq' \in [Clients -> Seq(1..HeaderSize)]
        /\ \A c \in Clients : c # d => txq'[c] = txq[c]
    <3>1. txq' = [txq EXCEPT ![d] = rest]
      BY <1>8, <2>1, <2>6
    <3> QED BY <1>1, <2>5, <3>1 DEF TypeOK
  <2>8. rest = <<Head(rest)>>
    BY <2>5 DEF rest
  <2>9. TypeOK'
    BY <1>1, <1>8, <2>3, <2>7 DEF TypeOK, bufVars, clientVars
  <2>10. LoopInv' /\ LifeInv(d)' /\ WakeInv(d)'
    BY <1>1, <1>2, <1>3, <1>8, <2>1, <2>7 DEF LoopInv, LifeInv, WakeInv, clientVars, At, Gone, IdleClientNeverBlocks
  <2>11. ParseInv(d)'
    BY <1>1, <1>2, <1>8, <2>1 DEF ParseInv, bufVars, clientVars, At, Gone, Offset
  <2>12. ReplyInv(d)'
    <3>1. state'[d] = "REPLYING" /\ UNCHANGED <<rst, cpc, cgot, pc>> /\ ~rst[d]
      BY <1>1, <1>8, <2>1 DEF clientVars
    <3>2. ASSUME cpc[d] = "recv" PROVE cgot[d] + outq'[d] + Head(rest) = HeaderSize
      <4>1. cgot[d] + outq[d] + Head(txq[d]) = HeaderSize
        BY <1>2, <2>1, <3>2 DEF ReplyInv
      <4>2. /\ cgot[d] \in Nat /\ outq[d] \in Nat /\ Head(txq[d]) \in Nat
            /\ outq'[d] = outq[d] + k /\ Head(rest) = Head(txq[d]) - k
        BY <1>2, <2>1, <2>3, <2>5 DEF TypeAt
      <4> QED BY <4>1, <4>2
    <3> QED BY <1>2, <2>1, <2>7, <2>8, <3>1, <3>2 DEF ReplyInv
  <2>13. ASSUME NEW c \in Clients, c # d PROVE ConnInv(c)'
    BY <1>1, <1>8, <2>3, <2>7, <2>13, Frame DEF IInv, Same, bufVars, clientVars
  <2> QED BY <2>9, <2>10, <2>11, <2>12, <2>13 DEF IInv, ConnInv
<1>9. ASSUME NEW k \in Nat, k > 0, k <= Room(d), k = Head(txq[d]),
             txq[d] # <<>>, ~rst[d],
             outq' = [outq EXCEPT ![d] = @ + k],
             state' = [state EXCEPT ![d] = "NEW_RPC"],
             txq' = [txq EXCEPT ![d] = Tail(@)],
             IF "W" \in interest[d]
               THEN interest' = [interest EXCEPT ![d] = {"R"}] /\ pc' = "rearm"
               ELSE UNCHANGED <<pc, interest>>,
             UNCHANGED <<cur, phase, mask, nospace>>
      PROVE  IInv'
  <2>1. /\ state[d] = "REPLYING" /\ Head(txq[d]) \in 1..HeaderSize /\ Tail(txq[d]) = <<>>
    BY <1>4, <1>9
  <2>2. outq[d] + k \in 0..SndCap
    <3>1. outq[d] \in Nat /\ k <= SndCap - outq[d]
      BY <1>2, <1>9 DEF Room, TypeAt
    <3> QED BY <3>1
  <2>3. /\ outq'[d] = outq[d] + k
        /\ outq' \in [Clients -> 0..SndCap]
        /\ \A c \in Clients : c # d => outq'[c] = outq[c]
    BY <1>1, <1>9, <2>2 DEF TypeOK
  <2>4. /\ state'[d] = "NEW_RPC" /\ txq'[d] = <<>>
        /\ state' \in [Clients -> States]
        /\ txq' \in [Clients -> Seq(1..HeaderSize)]
        /\ \A c \in Clients : c # d => txq'[c] = txq[c] /\ state'[c] = state[c]
    <3>1. <<>> \in Seq(1..HeaderSize) /\ "NEW_RPC" \in States
      BY DEF States
    <3>2. txq' = [txq EXCEPT ![d] = <<>>]
      BY <1>9, <2>1
    <3>3. /\ txq \in [Clients -> Seq(1..HeaderSize)]
          /\ state \in [Clients -> States]
          /\ state' = [state EXCEPT ![d] = "NEW_RPC"]
      BY <1>1, <1>9 DEF TypeOK
    <3> QED BY <3>1, <3>2, <3>3
  <2>5. /\ interest' \in [Clients -> SUBSET {"R", "W"}]
        /\ \A c \in Clients : c # d => interest'[c] = interest[c]
        /\ \/ pc' = "rearm" /\ interest'[d] = {"R"}
           \/ pc' = pc /\ interest' = interest
    <3>1. interest \in [Clients -> SUBSET {"R", "W"}]
      BY <1>1 DEF TypeOK
    <3>2. CASE "W" \in interest[d]
      BY <1>9, <3>1, <3>2
    <3>3. CASE "W" \notin interest[d]
      BY <1>9, <3>1, <3>3
    <3> QED BY <3>2, <3>3
  <2>6. UNCHANGED <<cur, phase, mask, nospace>> /\ ~rst[d] /\ k = Head(txq[d]) /\ k > 0
    BY <1>9
  <2>7. TypeOK'
    BY <1>1, <2>3, <2>4, <2>5, <2>6 DEF TypeOK, PCs, bufVars, clientVars
  <2>8. LoopInv' /\ LifeInv(d)'
    BY <1>1, <1>2, <1>3, <2>4, <2>5, <2>6 DEF LoopInv, LifeInv, clientVars, At, Gone, IdleClientNeverBlocks
  <2>9. inq[d] = 0 /\ Offset(d) = RequestSize(d) /\ csent[d] = RequestSize(d)
    BY <1>1, <1>2, <2>1, SMTT(60) DEF ParseInv, TypeAt, Offset, RequestSize
  <2>10. ParseInv(d)'
    BY <1>1, <1>2, <2>1, <2>4, <2>5, <2>6, <2>9 DEF ParseInv, bufVars, clientVars, At, Gone, Offset, RequestSize
  <2>11. ReplyInv(d)'
    <3>1. UNCHANGED <<inq, rst, cpc, cgot, csent>> /\ pc' # "aborted" /\ pc # "aborted"
      BY <1>1, <2>5 DEF clientVars
    <3>2. cpc[d] # "send" /\ inq'[d] = 0 /\ ~rst'[d]
      BY <1>2, <2>1, <2>6, <2>9, <3>1 DEF ReplyInv
    <3>3. Offset(d)' = RequestSize(d)
      BY <2>9, <3>1 DEF Offset
    <3>4. ASSUME cpc[d] = "recv" PROVE cgot[d] + outq'[d] = HeaderSize
      <4>1. cgot[d] + outq[d] + k = HeaderSize
        BY <1>2, <2>1, <2>6, <3>4 DEF ReplyInv
      <4>2. cgot[d] \in Nat /\ outq[d] \in Nat /\ outq'[d] = outq[d] + k
        BY <1>2, <2>3 DEF TypeAt
      <4> QED BY <4>1, <4>2
    <3> QED BY <2>4, <3>1, <3>2, <3>3, <3>4 DEF ReplyInv, RequestSize
  <2>12. WakeInv(d)'
    BY <1>1, <1>2, <1>3, <2>4, <2>5, <2>6, <2>9 DEF WakeInv, clientVars, At
  <2>13. ASSUME NEW c \in Clients, c # d PROVE ConnInv(c)'
    BY <1>1, <2>3, <2>4, <2>5, <2>6, <2>13, Frame DEF IInv, Same, bufVars, clientVars
  <2> QED BY <2>7, <2>8, <2>10, <2>11, <2>12, <2>13 DEF IInv, ConnInv
<1>10. ASSUME txq[d] # <<>>, NEW k \in 1..Lesser(Room(d), Head(txq[d]))
       PROVE  k \in Nat /\ k > 0 /\ k <= Room(d) /\ (k < Head(txq[d]) \/ k = Head(txq[d]))
  <2>1. Room(d) \in Int /\ Head(txq[d]) \in Int
    BY <1>2, <1>4, <1>10 DEF Room, TypeAt
  <2> QED BY <1>10, <2>1 DEF Lesser
<1>11. CASE /\ txq[d] # <<>>
            /\ ~rst[d]
            /\ \E k \in 1..Lesser(Room(d), Head(txq[d])) :
                 /\ outq' = [outq EXCEPT ![d] = @ + k]
                 /\ IF k < Head(txq[d])
                      THEN /\ txq' = [txq EXCEPT ![d][1] = @ - k]
                           /\ UNCHANGED <<pc, state, interest>>
                      ELSE /\ state' = [state EXCEPT ![d] = "NEW_RPC"]
                           /\ txq' = [txq EXCEPT ![d] = Tail(@)]
                           /\ IF "W" \in interest[d]
                                THEN /\ interest' = [interest EXCEPT ![d] = {"R"}]
                                     /\ pc' = "rearm"
                                ELSE UNCHANGED <<pc, interest>>
            /\ UNCHANGED <<cur, phase, mask, nospace>>
  <2>1. PICK k \in 1..Lesser(Room(d), Head(txq[d])) :
           /\ outq' = [outq EXCEPT ![d] = @ + k]
           /\ IF k < Head(txq[d])
                THEN /\ txq' = [txq EXCEPT ![d][1] = @ - k]
                     /\ UNCHANGED <<pc, state, interest>>
                ELSE /\ state' = [state EXCEPT ![d] = "NEW_RPC"]
                     /\ txq' = [txq EXCEPT ![d] = Tail(@)]
                     /\ IF "W" \in interest[d]
                          THEN /\ interest' = [interest EXCEPT ![d] = {"R"}]
                               /\ pc' = "rearm"
                          ELSE UNCHANGED <<pc, interest>>
    BY <1>11
  <2>2. k \in Nat /\ k > 0 /\ k <= Room(d) /\ (k < Head(txq[d]) \/ k = Head(txq[d]))
    BY <1>10, <1>11
  <2>3. Head(txq[d]) \in Nat
    BY <1>4, <1>11
  <2>4. CASE k < Head(txq[d])
    BY <1>8, <1>11, <2>1, <2>2, <2>4
  <2>5. CASE k = Head(txq[d])
    <3>1. ~(k < Head(txq[d]))
      BY <2>2, <2>3, <2>5
    <3> QED BY <1>9, <1>11, <2>1, <2>2, <2>5, <3>1
  <2> QED BY <2>2, <2>4, <2>5
<1> QED BY <1>5, <1>6, <1>7, <1>11 DEF OnSendReady

(* What EPOLL_CTL_ADD or MOD of d with interests r leaves behind.          *)
LEMMA EpollCtlFacts ==
  ASSUME TypeOK, NEW d \in Clients, NEW r \in SUBSET {"R", "W"}, EpollCtl(d, r)
  PROVE  /\ reg' \in [Clients -> SUBSET {"R", "W"}] /\ reg'[d] = r
         /\ nospace' \in [Clients -> BOOLEAN]
         /\ Room(d) = 0 => nospace'[d]
         /\ ready' \in SUBSET Clients
         /\ \A c \in Clients : c # d =>
              /\ reg'[c] = reg[c] /\ nospace'[c] = nospace[c]
              /\ c \in ready' <=> c \in ready
         /\ d \in ready => d \in ready'
         /\ "R" \in r /\ (inq[d] > 0 \/ fin[d] \/ rst[d]) => d \in ready'
         /\ "W" \in r /\ (Room(d) > 0 \/ rst[d]) => d \in ready'
<1>1. /\ reg' = [reg EXCEPT ![d] = r]
      /\ ready' = IF Revents(d, r) # {} THEN ready \cup {d} ELSE ready
      /\ nospace' = [nospace EXCEPT ![d] = @ \/ Room(d) = 0]
  BY DEF EpollCtl
<1>2. /\ reg \in [Clients -> SUBSET {"R", "W"}]
      /\ nospace \in [Clients -> BOOLEAN] /\ ready \in SUBSET Clients
  BY DEF TypeOK
<1>3. /\ reg' \in [Clients -> SUBSET {"R", "W"}] /\ reg'[d] = r
      /\ \A c \in Clients : c # d => reg'[c] = reg[c]
  BY <1>1, <1>2
<1>4. /\ nospace' \in [Clients -> BOOLEAN]
      /\ Room(d) = 0 => nospace'[d]
      /\ \A c \in Clients : c # d => nospace'[c] = nospace[c]
  BY <1>1, <1>2
<1>5. /\ "R" \in r /\ (inq[d] > 0 \/ fin[d] \/ rst[d]) => "IN" \in Revents(d, r)
      /\ "W" \in r /\ (Room(d) > 0 \/ rst[d]) => "OUT" \in Revents(d, r)
  BY DEF Revents
<1>6. /\ ready' \in SUBSET Clients
      /\ \A c \in Clients : c # d => (c \in ready' <=> c \in ready)
      /\ d \in ready => d \in ready'
      /\ Revents(d, r) # {} => d \in ready'
  BY <1>1, <1>2
<1> QED BY <1>3, <1>4, <1>5, <1>6

LEMMA ReregisterInv ==
  ASSUME IInv, NEW d \in Clients, Reregister(d)
  PROVE  IInv'
<1>1. /\ pc = "rearm" /\ cur = d /\ TypeOK
      /\ EpollCtl(d, interest[d])
      /\ UNCHANGED <<n, epVars, inq, outq, fin, rst, clientVars>>
  BY DEF IInv, Reregister
<1>2. TypeAt(d) /\ LoopInv /\ LifeInv(d) /\ ParseInv(d) /\ ReplyInv(d) /\ WakeInv(d)
  BY AtD
<1>3. /\ open[d] = "open" /\ interest[d] \in SUBSET {"R", "W"}
      /\ "W" \notin interest[d] => txq[d] = <<>>
  BY <1>1, <1>2 DEF LoopInv, TypeAt
<1>4. /\ reg' \in [Clients -> SUBSET {"R", "W"}] /\ reg'[d] = interest[d]
      /\ nospace' \in [Clients -> BOOLEAN]
      /\ Room(d) = 0 => nospace'[d]
      /\ ready' \in SUBSET Clients
      /\ \A c \in Clients : c # d =>
           /\ reg'[c] = reg[c] /\ nospace'[c] = nospace[c]
           /\ c \in ready' <=> c \in ready
      /\ d \in ready => d \in ready'
      /\ "W" \in interest[d] /\ (Room(d) > 0 \/ rst[d]) => d \in ready'
  BY <1>1, <1>3, EpollCtlFacts
<1>5. \/ Leaves(d)
      \/ pc' = "send" /\ "W" \notin interest[d] /\ UNCHANGED <<cur, phase, mask>>
  BY <1>1, EndSendLeaves DEF Reregister, Chain
<1>6. TypeOK'
  <2>1. phase' \in {"recv", "write"} /\ mask' \in [Clients -> SUBSET {"IN", "OUT", "HUP"}]
    BY <1>1, <1>5 DEF Leaves, TypeOK
  <2>2. pc' \in PCs /\ cur' \in Clients \cup {NoClient}
    BY <1>1, <1>5 DEF Leaves, TypeOK, PCs
  <2> QED BY <1>1, <1>4, <2>1, <2>2 DEF TypeOK, epVars, clientVars
<1>7. LoopInv' /\ LifeInv(d)'
  BY <1>1, <1>2, <1>3, <1>4, <1>5 DEF LoopInv, LifeInv, Leaves, epVars, clientVars, At, Gone, IdleClientNeverBlocks
<1>8. ParseInv(d)' /\ ReplyInv(d)'
  BY <1>1, <1>2, <1>3, <1>5 DEF ParseInv, ReplyInv, Leaves, epVars, clientVars, At, Gone, Offset
<1>9. WakeInv(d)'
  <2>1. Room(d) = 0 \/ Room(d) > 0
    BY <1>2 DEF Room, TypeAt
  <2> QED BY <1>1, <1>2, <1>3, <1>4, <1>5, <2>1 DEF WakeInv, Leaves, epVars, At, Room
<1>10. ASSUME NEW c \in Clients, c # d PROVE ConnInv(c)'
  <2>1. cur' # c /\ mask'[c] = mask[c] /\ pc # "aborted" /\ cur # c
    BY <1>1, <1>5, <1>10 DEF Leaves
  <2> QED BY <1>1, <1>4, <1>10, <2>1, Frame DEF IInv, Same, epVars, clientVars
<1> QED BY <1>6, <1>7, <1>8, <1>9, <1>10 DEF IInv, ConnInv

LEMMA OnAcceptedInv ==
  ASSUME IInv, NEW d \in Clients, OnAccepted(d)
  PROVE  IInv'
<1>1. /\ pc = "loop" /\ open[d] = "backlog" /\ TypeOK
      /\ open' = [open EXCEPT ![d] = "open"]
      /\ state' = [state EXCEPT ![d] = "NEW_RPC"]
      /\ interest' = [interest EXCEPT ![d] = {"R", "W"}]
      /\ EpollCtl(d, {"R", "W"})
      /\ UNCHANGED <<loopVars, bufVars, txq, inq, outq, fin, rst, clientVars>>
  BY DEF IInv, OnAccepted
<1>2. TypeAt(d) /\ LoopInv /\ LifeInv(d) /\ ParseInv(d) /\ ReplyInv(d) /\ WakeInv(d)
  BY AtD
<1>3. state[d] = "NEW_RPC" /\ txq[d] = <<>> /\ cur = NoClient
  BY <1>1, <1>2 DEF LoopInv, LifeInv
<1>4. /\ reg' \in [Clients -> SUBSET {"R", "W"}] /\ reg'[d] = {"R", "W"}
      /\ nospace' \in [Clients -> BOOLEAN]
      /\ ready' \in SUBSET Clients
      /\ \A c \in Clients : c # d =>
           /\ reg'[c] = reg[c] /\ nospace'[c] = nospace[c]
           /\ c \in ready' <=> c \in ready
      /\ inq[d] > 0 \/ fin[d] \/ rst[d] => d \in ready'
  BY <1>1, EpollCtlFacts
<1>5. /\ open' \in [Clients -> {"backlog", "open", "closed"}] /\ open'[d] = "open"
      /\ state' \in [Clients -> States] /\ state'[d] = "NEW_RPC"
      /\ interest' \in [Clients -> SUBSET {"R", "W"}] /\ interest'[d] = {"R", "W"}
      /\ \A c \in Clients : c # d =>
           open'[c] = open[c] /\ state'[c] = state[c] /\ interest'[c] = interest[c]
  <2>1. /\ open \in [Clients -> {"backlog", "open", "closed"}]
        /\ state \in [Clients -> States] /\ "NEW_RPC" \in States
        /\ interest \in [Clients -> SUBSET {"R", "W"}]
    BY <1>1 DEF TypeOK, States
  <2> QED BY <1>1, <2>1
<1>6. TypeOK'
  BY <1>1, <1>4, <1>5 DEF TypeOK, loopVars, bufVars, clientVars
<1>7. LoopInv'
  BY <1>1, <1>2, <1>3 DEF LoopInv, loopVars, IdleClientNeverBlocks
<1>8. LifeInv(d)' /\ WakeInv(d)'
  BY <1>1, <1>2, <1>3, <1>4, <1>5 DEF LifeInv, WakeInv, loopVars, clientVars, At, Gone
<1>9. ParseInv(d)' /\ ReplyInv(d)'
  BY <1>1, <1>2, <1>3, <1>5 DEF ParseInv, ReplyInv, loopVars, bufVars, clientVars, At, Gone, Offset
<1>10. ASSUME NEW c \in Clients, c # d PROVE ConnInv(c)'
  BY <1>1, <1>4, <1>5, <1>10, Frame DEF IInv, Same, loopVars, bufVars, clientVars
<1> QED BY <1>6, <1>7, <1>8, <1>9, <1>10 DEF IInv, ConnInv

LEMMA DispatchInv ==
  ASSUME IInv, NEW d \in Clients, Dispatch(d)
  PROVE  IInv'
<1>1. /\ pc = "loop" /\ mask[d] # {} /\ n' = 0 /\ TypeOK
      /\ UNCHANGED <<epVars, kernelVars, clientVars>>
  BY DEF IInv, Dispatch
<1>2. TypeAt(d) /\ LoopInv /\ LifeInv(d) /\ ParseInv(d) /\ ReplyInv(d) /\ WakeInv(d)
  BY AtD
<1>3. /\ open[d] = "open" /\ cur = NoClient /\ cur # d
      /\ state[d] \in {"NEW_RPC", "META_RECVED", "HEADER_RECVED", "REPLYING"}
  BY <1>1, <1>2 DEF LoopInv, LifeInv, ParseInv, TypeAt, States, At
<1>4. \/ /\ "IN" \in mask[d] /\ cur' = d /\ UNCHANGED <<phase, mask>>
         /\ \/ state[d] = "NEW_RPC" /\ pc' = "meta"
            \/ state[d] = "META_RECVED" /\ pc' = "header"
            \/ state[d] = "HEADER_RECVED" /\ pc' = "data"
      \/ /\ ~("IN" \in mask[d] /\ state[d] # "REPLYING")
         /\ Leaves(d)
         /\ "OUT" \in mask[d] => pc' = "send"
  BY <1>1, <1>3, EndRecvLeaves DEF Dispatch, Readable, Entry, EndRecv
<1>5. TypeOK'
  <2>1. phase' \in {"recv", "write"} /\ mask' \in [Clients -> SUBSET {"IN", "OUT", "HUP"}]
    BY <1>1, <1>4 DEF Leaves, TypeOK
  <2>2. pc' \in PCs /\ cur' \in Clients \cup {NoClient} /\ n' \in 0..MetaSize
    BY <1>1, <1>4, SMTT(60) DEF Leaves, TypeOK, PCs
  <2> QED BY <1>1, <2>1, <2>2 DEF TypeOK, epVars, kernelVars, clientVars
<1>6. LoopInv' /\ LifeInv(d)'
  BY <1>1, <1>2, <1>3, <1>4 DEF LoopInv, LifeInv, Leaves, epVars, kernelVars, clientVars, At, Gone, IdleClientNeverBlocks
<1>7. ParseInv(d)'
  <2>1. CASE pc' = "meta"
    <3>1. state[d] = "NEW_RPC" /\ cur' = d /\ (inq[d] > 0 \/ Gone(d))
      BY <1>1, <1>2, <1>3, <1>4, <2>1 DEF Leaves, LifeInv
    <3>2. (inq[d] = 0 /\ Gone(d)) \/ Offset(d) = n'
      BY <1>1, <1>2, <1>3, <3>1 DEF ParseInv, TypeAt, Offset, RequestSize, At
    <3> QED BY <1>1, <1>2, <1>3, <2>1, <3>1, <3>2 DEF ParseInv, epVars, kernelVars, clientVars, At, Gone, Offset
  <2>2. CASE pc' # "meta"
    BY <1>1, <1>2, <1>3, <1>4, <2>2 DEF ParseInv, Leaves, epVars, kernelVars, clientVars, At, Gone, Offset
  <2> QED BY <2>1, <2>2
<1>8. ReplyInv(d)'
  BY <1>1, <1>2, <1>4 DEF ReplyInv, Leaves, epVars, kernelVars, clientVars, Offset
<1>9. WakeInv(d)'
  <2>1. state[d] = "REPLYING" => inq[d] = 0
    BY <1>1, <1>2 DEF ParseInv, TypeAt, Offset, RequestSize
  <2> QED BY <1>1, <1>2, <1>3, <1>4, <2>1 DEF WakeInv, ReplyInv, Leaves, epVars, kernelVars, At, Room
<1>10. ASSUME NEW c \in Clients, c # d PROVE ConnInv(c)'
  <2>1. cur' # c /\ mask'[c] = mask[c] /\ pc # "aborted" /\ cur # c
    BY <1>1, <1>3, <1>4, <1>10 DEF Leaves
  <2> QED BY <1>1, <1>10, <2>1, Frame DEF IInv, Same, epVars, kernelVars, clientVars
<1> QED BY <1>5, <1>6, <1>7, <1>8, <1>9, <1>10 DEF IInv, ConnInv

(* What an event reports of connection c.                                  *)
LEMMA ReventsFacts ==
  ASSUME NEW c, NEW r
  PROVE  /\ Revents(c, r) \in SUBSET {"IN", "OUT", "HUP"}
         /\ "IN" \in Revents(c, r) <=> "R" \in r /\ (inq[c] > 0 \/ fin[c] \/ rst[c])
         /\ "OUT" \in Revents(c, r) <=> "W" \in r /\ (Room(c) > 0 \/ rst[c])
         /\ "HUP" \in Revents(c, r) <=> "R" \in r /\ (fin[c] \/ rst[c])
BY DEF Revents

LEMMA PollUntilInv ==
  ASSUME IInv, PollUntil
  PROVE  IInv'
<1>1. /\ pc = "loop" /\ TypeOK /\ LoopInv /\ cur = NoClient
      /\ \A c \in Clients : mask[c] = {}
      /\ UNCHANGED <<pc, cur, phase, n, epVars, reg, inq, outq, fin, rst, clientVars>>
  BY DEF IInv, PollUntil, LoopInv
<1>2. PICK B \in SUBSET ready :
        /\ ready' = ready \ B
        /\ mask' = [c \in Clients |-> IF c \in B THEN Revents(c, reg[c]) ELSE {}]
        /\ nospace' = [c \in Clients |-> nospace[c] \/ (c \in B /\ Room(c) = 0)]
  BY DEF PollUntil
<1>3. TypeOK'
  <2>1. mask' \in [Clients -> SUBSET {"IN", "OUT", "HUP"}]
    BY <1>2, ReventsFacts
  <2>2. nospace' \in [Clients -> BOOLEAN] /\ ready' \in SUBSET Clients
    BY <1>1, <1>2 DEF TypeOK
  <2> QED BY <1>1, <2>1, <2>2 DEF TypeOK, epVars, clientVars
<1>4. LoopInv'
  BY <1>1 DEF LoopInv, IdleClientNeverBlocks
<1>5. ASSUME NEW c \in Clients PROVE ConnInv(c)'
  <2>1. CASE c \notin B
    <3>1. mask'[c] = mask[c] /\ nospace'[c] = nospace[c] /\ (c \in ready' <=> c \in ready)
      <4>1. nospace[c] \in BOOLEAN
        BY <1>1 DEF TypeOK
      <4> QED BY <1>1, <1>2, <2>1, <4>1
    <3> QED BY <1>1, <3>1, Frame DEF IInv, Same, epVars, clientVars
  <2>2. CASE c \in B
    <3>1. TypeAt(c) /\ LifeInv(c) /\ ParseInv(c) /\ ReplyInv(c) /\ WakeInv(c)
      BY AtD
    <3>2. /\ open[c] = "open" /\ "R" \in reg[c] /\ reg[c] = interest[c] /\ cur # c
          /\ Room(c) = 0 \/ Room(c) > 0
      BY <1>1, <1>2, <2>2, <3>1, SMTT(60) DEF LifeInv, At, TypeAt, Room
    <3>3. /\ "IN" \in mask'[c] <=> inq[c] > 0 \/ fin[c] \/ rst[c]
          /\ "OUT" \in mask'[c] <=> "W" \in interest[c] /\ (Room(c) > 0 \/ rst[c])
          /\ "HUP" \in mask'[c] <=> fin[c] \/ rst[c]
          /\ Room(c) = 0 => nospace'[c]
      BY <1>2, <2>2, <3>2, ReventsFacts
    <3>4. LifeInv(c)'
      BY <1>1, <3>1, <3>2, <3>3 DEF LifeInv, epVars, clientVars, At, Gone
    <3>5. ParseInv(c)' /\ ReplyInv(c)'
      BY <1>1, <3>1 DEF ParseInv, ReplyInv, epVars, clientVars, At, Gone, Offset
    <3>6. WakeInv(c)'
      BY <1>1, <3>1, <3>2, <3>3 DEF WakeInv, epVars, At, Room
    <3> QED BY <3>4, <3>5, <3>6 DEF ConnInv
  <2> QED BY <2>1, <2>2
<1> QED BY <1>3, <1>4, <1>5 DEF IInv

-----------------------------------------------------------------------------
(* An edge on d's socket.                                                  *)
LEMMA EdgeFacts ==
  ASSUME TypeOK, NEW d \in Clients, LifeInv(d), ready' = Edge(d)
  PROVE  /\ ready' \in SUBSET Clients
         /\ \A c \in Clients : c # d => (c \in ready' <=> c \in ready)
         /\ open[d] = "open" => d \in ready'
         /\ open[d] # "open" => d \notin ready'
<1>1. ready \in SUBSET Clients
  BY DEF TypeOK
<1>2. /\ open[d] = "open" => reg[d] # {}
      /\ open[d] # "open" => reg[d] = {} /\ d \notin ready
  BY DEF LifeInv
<1> QED BY <1>1, <1>2 DEF Edge

LEMMA ClientSendInv ==
  ASSUME IInv, NEW d \in Clients, ClientSend(d)
  PROVE  IInv'
<1>1. /\ pc # "aborted" /\ cpc[d] = "send" /\ TypeOK /\ ready' = Edge(d)
      /\ UNCHANGED <<loopVars, epVars, reg, outq, nospace, fin, rst, cgot, calls, acks>>
  BY DEF IInv, ClientSend
<1>2. TypeAt(d) /\ LoopInv /\ LifeInv(d) /\ ParseInv(d) /\ ReplyInv(d) /\ WakeInv(d)
  BY AtD
<1>3. PICK k \in 1..Lesser(RcvCap - inq[d], RequestSize(d) - csent[d]) :
        /\ csent' = [csent EXCEPT ![d] = @ + k]
        /\ inq' = [inq EXCEPT ![d] = @ + k]
        /\ cpc' = [cpc EXCEPT ![d] =
                     IF csent[d] + k = RequestSize(d) THEN "recv" ELSE "send"]
  BY DEF ClientSend
<1>4. /\ k \in Nat /\ k > 0 /\ inq[d] + k \in 0..RcvCap
      /\ csent[d] + k \in Nat /\ csent[d] + k <= RequestSize(d) /\ RequestSize(d) \in Nat
  BY <1>2, <1>3 DEF Lesser, TypeAt, RequestSize
<1>5. /\ csent' \in [Clients -> Nat] /\ csent'[d] = csent[d] + k
      /\ inq' \in [Clients -> 0..RcvCap] /\ inq'[d] = inq[d] + k
      /\ cpc' \in [Clients -> {"send", "recv", "done", "dead"}]
      /\ cpc'[d] = IF csent[d] + k = RequestSize(d) THEN "recv" ELSE "send"
      /\ \A c \in Clients : c # d =>
           csent'[c] = csent[c] /\ inq'[c] = inq[c] /\ cpc'[c] = cpc[c]
  <2>1. /\ csent \in [Clients -> Nat] /\ inq \in [Clients -> 0..RcvCap]
        /\ cpc \in [Clients -> {"send", "recv", "done", "dead"}]
    BY <1>1 DEF TypeOK
  <2> QED BY <1>3, <1>4, <2>1
<1>6. /\ ready' \in SUBSET Clients
      /\ \A c \in Clients : c # d => (c \in ready' <=> c \in ready)
      /\ open[d] = "open" => d \in ready'
      /\ open[d] # "open" => d \notin ready'
  BY <1>1, <1>2, EdgeFacts
<1>7. TypeOK'
  BY <1>1, <1>5, <1>6 DEF TypeOK, loopVars, epVars
<1>8. /\ inq'[d] > 0 /\ csent'[d] - inq'[d] = csent[d] - inq[d]
      /\ ~Gone(d) /\ ~fin[d] /\ ~rst[d] /\ csent[d] < RequestSize(d)
      /\ outq[d] = 0 /\ cgot[d] = 0 /\ state[d] # "REPLYING"
      /\ inq'[d] <= csent'[d] /\ csent'[d] <= RequestSize(d)
      /\ cpc'[d] = "recv" => csent'[d] = RequestSize(d)
      /\ cpc'[d] = "send" => csent'[d] < RequestSize(d)
      /\ cpc'[d] \in {"send", "recv"}
  <2>1. ~Gone(d) /\ ~fin[d] /\ ~rst[d] /\ csent[d] < RequestSize(d)
    BY <1>1, <1>2 DEF Gone, LifeInv, ParseInv
  <2>2. outq[d] = 0 /\ cgot[d] = 0 /\ state[d] # "REPLYING"
    BY <1>1, <1>2 DEF ReplyInv
  <2>3. inq[d] <= csent[d]
    BY <1>1, <1>2 DEF ParseInv
  <2> QED BY <1>2, <1>4, <1>5, <2>1, <2>2, <2>3 DEF TypeAt
<1>9. LoopInv'
  <2>1. ASSUME pc = "meta", n = 0 PROVE inq'[cur] > 0 \/ fin[cur] \/ rst[cur]
    <3>1. inq[cur] > 0 \/ fin[cur] \/ rst[cur]
      BY <1>2, <2>1 DEF LoopInv, IdleClientNeverBlocks
    <3>2. cur \in Clients
      BY <1>1, <1>2, <2>1 DEF TypeOK, LoopInv
    <3> QED BY <1>5, <1>8, <3>1, <3>2
  <2> QED BY <1>1, <1>2, <2>1 DEF LoopInv, loopVars, epVars, IdleClientNeverBlocks
<1>10. LifeInv(d)'
  BY <1>1, <1>2, <1>6, <1>8 DEF LifeInv, loopVars, epVars, At, Gone
<1>11. ParseInv(d)'
  BY <1>1, <1>2, <1>8 DEF ParseInv, loopVars, epVars, At, Gone, Offset, RequestSize
<1>12. ReplyInv(d)'
  <2>1. RequestSize(d) = RequestSize(d)' /\ Offset(d)' = Offset(d)
    BY <1>8 DEF RequestSize, Offset
  <2>2. state[d] = "NEW_RPC" => Offset(d) # RequestSize(d)
    BY <1>2, <1>4, <1>8 DEF Offset, TypeAt
  <2> QED BY <1>1, <1>2, <1>8, <2>1, <2>2 DEF ReplyInv, loopVars, epVars
<1>13. WakeInv(d)'
  BY <1>1, <1>2, <1>6, <1>8 DEF WakeInv, loopVars, epVars, At, Room
<1>14. ASSUME NEW c \in Clients, c # d PROVE ConnInv(c)'
  BY <1>1, <1>5, <1>6, <1>14, Frame DEF IInv, Same, loopVars, epVars
<1> QED BY <1>7, <1>9, <1>10, <1>11, <1>12, <1>13, <1>14 DEF IInv, ConnInv

(* A step of a client leaves the loop where it is.                         *)
LEMMA LoopFrame ==
  ASSUME TypeOK, LoopInv, UNCHANGED <<loopVars, epVars, inq>>,
         \A c \in Clients :
           /\ fin[c] => fin'[c]
           /\ rst[c] => rst'[c]
           /\ cpc[c] = "dead" => cpc'[c] = "dead"
  PROVE  LoopInv'
<1>1. pc # "loop" => cur \in Clients
  BY DEF TypeOK, LoopInv
<1> QED BY <1>1 DEF LoopInv, loopVars, epVars, IdleClientNeverBlocks

(* A client that receives the last byte of its reply: the server has read  *)
(* the whole request and is waiting for the next one.                      *)
LEMMA ReplyComplete ==
  ASSUME IInv, NEW d \in Clients, cpc[d] = "recv",
         NEW k \in Nat \ {0}, k <= outq[d], cgot[d] + k = HeaderSize
  PROVE  /\ state[d] = "NEW_RPC" /\ txq[d] = <<>>
         /\ pc # "aborted" =>
              /\ csent[d] = RequestSize(d) /\ inq[d] = 0 /\ outq[d] = k
              /\ ~At(d, {"meta"})
<1>1. TypeAt(d) /\ LoopInv /\ LifeInv(d) /\ ParseInv(d) /\ ReplyInv(d)
  BY AtD
<1>2. state[d] # "REPLYING"
  <2>1. ASSUME state[d] = "REPLYING" PROVE FALSE
    <3>1. cgot[d] + outq[d] + Head(txq[d]) = HeaderSize /\ txq[d] # <<>>
      BY <1>1, <2>1 DEF ReplyInv
    <3>2. Head(txq[d]) \in 1..HeaderSize
      <4>1. txq[d] \in Seq(1..HeaderSize)
        BY DEF IInv, TypeOK
      <4> QED BY <3>1, <4>1
    <3> QED BY <1>1, <3>1, <3>2 DEF TypeAt
  <2> QED BY <2>1
<1>3. outq[d] > 0
  BY <1>1 DEF TypeAt
<1>4. state[d] = "NEW_RPC" /\ txq[d] = <<>>
  BY <1>1, <1>2, <1>3, SMTT(60) DEF ReplyInv, TypeAt, States
<1>5. ASSUME pc # "aborted"
      PROVE  csent[d] = RequestSize(d) /\ inq[d] = 0 /\ outq[d] = k /\ ~At(d, {"meta"})
  <2>1. cgot[d] + outq[d] = IF Offset(d) = RequestSize(d) THEN HeaderSize ELSE 0
    BY <1>1, <1>4, <1>5 DEF ReplyInv
  <2>2. Offset(d) = RequestSize(d) /\ outq[d] = k
    BY <1>1, <1>3, <2>1 DEF TypeAt
  <2>3. csent[d] = RequestSize(d) /\ ~Gone(d)
    BY <1>1 DEF ParseInv, Gone
  <2>4. RequestSize(d) \in Nat /\ RequestSize(d) > MetaSize
    BY <1>1 DEF RequestSize, TypeAt
  <2>5. inq[d] = 0
    BY <1>1, <2>2, <2>3, <2>4 DEF Offset, TypeAt
  <2>6. ASSUME At(d, {"meta"}) PROVE FALSE
    <3>1. Offset(d) = n /\ n < MetaSize
      BY <1>1, <1>4, <1>5, <2>3, <2>6 DEF ParseInv, LoopInv, At
    <3> QED BY <2>2, <2>4, <3>1
  <2> QED BY <2>2, <2>3, <2>5, <2>6
<1> QED BY <1>4, <1>5

LEMMA ClientRecvInv ==
  ASSUME IInv, NEW d \in Clients, ClientRecv(d)
  PROVE  IInv'
<1>1. /\ cpc[d] = "recv" /\ TypeOK
      /\ nospace' = [nospace EXCEPT ![d] = FALSE]
      /\ ready' = IF (nospace[d] /\ "W" \in reg[d]) \/ fin'[d] THEN Edge(d) ELSE ready
      /\ UNCHANGED <<loopVars, epVars, reg, inq, rst>>
  BY DEF IInv, ClientRecv
<1>2. TypeAt(d) /\ LoopInv /\ LifeInv(d) /\ ParseInv(d) /\ ReplyInv(d) /\ WakeInv(d)
  BY AtD
<1>3. PICK k \in 1..Lesser(outq[d], HeaderSize - cgot[d]) :
        /\ outq' = [outq EXCEPT ![d] = @ - k]
        /\ IF cgot[d] + k = HeaderSize
             THEN /\ acks' = [acks EXCEPT ![d] = @ + 1]
                  /\ Returns(d)
             ELSE /\ cgot' = [cgot EXCEPT ![d] = @ + k]
                  /\ UNCHANGED <<cpc, csent, calls, acks, fin>>
  BY DEF ClientRecv
<1>4. /\ k \in Nat \ {0} /\ k <= outq[d] /\ outq[d] - k \in 0..SndCap
      /\ cgot[d] + k \in 0..HeaderSize /\ outq[d] > 0
  BY <1>2, <1>3 DEF Lesser, TypeAt
<1>5. /\ outq' \in [Clients -> 0..SndCap] /\ outq'[d] = outq[d] - k
      /\ nospace' \in [Clients -> BOOLEAN]
      /\ \A c \in Clients : c # d => outq'[c] = outq[c] /\ nospace'[c] = nospace[c]
  <2>1. outq \in [Clients -> 0..SndCap] /\ nospace \in [Clients -> BOOLEAN]
    BY <1>1 DEF TypeOK
  <2> QED BY <1>1, <1>3, <1>4, <2>1
<1>6. /\ ~Gone(d) /\ ~fin[d] /\ ~rst[d] /\ open[d] = "open"
      /\ calls[d] < MaxRpcs /\ acks[d] <= calls[d]
      /\ "R" \in reg[d] /\ reg[d] # {}
  <2>1. ~Gone(d) /\ ~fin[d] /\ ~rst[d]
    BY <1>1, <1>2 DEF Gone, LifeInv
  <2>2. calls[d] < MaxRpcs /\ acks[d] <= calls[d]
    BY <1>2, <2>1 DEF LifeInv
  <2>3. open[d] # "closed"
    BY <1>2, <2>1 DEF LifeInv
  <2>4. open[d] # "backlog"
    BY <1>2, <1>4 DEF LifeInv
  <2>5. open[d] = "open"
    BY <1>2, <2>3, <2>4 DEF TypeAt
  <2>6. "R" \in reg[d]
    BY <1>2, <2>5 DEF LifeInv
  <2> QED BY <2>1, <2>2, <2>5, <2>6
<1>7. /\ ready' \in SUBSET Clients
      /\ \A c \in Clients : c # d => (c \in ready' <=> c \in ready)
      /\ d \in ready => d \in ready'
      /\ (nospace[d] /\ "W" \in reg[d]) \/ fin'[d] => d \in ready'
  <2>1. ready \in SUBSET Clients
    BY <1>1 DEF TypeOK
  <2> QED BY <1>1, <1>6, <2>1 DEF Edge
<1> DEFINE
    types ==
      /\ cpc' \in [Clients -> {"send", "recv", "done", "dead"}]
      /\ csent' \in [Clients -> Nat]
      /\ cgot' \in [Clients -> 0..HeaderSize]
      /\ calls' \in [Clients -> 0..MaxRpcs]
      /\ acks' \in [Clients -> 0..MaxRpcs]
      /\ fin' \in [Clients -> BOOLEAN]
    others ==
      \A c \in Clients : c # d =>
        /\ cpc'[c] = cpc[c] /\ csent'[c] = csent[c] /\ cgot'[c] = cgot[c]
        /\ calls'[c] = calls[c] /\ acks'[c] = acks[c] /\ fin'[c] = fin[c]
    partial ==
      /\ cgot[d] + k < HeaderSize /\ cgot'[d] = cgot[d] + k
      /\ UNCHANGED <<cpc, csent, calls, acks, fin>>
    again ==
      /\ cpc'[d] = "send" /\ csent'[d] = 0 /\ cgot'[d] = 0 /\ calls'[d] < MaxRpcs
      /\ ~fin'[d]
    exits ==
      cpc'[d] = "done" /\ csent'[d] = csent[d] /\ fin'[d]
    complete ==
      /\ cgot[d] + k = HeaderSize
      /\ acks'[d] <= calls'[d]
      /\ again \/ exits
<1>8. types /\ others /\ (partial \/ complete)
  <2>1. /\ cpc \in [Clients -> {"send", "recv", "done", "dead"}]
        /\ csent \in [Clients -> Nat]
        /\ cgot \in [Clients -> 0..HeaderSize]
        /\ calls \in [Clients -> 0..MaxRpcs]
        /\ acks \in [Clients -> 0..MaxRpcs]
        /\ fin \in [Clients -> BOOLEAN]
    BY <1>1 DEF TypeOK
  <2>2. CASE cgot[d] + k # HeaderSize
    <3>1. partial
      BY <1>2, <1>3, <1>4, <2>1, <2>2 DEF TypeAt
    <3> QED BY <1>3, <1>4, <2>1, <2>2, <3>1
  <2>3. CASE cgot[d] + k = HeaderSize
    <3>1. calls[d] + 1 \in 0..MaxRpcs /\ acks[d] + 1 \in 0..MaxRpcs /\ acks[d] + 1 <= calls[d] + 1
      BY <1>2, <1>6 DEF TypeAt
    <3>2. /\ calls' = [calls EXCEPT ![d] = @ + 1] /\ acks' = [acks EXCEPT ![d] = @ + 1]
          /\ \/ /\ calls[d] + 1 < MaxRpcs
                /\ cpc' = [cpc EXCEPT ![d] = "send"]
                /\ csent' = [csent EXCEPT ![d] = 0]
                /\ cgot' = [cgot EXCEPT ![d] = 0]
                /\ UNCHANGED fin
             \/ /\ cpc' = [cpc EXCEPT ![d] = "done"]
                /\ fin' = [fin EXCEPT ![d] = TRUE]
                /\ UNCHANGED <<csent, cgot>>
      BY <1>3, <2>3 DEF Returns
    <3>3. 0 \in 0..HeaderSize /\ 0 \in Nat
      OBVIOUS
    <3>4. /\ calls' \in [Clients -> 0..MaxRpcs] /\ calls'[d] = calls[d] + 1
          /\ acks' \in [Clients -> 0..MaxRpcs] /\ acks'[d] = acks[d] + 1
          /\ \A c \in Clients : c # d => calls'[c] = calls[c] /\ acks'[c] = acks[c]
      BY <2>1, <3>1, <3>2
    <3>5. CASE /\ calls[d] + 1 < MaxRpcs
               /\ cpc' = [cpc EXCEPT ![d] = "send"]
               /\ csent' = [csent EXCEPT ![d] = 0]
               /\ cgot' = [cgot EXCEPT ![d] = 0]
               /\ UNCHANGED fin
      <4>1. again
        BY <1>6, <2>1, <3>3, <3>4, <3>5
      <4> QED BY <2>1, <2>3, <3>1, <3>3, <3>4, <3>5, <4>1
    <3>6. CASE /\ cpc' = [cpc EXCEPT ![d] = "done"]
               /\ fin' = [fin EXCEPT ![d] = TRUE]
               /\ UNCHANGED <<csent, cgot>>
      <4>1. exits
        BY <2>1, <3>6
      <4> QED BY <2>1, <2>3, <3>1, <3>4, <3>6, <4>1
    <3> QED BY <3>2, <3>5, <3>6
  <2> QED BY <2>2, <2>3
<1>9. TypeOK'
  BY <1>1, <1>5, <1>7, <1>8 DEF TypeOK, loopVars, epVars
<1>10. LoopInv'
  <2>1. \A c \in Clients : (fin[c] => fin'[c]) /\ (cpc[c] = "dead" => cpc'[c] = "dead")
    BY <1>1, <1>6, <1>8
  <2> QED BY <1>1, <1>2, <2>1, LoopFrame
<1>11. ASSUME partial PROVE ConnInv(d)'
  <2>1. LifeInv(d)'
    BY <1>1, <1>2, <1>6, <1>7, <1>11 DEF LifeInv, loopVars, epVars, At, Gone
  <2>2. ParseInv(d)'
    BY <1>1, <1>2, <1>11 DEF ParseInv, loopVars, epVars, At, Gone, Offset
  <2>3. cgot'[d] + outq'[d] = cgot[d] + outq[d]
    BY <1>2, <1>4, <1>5, <1>11 DEF TypeAt
  <2>4. state[d] \notin {"META_RECVED", "HEADER_RECVED", "DATA_RECVED"}
    BY <1>2, <1>4, SMTT(60) DEF ReplyInv, TypeAt
  <2>5. (pc # "aborted" /\ state[d] = "NEW_RPC" /\ inq[d] > 0) => outq[d] = 0
    BY <1>2 DEF ReplyInv
  <2>6. ReplyInv(d)'
    BY <1>1, <1>2, <1>4, <1>6, <1>11, <2>3, <2>4, <2>5 DEF ReplyInv, loopVars, epVars, Offset
  <2>7. WakeInv(d)'
    BY <1>1, <1>2, <1>6, <1>7, <1>11 DEF WakeInv, LifeInv, loopVars, epVars, At, Room
  <2> QED BY <2>1, <2>2, <2>6, <2>7 DEF ConnInv
<1>12. ASSUME complete PROVE ConnInv(d)'
  <2>1. /\ state[d] = "NEW_RPC" /\ txq[d] = <<>>
        /\ pc # "aborted" =>
             /\ csent[d] = RequestSize(d) /\ inq[d] = 0 /\ outq[d] = k
             /\ ~At(d, {"meta"})
    BY <1>1, <1>4, <1>12, ReplyComplete
  <2>2. (pc # "aborted" => outq'[d] = 0) /\ RequestSize(d) \in Nat /\ RequestSize(d) > 0
    <3>1. RequestSize(d) \in Nat /\ RequestSize(d) > 0
      BY DEF RequestSize
    <3>2. pc # "aborted" => outq'[d] = 0
      BY <1>4, <1>5, <2>1
    <3> QED BY <3>1, <3>2
  <2>3. LifeInv(d)'
    <3>1. CASE again
      BY <1>1, <1>2, <1>6, <1>7, <1>12, <3>1 DEF LifeInv, loopVars, epVars, At, Gone
    <3>2. CASE exits
      BY <1>1, <1>2, <1>6, <1>7, <1>12, <3>2 DEF LifeInv, loopVars, epVars, At, Gone
    <3> QED BY <1>12, <3>1, <3>2
  <2>4. ParseInv(d)'
    BY <1>1, <1>2, <1>12, <2>1, <2>2 DEF ParseInv, loopVars, epVars, At, Gone, Offset, RequestSize
  <2>5. ReplyInv(d)'
    BY <1>1, <1>2, <1>6, <1>12, <2>1, <2>2 DEF ReplyInv, loopVars, epVars
  <2>6. WakeInv(d)'
    BY <1>1, <1>2, <1>6, <1>7, <1>12, <2>1 DEF WakeInv, loopVars, epVars, At
  <2> QED BY <2>3, <2>4, <2>5, <2>6 DEF ConnInv
<1>13. ASSUME NEW c \in Clients, c # d PROVE ConnInv(c)'
  BY <1>1, <1>5, <1>7, <1>8, <1>13, Frame DEF IInv, Same, loopVars, epVars
<1> QED BY <1>8, <1>9, <1>10, <1>11, <1>12, <1>13 DEF IInv

LEMMA ClientFailsInv ==
  ASSUME IInv, NEW d \in Clients, ClientFails(d)
  PROVE  IInv'
<1>1. /\ pc = "aborted" /\ TypeOK /\ cpc[d] \in {"send", "recv"}
      /\ UNCHANGED <<loopVars, epVars, reg, ready, inq, outq, nospace, rst, acks>>
  BY DEF IInv, ClientFails
<1>2. TypeAt(d) /\ LoopInv /\ LifeInv(d) /\ ParseInv(d) /\ ReplyInv(d) /\ WakeInv(d)
  BY AtD
<1>3. /\ ~Gone(d) /\ ~fin[d] /\ ~rst[d] /\ calls[d] < MaxRpcs /\ acks[d] <= calls[d]
      /\ RequestSize(d) \in Nat /\ RequestSize(d) > 0
  <2>1. ~Gone(d) /\ ~fin[d] /\ ~rst[d]
    BY <1>1, <1>2 DEF Gone, LifeInv
  <2>2. calls[d] < MaxRpcs /\ acks[d] <= calls[d]
    BY <1>2, <2>1 DEF LifeInv
  <2>3. RequestSize(d) \in Nat /\ RequestSize(d) > 0
    BY DEF RequestSize
  <2> QED BY <2>1, <2>2, <2>3
<1> DEFINE
    types ==
      /\ cpc' \in [Clients -> {"send", "recv", "done", "dead"}]
      /\ csent' \in [Clients -> Nat]
      /\ cgot' \in [Clients -> 0..HeaderSize]
      /\ calls' \in [Clients -> 0..MaxRpcs]
      /\ fin' \in [Clients -> BOOLEAN]
    others ==
      \A c \in Clients : c # d =>
        /\ cpc'[c] = cpc[c] /\ csent'[c] = csent[c] /\ cgot'[c] = cgot[c]
        /\ calls'[c] = calls[c] /\ fin'[c] = fin[c]
    dies ==
      cpc'[d] = "dead" /\ csent'[d] = csent[d] /\ fin'[d] = fin[d]
    again ==
      cpc'[d] = "send" /\ csent'[d] = 0 /\ calls'[d] < MaxRpcs /\ fin'[d] = fin[d]
    exits ==
      cpc'[d] = "done" /\ csent'[d] = csent[d] /\ fin'[d] = TRUE
<1>4. types /\ others /\ acks[d] <= calls'[d] /\ (dies \/ again \/ exits)
  <2>1. /\ cpc \in [Clients -> {"send", "recv", "done", "dead"}]
        /\ csent \in [Clients -> Nat]
        /\ cgot \in [Clients -> 0..HeaderSize]
        /\ calls \in [Clients -> 0..MaxRpcs]
        /\ fin \in [Clients -> BOOLEAN]
    BY <1>1 DEF TypeOK
  <2>2. CASE /\ cpc' = [cpc EXCEPT ![d] = "dead"]
             /\ UNCHANGED <<fin, csent, cgot, calls>>
    BY <1>3, <2>1, <2>2
  <2>3. CASE Returns(d)
    <3>1. /\ calls[d] + 1 \in 0..MaxRpcs /\ acks[d] <= calls[d] + 1
          /\ 0 \in 0..HeaderSize /\ 0 \in Nat
      BY <1>2, <1>3 DEF TypeAt
    <3>2. calls' = [calls EXCEPT ![d] = @ + 1]
      BY <2>3 DEF Returns
    <3>3. CASE /\ calls[d] + 1 < MaxRpcs
               /\ cpc' = [cpc EXCEPT ![d] = "send"]
               /\ csent' = [csent EXCEPT ![d] = 0]
               /\ cgot' = [cgot EXCEPT ![d] = 0]
               /\ UNCHANGED fin
      BY <2>1, <3>1, <3>2, <3>3
    <3>4. CASE /\ cpc' = [cpc EXCEPT ![d] = "done"]
               /\ fin' = [fin EXCEPT ![d] = TRUE]
               /\ UNCHANGED <<csent, cgot>>
      BY <2>1, <3>1, <3>2, <3>4
    <3> QED BY <2>3, <3>3, <3>4 DEF Returns
  <2> QED BY <2>2, <2>3 DEF ClientFails
<1>5. TypeOK'
  BY <1>1, <1>4 DEF TypeOK, loopVars, epVars
<1>6. LoopInv'
  <2>1. \A c \in Clients : (fin[c] => fin'[c]) /\ (cpc[c] = "dead" => cpc'[c] = "dead")
    BY <1>1, <1>3, <1>4
  <2> QED BY <1>1, <1>2, <2>1, LoopFrame
<1>7. LifeInv(d)'
  <2>1. CASE dies
    BY <1>1, <1>2, <1>3, <1>4, <2>1 DEF LifeInv, loopVars, epVars, At, Gone
  <2>2. CASE again
    BY <1>1, <1>2, <1>3, <1>4, <2>2 DEF LifeInv, loopVars, epVars, At, Gone
  <2>3. CASE exits
    BY <1>1, <1>2, <1>3, <1>4, <2>3 DEF LifeInv, loopVars, epVars, At, Gone
  <2> QED BY <1>4, <2>1, <2>2, <2>3
<1>8. ParseInv(d)'
  BY <1>1, <1>2, <1>3, <1>4 DEF ParseInv, loopVars, epVars, At, RequestSize
<1>9. ReplyInv(d)'
  BY <1>1, <1>2, <1>4 DEF ReplyInv, loopVars, epVars
<1>10. WakeInv(d)'
  BY <1>1 DEF WakeInv, loopVars
<1>11. ASSUME NEW c \in Clients, c # d PROVE ConnInv(c)'
  BY <1>1, <1>4, <1>11, Frame DEF IInv, Same, loopVars, epVars
<1> QED BY <1>5, <1>6, <1>7, <1>8, <1>9, <1>10, <1>11 DEF IInv, ConnInv

LEMMA KillInv ==
  ASSUME IInv, NEW d \in Clients, Kill(d)
  PROVE  IInv'
<1>1. /\ ~Gone(d) /\ TypeOK /\ ready' = Edge(d)
      /\ cpc' = [cpc EXCEPT ![d] = "dead"]
      /\ UNCHANGED <<loopVars, epVars, reg, inq, outq, nospace, csent, cgot, calls, acks>>
  BY DEF IInv, Kill
<1>2. TypeAt(d) /\ LoopInv /\ LifeInv(d) /\ ParseInv(d) /\ ReplyInv(d) /\ WakeInv(d)
  BY AtD
<1>3. ~fin[d] /\ ~rst[d] /\ open[d] # "closed"
  BY <1>1, <1>2 DEF LifeInv
<1>4. /\ ready' \in SUBSET Clients
      /\ \A c \in Clients : c # d => (c \in ready' <=> c \in ready)
      /\ open[d] = "open" => d \in ready'
      /\ open[d] # "open" => d \notin ready'
  BY <1>1, <1>2, EdgeFacts
<1>5. /\ cpc' \in [Clients -> {"send", "recv", "done", "dead"}] /\ cpc'[d] = "dead"
      /\ fin' \in [Clients -> BOOLEAN] /\ rst' \in [Clients -> BOOLEAN]
      /\ rst'[d] => outq[d] > 0
      /\ \A c \in Clients : c # d =>
           cpc'[c] = cpc[c] /\ fin'[c] = fin[c] /\ rst'[c] = rst[c]
  <2>1. /\ cpc \in [Clients -> {"send", "recv", "done", "dead"}]
        /\ fin \in [Clients -> BOOLEAN] /\ rst \in [Clients -> BOOLEAN]
    BY <1>1 DEF TypeOK
  <2>2. CASE fin' = [fin EXCEPT ![d] = TRUE] /\ UNCHANGED rst
    BY <1>1, <1>3, <2>1, <2>2
  <2>3. CASE outq[d] > 0 /\ rst' = [rst EXCEPT ![d] = TRUE] /\ UNCHANGED fin
    BY <1>1, <1>3, <2>1, <2>3
  <2> QED BY <2>2, <2>3 DEF Kill
<1>6. TypeOK'
  BY <1>1, <1>4, <1>5 DEF TypeOK, loopVars, epVars
<1>7. LoopInv'
  <2>1. \A c \in Clients :
          /\ fin[c] => fin'[c]
          /\ rst[c] => rst'[c]
          /\ cpc[c] = "dead" => cpc'[c] = "dead"
    BY <1>3, <1>5
  <2> QED BY <1>1, <1>2, <2>1, LoopFrame
<1>8. LifeInv(d)'
  BY <1>1, <1>2, <1>3, <1>4, <1>5 DEF LifeInv, loopVars, epVars, At, Gone
<1>9. ParseInv(d)'
  BY <1>1, <1>2, <1>5 DEF ParseInv, loopVars, epVars, At, Gone, Offset
<1>10. ReplyInv(d)'
  BY <1>1, <1>2, <1>5 DEF ReplyInv, loopVars, epVars
<1>11. WakeInv(d)'
  BY <1>1, <1>2, <1>3, <1>4, <1>5 DEF WakeInv, loopVars, epVars, At, Room
<1>12. ASSUME NEW c \in Clients, c # d PROVE ConnInv(c)'
  BY <1>1, <1>4, <1>5, <1>12, Frame DEF IInv, Same, loopVars, epVars
<1> QED BY <1>6, <1>7, <1>8, <1>9, <1>10, <1>11, <1>12 DEF IInv, ConnInv

LEMMA ResetInv ==
  ASSUME IInv, NEW d \in Clients, Reset(d)
  PROVE  IInv'
<1>1. /\ Gone(d) /\ TypeOK /\ ready' = Edge(d) /\ outq[d] > 0
      /\ rst' = [rst EXCEPT ![d] = TRUE]
      /\ UNCHANGED <<loopVars, epVars, reg, inq, outq, nospace, fin, clientVars>>
  BY DEF IInv, Reset
<1>2. TypeAt(d) /\ LoopInv /\ LifeInv(d) /\ ParseInv(d) /\ ReplyInv(d) /\ WakeInv(d)
  BY AtD
<1>3. pc # "aborted" => cpc[d] = "dead"
  BY <1>1, <1>2 DEF Gone, ParseInv
<1>4. /\ ready' \in SUBSET Clients
      /\ \A c \in Clients : c # d => (c \in ready' <=> c \in ready)
      /\ open[d] = "open" => d \in ready'
      /\ open[d] # "open" => d \notin ready'
  BY <1>1, <1>2, EdgeFacts
<1>5. /\ rst' \in [Clients -> BOOLEAN] /\ rst'[d] = TRUE
      /\ \A c \in Clients : c # d => rst'[c] = rst[c]
  <2>1. rst \in [Clients -> BOOLEAN]
    BY <1>1 DEF TypeOK
  <2> QED BY <1>1, <2>1
<1>6. TypeOK'
  BY <1>1, <1>4, <1>5 DEF TypeOK, loopVars, epVars, clientVars
<1>7. LoopInv'
  BY <1>1, <1>2, <1>5, LoopFrame DEF clientVars
<1>8. LifeInv(d)'
  BY <1>1, <1>2, <1>4, <1>5 DEF LifeInv, loopVars, epVars, clientVars, At, Gone
<1>9. ParseInv(d)'
  BY <1>1, <1>2 DEF ParseInv, loopVars, epVars, clientVars, At, Gone, Offset
<1>10. ReplyInv(d)'
  BY <1>1, <1>2, <1>3 DEF ReplyInv, loopVars, epVars, clientVars, Offset
<1>11. WakeInv(d)'
  BY <1>1, <1>2, <1>4 DEF WakeInv, loopVars, epVars, At, Room
<1>12. ASSUME NEW c \in Clients, c # d PROVE ConnInv(c)'
  BY <1>1, <1>4, <1>5, <1>12, Frame DEF IInv, Same, loopVars, epVars, clientVars
<1> QED BY <1>6, <1>7, <1>8, <1>9, <1>10, <1>11, <1>12 DEF IInv, ConnInv

-----------------------------------------------------------------------------
LEMMA InitInv ==
  ASSUME Init
  PROVE  IInv
<1>1. TypeOK
  BY DEF Init, TypeOK, PCs, States
<1>2. LoopInv
  BY DEF Init, LoopInv, IdleClientNeverBlocks
<1>3. ASSUME NEW c \in Clients PROVE LifeInv(c)
  BY DEF Init, LifeInv, Gone, At
<1>4. ASSUME NEW c \in Clients PROVE ParseInv(c)
  <2>1. RequestSize(c) \in Nat /\ RequestSize(c) > 0
    BY DEF RequestSize
  <2> QED BY <2>1 DEF Init, ParseInv, At, Offset, Gone
<1>5. ASSUME NEW c \in Clients PROVE ReplyInv(c) /\ WakeInv(c)
  BY DEF Init, ReplyInv, WakeInv
<1> QED BY <1>1, <1>2, <1>3, <1>4, <1>5 DEF IInv, ConnInv

LEMMA StutterInv ==
  ASSUME IInv, UNCHANGED vars
  PROVE  IInv'
<1> USE DEF vars, loopVars, epVars, kernelVars, clientVars
<1>1. TypeOK'
  BY DEF IInv, TypeOK
<1>2. LoopInv'
  BY DEF IInv, LoopInv, IdleClientNeverBlocks
<1>3. ASSUME NEW c \in Clients PROVE ConnInv(c)'
  BY Frame DEF IInv, Same
<1> QED BY <1>1, <1>2, <1>3 DEF IInv

(* IInv holds in every reachable state: it holds initially and every       *)
(* system call of the server, every step of a client and every event of    *)
(* the kernel preserves it.                                                *)
THEOREM Invariance == Spec => []IInv
<1>1. Init => IInv
  BY InitInv
<1>2. IInv /\ [Next]_vars => IInv'
  <2> SUFFICES ASSUME IInv, [Next]_vars PROVE IInv'
    OBVIOUS
  <2>1. CASE UNCHANGED vars
    BY <2>1, StutterInv
  <2>2. CASE Server
    BY <2>2, PollUntilInv, DispatchInv, ReceiveMetaInv, ReceiveHeaderInv, ReceiveDataInv,
       ReplyInvariant, OnSendReadyInv, ReregisterInv, OnErrorInv DEF Server
  <2>3. CASE \E c \in Clients : OnAccepted(c) \/ Client(c) \/ Kill(c) \/ Reset(c)
    BY <2>3, OnAcceptedInv, ClientSendInv, ClientRecvInv, ClientFailsInv, KillInv, ResetInv
       DEF Client
  <2> QED BY <2>1, <2>2, <2>3 DEF Next
<1> QED BY <1>1, <1>2, PTL DEF Spec

-----------------------------------------------------------------------------
(* Every variable keeps its type: in particular neither byte queue ever    *)
(* overruns its socket buffer and the buffers ReceiveMeta allocates never  *)
(* exceed one request, whatever the sizes and the interleaving.            *)
THEOREM TypeCorrect == Spec => []TypeOK
<1>1. IInv => TypeOK
  BY DEF IInv
<1> QED BY <1>1, Invariance, PTL

(* BwServerEndpoint's state_ always agrees with the position in the stream *)
(* PushData writes: header and data buffers are filled from this request's *)
(* own header and data, however recv splits the bytes.                     *)
THEOREM ParsesInSync == Spec => []ParserInSync
<1>1. IInv => ParserInSync
  <2> SUFFICES ASSUME IInv, pc # "aborted", NEW c \in Clients
               PROVE  /\ state[c] = "NEW_RPC" =>
                           \/ Gone(c)
                           \/ cur = c /\ pc = "meta" /\ Offset(c) = n
                           \/ ~(cur = c /\ pc = "meta") /\ Offset(c) \in {0, RequestSize(c)}
                      /\ state[c] = "META_RECVED" =>
                           hdrLen[c] = HeaderSize /\ Offset(c) = MetaSize + hdrGot[c]
                      /\ state[c] = "HEADER_RECVED" =>
                           /\ datLen[c] = DataSize[c]
                           /\ Offset(c) = MetaSize + HeaderSize + datGot[c]
                      /\ state[c] \in {"DATA_RECVED", "REPLYING"} => Offset(c) = RequestSize(c)
    BY DEF ParserInSync
  <2> QED BY DEF IInv, ConnInv, ParseInv, At
<1> QED BY <1>1, Invariance, PTL

(* The reply bytes in tx_queue_, in the sockets and in the client add up   *)
(* to one reply for a request the server has finished reading and to none  *)
(* otherwise: PushData's RecvAll is never starved and never reads bytes of *)
(* another reply.                                                          *)
THEOREM RepliesInSync == Spec => []ReplyInSync
<1>1. IInv => ReplyInSync
  <2> SUFFICES ASSUME IInv, NEW c \in Clients
               PROVE  /\ state[c] = "REPLYING" =>
                           /\ Len(txq[c]) = 1
                           /\ cpc[c] = "recv" =>
                                cgot[c] + outq[c] + Head(txq[c]) = HeaderSize
                      /\ state[c] # "REPLYING" => txq[c] = <<>>
                      /\ state[c] \in {"META_RECVED", "HEADER_RECVED", "DATA_RECVED"} =>
                           outq[c] = 0
                      /\ cpc[c] = "recv" /\ state[c] = "NEW_RPC" /\ pc # "aborted" =>
                           cgot[c] + outq[c] =
                             IF Offset(c) = RequestSize(c) THEN HeaderSize ELSE 0
    BY DEF ReplyInSync
  <2>1. ReplyInv(c)
    BY DEF IInv, ConnInv
  <2>2. txq[c] = <<Head(txq[c])>> => Len(txq[c]) = 1
    OBVIOUS
  <2> QED BY <2>1, <2>2 DEF ReplyInv
<1> QED BY <1>1, Invariance, PTL

(* The edge-triggered epoll loop never sleeps on work: when Run is about   *)
(* to poll, unread bytes, an end of stream, a reset or an unsent reply     *)
(* each have a wakeup pending, or wait for the client to make room with    *)
(* EPOLLOUT registered.                                                    *)
THEOREM NoWakeupIsLost == Spec => []NoLostWakeup
<1>1. IInv => NoLostWakeup
  <2> SUFFICES ASSUME IInv, pc = "loop", NEW c \in Clients, open[c] = "open", mask[c] = {}
               PROVE  /\ inq[c] > 0 \/ fin[c] \/ rst[c] => c \in ready
                      /\ txq[c] # <<>> =>
                           /\ "W" \in reg[c]
                           /\ c \in ready \/ (Room(c) = 0 /\ nospace[c])
    BY DEF NoLostWakeup
  <2>1. WakeInv(c) /\ LifeInv(c)
    BY DEF IInv, ConnInv
  <2> QED BY <2>1 DEF WakeInv, LifeInv, At
<1> QED BY <1>1, Invariance, PTL

(* ReceiveMeta, whose RecvAll spins until the lengths are complete, is     *)
(* entered only when there is something to read.                           *)
THEOREM NeverBlocksOnIdle == Spec => []IdleClientNeverBlocks
<1>1. IInv => IdleClientNeverBlocks
  BY DEF IInv, LoopInv
<1> QED BY <1>1, Invariance, PTL

(* None of the server's PCHECKs on recv can fail; the one on send only     *)
(* fails for a client killed while its reply was unsent.                   *)
THEOREM AbortsOnlyForKilledPeer == Spec => []AbortOnlyForKilledPeer
<1>1. IInv => AbortOnlyForKilledPeer
  BY DEF IInv, LoopInv, AbortOnlyForKilledPeer
<1> QED BY <1>1, Invariance, PTL

(* After OnError nothing in the loop or in epoll refers to the endpoint.   *)
THEOREM ClosedIsForgotten == Spec => []NoEventAfterClose
<1>1. IInv => NoEventAfterClose
  BY DEF IInv, ConnInv, LifeInv, NoEventAfterClose
<1> QED BY <1>1, Invariance, PTL

-----------------------------------------------------------------------------
(* The refinement.  Served(c) is when CallOf(c) may be "served"; Unread(c) *)
(* says that the server has yet to finish reading the current request.     *)
Served(c) == state[c] \in {"DATA_RECVED", "REPLYING"} \/ cgot[c] + outq[c] > 0
Unread(c) ==
  \/ state[c] \in {"META_RECVED", "HEADER_RECVED", "DATA_RECVED"}
  \/ state[c] = "NEW_RPC" /\ inq[c] > 0

(* No byte of the reply has reached a client whose request the server is   *)
(* still reading.  IInv says so of the clients that wait; the refinement   *)
(* needs it of those that were killed as well.                             *)
FreshInv ==
  pc # "aborted" => \A c \in Clients : Unread(c) => cgot[c] = 0

(* The three kinds of steps of the server, as far as BwService can tell.   *)
Quiet ==
  /\ pc' # "aborted"
  /\ \A c \in Clients : (Served(c)' <=> Served(c)) /\ (Unread(c)' => Unread(c))
Serves(d) ==
  /\ pc' # "aborted"
  /\ csent[d] = RequestSize(d) /\ cpc[d] # "done"
  /\ ~Served(d) /\ Served(d)'
  /\ \A c \in Clients : c # d => (Served(c)' <=> Served(c))
  /\ \A c \in Clients : Unread(c)' => Unread(c)
Crashes(d) ==
  /\ pc' = "aborted"
  /\ csent[d] = RequestSize(d) /\ cpc[d] = "dead" /\ Served(d)
  /\ \A c \in Clients : Served(c)' <=> Served(c)

LEMMA PollUntilQuiet ==
  ASSUME PollUntil
  PROVE  /\ pc # "aborted" /\ UNCHANGED clientVars
         /\ Quiet
BY DEF PollUntil, epVars, clientVars, Quiet, Served, Unread

LEMMA QuietSteps ==
  ASSUME IInv, NEW d \in Clients, Dispatch(d) \/ Reregister(d) \/ OnError(d)
  PROVE  /\ pc # "aborted" /\ UNCHANGED clientVars
         /\ Quiet
<1>1. /\ pc # "aborted" /\ UNCHANGED clientVars
      /\ state' = state /\ outq' = outq /\ inq' = inq /\ cgot' = cgot
  BY DEF Dispatch, Reregister, OnError, epVars, kernelVars, clientVars
<1>2. pc' # "aborted"
  <2>0. TypeOK
    BY DEF IInv
  <2>2. CASE Dispatch(d)
    <3>1. CASE Readable(d) /\ state[d] # "REPLYING"
      <4>1. state[d] \in {"NEW_RPC", "META_RECVED", "HEADER_RECVED", "DATA_RECVED"}
        BY <2>0, <3>1, TypeOKAt DEF TypeAt, States
      <4>2. Entry[state[d]] # "aborted"
        BY <4>1 DEF Entry
      <4> QED BY <2>2, <3>1, <4>2 DEF Dispatch
    <3>2. CASE ~(Readable(d) /\ state[d] # "REPLYING")
      BY <2>0, <2>2, <3>2, EndRecvLeaves DEF Dispatch, Leaves
    <3> QED BY <3>1, <3>2
  <2>3. CASE Reregister(d)
    BY <2>0, <2>3, EndSendLeaves DEF Reregister, Chain, Leaves
  <2>4. CASE OnError(d)
    BY <2>4 DEF OnError, EndEvent
  <2> QED BY <2>2, <2>3, <2>4
<1> QED BY <1>1, <1>2 DEF Quiet, Served, Unread

LEMMA OnAcceptedQuiet ==
  ASSUME IInv, NEW d \in Clients, OnAccepted(d)
  PROVE  /\ pc # "aborted" /\ UNCHANGED clientVars
         /\ Quiet
<1>1. /\ pc = "loop" /\ pc' = pc /\ UNCHANGED clientVars
      /\ outq' = outq /\ inq' = inq /\ cgot' = cgot
      /\ open[d] = "backlog" /\ state' = [state EXCEPT ![d] = "NEW_RPC"]
  BY DEF OnAccepted, loopVars, clientVars
<1>2. state[d] = "NEW_RPC" /\ state \in [Clients -> States]
  BY <1>1, AtD DEF LifeInv, IInv, TypeOK
<1>3. state' = state
  BY <1>1, <1>2
<1> QED BY <1>1, <1>3 DEF Quiet, Served, Unread

(* The stages of a request before its last byte is read.                   *)
LEMMA ReceivingQuiet ==
  ASSUME IInv, NEW d \in Clients, ReceiveMeta(d) \/ ReceiveHeader(d) \/ Reply(d)
  PROVE  /\ pc # "aborted" /\ UNCHANGED clientVars
         /\ Quiet
<1>1. TypeOK /\ TypeAt(d) /\ LoopInv /\ LifeInv(d) /\ ParseInv(d) /\ ReplyInv(d)
  BY AtD DEF IInv
<1>2. state \in [Clients -> States] /\ inq \in [Clients -> 0..RcvCap]
  BY <1>1 DEF TypeOK
<1>3. CASE ReceiveMeta(d)
  <2>1. /\ pc = "meta" /\ cur = d /\ state[d] = "NEW_RPC"
        /\ UNCHANGED clientVars /\ outq' = outq /\ cgot' = cgot
    BY <1>1, <1>3 DEF ReceiveMeta, clientVars, LoopInv
  <2>2. CASE inq[d] > 0
    <3> DEFINE k == Lesser(inq[d], MetaSize - n)
    <3>1. /\ inq' = [inq EXCEPT ![d] = @ - k]
          /\ \/ state' = state /\ pc' = pc
             \/ state' = [state EXCEPT ![d] = "META_RECVED"] /\ pc' = "header"
      BY <1>1, <1>3, <2>2 DEF ReceiveMeta, Chain, TypeAt
    <3>2. \A c \in Clients : c # d => state'[c] = state[c] /\ inq'[c] = inq[c]
      BY <1>2, <3>1
    <3>3. state'[d] \in {"NEW_RPC", "META_RECVED"} /\ Unread(d)
      BY <1>2, <2>1, <2>2, <3>1 DEF Unread
    <3>4. pc' # "aborted"
      BY <2>1, <3>1
    <3> QED BY <2>1, <3>2, <3>3, <3>4 DEF Quiet, Served, Unread
  <2>3. CASE inq[d] = 0
    <3>1. EndRecv(d) /\ inq' = inq /\ state' = state
      BY <1>1, <1>3, <2>3 DEF ReceiveMeta
    <3> QED BY <1>1, <2>1, <3>1, EndRecvLeaves DEF Quiet, Served, Unread, Leaves
  <2> QED BY <1>1, <2>2, <2>3 DEF TypeAt
<1>4. CASE ReceiveHeader(d)
  <2>1. /\ pc = "header" /\ cur = d /\ state[d] = "META_RECVED"
        /\ UNCHANGED clientVars /\ outq' = outq /\ cgot' = cgot
    BY <1>1, <1>4 DEF ReceiveHeader, clientVars, LoopInv
  <2>2. ~Fatal(d)
    BY <1>1, <2>1 DEF ReplyInv, Fatal, TypeAt
  <2>3. CASE inq[d] > 0
    <3> DEFINE k == Lesser(inq[d], hdrLen[d] - hdrGot[d])
    <3>1. /\ inq' = [inq EXCEPT ![d] = @ - k]
          /\ \/ state' = state /\ EndRecv(d)
             \/ state' = [state EXCEPT ![d] = "HEADER_RECVED"] /\ pc' = "data"
      BY <1>1, <1>4, <2>3 DEF ReceiveHeader, Chain, TypeAt
    <3>2. \A c \in Clients : c # d => state'[c] = state[c] /\ inq'[c] = inq[c]
      BY <1>2, <3>1
    <3>3. state'[d] \in {"META_RECVED", "HEADER_RECVED"} /\ Unread(d)
      BY <1>2, <2>1, <3>1 DEF Unread
    <3>4. pc' # "aborted"
      BY <1>1, <3>1, EndRecvLeaves DEF Leaves
    <3> QED BY <2>1, <3>2, <3>3, <3>4 DEF Quiet, Served, Unread
  <2>4. CASE inq[d] = 0
    <3>1. EndRecv(d) /\ inq' = inq /\ state' = state
      BY <1>1, <1>4, <2>2, <2>4 DEF ReceiveHeader
    <3> QED BY <1>1, <2>1, <3>1, EndRecvLeaves DEF Quiet, Served, Unread, Leaves
  <2> QED BY <1>1, <2>3, <2>4 DEF TypeAt
<1>5. CASE Reply(d)
  <2>1. /\ pc = "reply" /\ cur = d /\ state[d] = "DATA_RECVED" /\ pc' = "send"
        /\ UNCHANGED clientVars /\ outq' = outq /\ cgot' = cgot /\ inq' = inq
        /\ state' = [state EXCEPT ![d] = "REPLYING"]
    BY <1>1, <1>5 DEF Reply, clientVars, kernelVars, LoopInv, Chain
  <2>2. /\ state'[d] = "REPLYING"
        /\ \A c \in Clients : c # d => state'[c] = state[c]
    BY <1>2, <2>1
  <2> QED BY <2>1, <2>2 DEF Quiet, Served, Unread
<1> QED BY <1>3, <1>4, <1>5

(* The last byte of the data makes the call served; other reads of it are  *)
(* not seen.                                                               *)
LEMMA ReceiveDataServes ==
  ASSUME IInv, FreshInv, NEW d \in Clients, ReceiveData(d)
  PROVE  /\ pc # "aborted" /\ UNCHANGED clientVars
         /\ Quiet \/ Serves(d)
<1>1. TypeOK /\ TypeAt(d) /\ LoopInv /\ LifeInv(d) /\ ParseInv(d) /\ ReplyInv(d)
  BY AtD DEF IInv
<1>2. state \in [Clients -> States] /\ inq \in [Clients -> 0..RcvCap]
  BY <1>1 DEF TypeOK
<1>3. /\ pc = "data" /\ cur = d /\ state[d] = "HEADER_RECVED"
      /\ UNCHANGED clientVars /\ outq' = outq /\ cgot' = cgot
  BY <1>1 DEF ReceiveData, clientVars, LoopInv
<1>4. ~Fatal(d) /\ outq[d] = 0 /\ cgot[d] = 0 /\ Unread(d) /\ ~Served(d)
  <2>1. outq[d] = 0 /\ ~Fatal(d)
    BY <1>1, <1>3 DEF ReplyInv, Fatal, TypeAt
  <2>2. Unread(d) /\ cgot[d] = 0
    BY <1>3 DEF FreshInv, Unread
  <2> QED BY <1>3, <2>1, <2>2 DEF Served
<1>5. /\ datLen[d] = DataSize[d] /\ cpc[d] # "done" /\ csent[d] <= RequestSize(d)
      /\ csent[d] - inq[d] = MetaSize + HeaderSize + datGot[d]
      /\ datGot[d] < DataSize[d] \/ (DataSize[d] = 0 /\ datGot[d] = 0)
  BY <1>1, <1>3 DEF ParseInv, Offset
<1>6. ASSUME state' = [state EXCEPT ![d] = "DATA_RECVED"], pc' = "reply",
             csent[d] = RequestSize(d),
             \A c \in Clients : c # d => inq'[c] = inq[c]
      PROVE  Serves(d)
  <2>1. /\ state'[d] = "DATA_RECVED"
        /\ \A c \in Clients : c # d => state'[c] = state[c]
    BY <1>2, <1>6
  <2> QED BY <1>3, <1>4, <1>5, <1>6, <2>1 DEF Serves, Served, Unread
<1>7. ASSUME state' = state, EndRecv(d),
             \A c \in Clients : c # d => inq'[c] = inq[c]
      PROVE  Quiet
  BY <1>1, <1>3, <1>7, EndRecvLeaves DEF Quiet, Served, Unread, Leaves
<1>8. CASE datLen[d] = 0
  <2>1. /\ state' = [state EXCEPT ![d] = "DATA_RECVED"] /\ pc' = "reply" /\ inq' = inq
    BY <1>8 DEF ReceiveData, Chain
  <2>2. csent[d] = RequestSize(d)
    BY <1>1, <1>5, <1>8 DEF RequestSize, TypeAt
  <2> QED BY <1>3, <1>6, <2>1, <2>2
<1>9. CASE datLen[d] # 0 /\ inq[d] > 0
  <2> DEFINE k == Lesser(inq[d], datLen[d] - datGot[d])
  <2>1. /\ inq' = [inq EXCEPT ![d] = @ - k]
        /\ IF datGot[d] + k = datLen[d]
             THEN state' = [state EXCEPT ![d] = "DATA_RECVED"] /\ pc' = "reply"
             ELSE EndRecv(d) /\ state' = state
    BY <1>1, <1>9 DEF ReceiveData, Chain, IsClear, TypeAt
  <2>2. \A c \in Clients : c # d => inq'[c] = inq[c]
    BY <1>2, <2>1
  <2>3. ASSUME datGot[d] + k = datLen[d] PROVE csent[d] = RequestSize(d)
    BY <1>1, <1>5, <1>9, <2>3 DEF RequestSize, TypeAt, Lesser
  <2> QED BY <1>3, <1>6, <1>7, <2>1, <2>2, <2>3
<1>10. CASE datLen[d] # 0 /\ inq[d] = 0
  <2>1. EndRecv(d) /\ inq' = inq /\ state' = state
    BY <1>1, <1>4, <1>10 DEF ReceiveData, TypeAt
  <2> QED BY <1>3, <1>7, <2>1
<1> QED BY <1>1, <1>8, <1>9, <1>10 DEF TypeAt

(* A send leaves a served call served; the failing one is a crash.         *)
LEMMA OnSendReadyCrashes ==
  ASSUME IInv, NEW d \in Clients, OnSendReady(d)
  PROVE  /\ pc # "aborted" /\ UNCHANGED clientVars
         /\ Quiet \/ Crashes(d)
<1>1. TypeOK /\ TypeAt(d) /\ LoopInv /\ LifeInv(d) /\ ParseInv(d) /\ ReplyInv(d)
  BY AtD DEF IInv
<1>2. state \in [Clients -> States] /\ outq \in [Clients -> 0..SndCap]
  BY <1>1 DEF TypeOK
<1>3. /\ pc = "send" /\ cur = d
      /\ UNCHANGED clientVars /\ inq' = inq /\ cgot' = cgot
  BY DEF OnSendReady, clientVars
<1>4. ASSUME txq[d] # <<>>
      PROVE  state[d] = "REPLYING" /\ csent[d] = RequestSize(d) /\ inq[d] = 0
  <2>1. state[d] = "REPLYING"
    BY <1>1, <1>4 DEF ReplyInv
  <2>2. csent[d] - inq[d] = RequestSize(d) /\ csent[d] <= RequestSize(d)
    BY <1>1, <1>3, <2>1 DEF ParseInv, Offset
  <2> QED BY <1>1, <2>1, <2>2 DEF TypeAt, RequestSize
<1>5. ASSUME state' = state, outq' = outq, pc' # "aborted" PROVE Quiet
  BY <1>3, <1>5 DEF Quiet, Served, Unread
<1>6. CASE txq[d] = <<>>
  <2>1. EndSend(d) /\ state' = state /\ outq' = outq
    BY <1>6 DEF OnSendReady
  <2> QED BY <1>1, <1>3, <1>5, <2>1, EndSendLeaves DEF Leaves
<1>7. CASE txq[d] # <<>> /\ rst[d]
  <2>1. pc' = "aborted" /\ state' = state /\ outq' = outq
    BY <1>7 DEF OnSendReady, Abort
  <2>2. cpc[d] = "dead"
    BY <1>1, <1>3, <1>7 DEF ReplyInv
  <2> QED BY <1>3, <1>4, <1>7, <2>1, <2>2 DEF Crashes, Served
<1>8. CASE txq[d] # <<>> /\ ~rst[d]
  <2>1. CASE /\ state' = state /\ outq' = outq
             /\ EndSend(d) \/ pc' = "rearm"
    BY <1>1, <1>3, <1>5, <2>1, EndSendLeaves DEF Leaves
  <2>2. CASE /\ pc' = pc \/ pc' = "rearm"
             /\ state' = state \/ state' = [state EXCEPT ![d] = "NEW_RPC"]
             /\ \E k \in 1..Lesser(Room(d), Head(txq[d])) :
                  outq' = [outq EXCEPT ![d] = @ + k]
    <3>1. PICK k \in 1..Lesser(Room(d), Head(txq[d])) :
            outq' = [outq EXCEPT ![d] = @ + k]
      BY <2>2
    <3>2. outq'[d] \in Nat /\ outq'[d] > 0
      BY <1>1, <1>2, <3>1 DEF TypeAt
    <3>3. /\ state'[d] \in {"REPLYING", "NEW_RPC"}
          /\ \A c \in Clients : c # d => state'[c] = state[c] /\ outq'[c] = outq[c]
      BY <1>2, <1>4, <1>8, <2>2, <3>1
    <3>4. Served(d) /\ Served(d)' /\ ~Unread(d)'
      <4>1. state[d] = "REPLYING" /\ inq'[d] = 0 /\ cgot'[d] \in Nat
        BY <1>1, <1>3, <1>4, <1>8 DEF TypeAt
      <4>2. cgot'[d] + outq'[d] > 0
        BY <3>2, <4>1
      <4> QED BY <3>3, <4>1, <4>2 DEF Served, Unread
    <3>5. \A c \in Clients : c # d => (Served(c)' <=> Served(c)) /\ (Unread(c)' => Unread(c))
      BY <1>3, <3>3 DEF Served, Unread
    <3> QED BY <1>3, <2>2, <3>4, <3>5 DEF Quiet
  <2> QED BY <1>8, <2>1, <2>2 DEF OnSendReady
<1> QED BY <1>6, <1>7, <1>8

-----------------------------------------------------------------------------
(* FreshInv is preserved.                                                  *)
LEMMA ClientFresh ==
  ASSUME IInv, FreshInv, NEW d \in Clients, Client(d) \/ Kill(d) \/ Reset(d)
  PROVE  FreshInv'
<1>1. TypeOK /\ TypeAt(d) /\ LoopInv /\ LifeInv(d) /\ ParseInv(d) /\ ReplyInv(d)
  BY AtD DEF IInv
<1>2. cgot \in [Clients -> 0..HeaderSize] /\ inq \in [Clients -> 0..RcvCap]
  BY <1>1 DEF TypeOK
<1>3. pc' = pc /\ state' = state
  BY DEF Client, ClientSend, ClientRecv, ClientFails, Kill, Reset, loopVars, epVars
<1>4. SUFFICES ASSUME pc # "aborted"
               PROVE  \A c \in Clients : Unread(c)' => cgot'[c] = 0
  BY <1>3 DEF FreshInv
<1>5. CASE ClientSend(d)
  <2>1. cgot' = cgot /\ \E k \in Nat : inq' = [inq EXCEPT ![d] = k]
    <3>1. PICK k \in 1..Lesser(RcvCap - inq[d], RequestSize(d) - csent[d]) :
            inq' = [inq EXCEPT ![d] = @ + k]
      BY <1>5 DEF ClientSend
    <3>2. inq[d] + k \in Nat
      BY <1>1, <3>1 DEF TypeAt
    <3>3. inq' = [inq EXCEPT ![d] = inq[d] + k]
      BY <3>1
    <3> QED BY <1>5, <3>2, <3>3 DEF ClientSend
  <2>2. cgot[d] = 0
    BY <1>1, <1>4, <1>5 DEF ClientSend, ReplyInv
  <2>3. \A c \in Clients : c # d => inq'[c] = inq[c]
    BY <1>2, <2>1
  <2> QED BY <1>3, <1>4, <2>1, <2>2, <2>3 DEF FreshInv, Unread
<1>6. CASE ClientRecv(d)
  <2>1. inq' = inq /\ outq[d] > 0 /\ \A c \in Clients : c # d => cgot'[c] = cgot[c]
    <3>1. PICK k \in 1..Lesser(outq[d], HeaderSize - cgot[d]) :
            \/ cgot' = cgot
            \/ cgot' = [cgot EXCEPT ![d] = 0]
            \/ cgot' = [cgot EXCEPT ![d] = @ + k]
      BY <1>6 DEF ClientRecv, Returns
    <3>2. outq[d] > 0
      BY <1>1, <3>1 DEF TypeAt, Lesser
    <3>3. \A c \in Clients : c # d => cgot'[c] = cgot[c]
      BY <1>2, <3>1
    <3> QED BY <1>6, <3>2, <3>3 DEF ClientRecv
  <2>2. ~Unread(d)
    BY <1>1, <1>4, <2>1 DEF Unread, ReplyInv
  <2> QED BY <1>3, <1>4, <2>1, <2>2 DEF FreshInv, Unread
<1>7. CASE Kill(d) \/ Reset(d)
  <2>1. inq' = inq /\ cgot' = cgot
    BY <1>7 DEF Kill, Reset, clientVars
  <2> QED BY <1>3, <1>4, <2>1 DEF FreshInv, Unread
<1> QED BY <1>4, <1>5, <1>6, <1>7 DEF Client, ClientFails

LEMMA FreshInvariant ==
  ASSUME IInv, FreshInv, [Next]_vars
  PROVE  FreshInv'
<1>1. ASSUME pc # "aborted", UNCHANGED clientVars,
             pc' = "aborted" \/ (\A c \in Clients : Unread(c)' => Unread(c))
      PROVE  FreshInv'
  BY <1>1 DEF FreshInv, clientVars
<1>2. CASE UNCHANGED vars
  BY <1>2 DEF vars, loopVars, epVars, kernelVars, clientVars, FreshInv, Unread
<1>3. CASE PollUntil
  BY <1>1, <1>3, PollUntilQuiet DEF Quiet
<1>4. ASSUME NEW d \in Clients,
             Dispatch(d) \/ ReceiveMeta(d) \/ ReceiveHeader(d) \/ ReceiveData(d) \/ Reply(d)
               \/ OnSendReady(d) \/ Reregister(d) \/ OnError(d) \/ OnAccepted(d)
      PROVE  FreshInv'
  <2>1. CASE Dispatch(d) \/ Reregister(d) \/ OnError(d)
    BY <1>1, <2>1, QuietSteps DEF Quiet
  <2>2. CASE ReceiveMeta(d) \/ ReceiveHeader(d) \/ Reply(d)
    BY <1>1, <2>2, ReceivingQuiet DEF Quiet
  <2>3. CASE ReceiveData(d)
    BY <1>1, <2>3, ReceiveDataServes DEF Quiet, Serves
  <2>4. CASE OnSendReady(d)
    BY <1>1, <2>4, OnSendReadyCrashes DEF Quiet, Crashes
  <2>5. CASE OnAccepted(d)
    BY <1>1, <2>5, OnAcceptedQuiet DEF Quiet
  <2> QED BY <1>4, <2>1, <2>2, <2>3, <2>4, <2>5
<1> QED BY <1>2, <1>3, <1>4, ClientFresh DEF Next, Server

-----------------------------------------------------------------------------
(* What a step must do to the connections for BwService to see nothing or  *)
(* one of its actions.                                                     *)
ClientOf(c) == IF cpc[c] \in {"send", "recv"} THEN "alive" ELSE cpc[c]

(* Nothing changes for BwService about the clients other than d.           *)
OnlyCall(d) == \A c \in Clients : c # d => CallOf(c)' = CallOf(c)
OnlyClient(d) == \A c \in Clients : c # d => ClientOf(c)' = ClientOf(c)

LEMMA CallChanges ==
  ASSUME NEW d \in Clients, OnlyCall(d), NEW v, CallOf(d)' = v
  PROVE  [c \in Clients |-> CallOf(c)]' = [[c \in Clients |-> CallOf(c)] EXCEPT ![d] = v]
BY DEF OnlyCall

LEMMA ClientChanges ==
  ASSUME NEW d \in Clients, OnlyClient(d), NEW v, ClientOf(d)' = v
  PROVE  [c \in Clients |-> ClientOf(c)]' = [[c \in Clients |-> ClientOf(c)] EXCEPT ![d] = v]
BY DEF OnlyClient

LEMMA QuietStutters ==
  ASSUME pc # "aborted", UNCHANGED clientVars, Quiet
  PROVE  UNCHANGED Service!vars
<1>1. \A c \in Clients : CallOf(c)' = CallOf(c)
  BY DEF Quiet, CallOf, Served, clientVars, RequestSize
<1>2. [c \in Clients |-> CallOf(c)]' = [c \in Clients |-> CallOf(c)]
  BY <1>1
<1>3. pc' # "aborted"
  BY DEF Quiet
<1> QED BY <1>2, <1>3 DEF Service!vars, clientVars

LEMMA ServesServe ==
  ASSUME NEW d \in Clients, TypeAt(d), pc # "aborted", UNCHANGED clientVars, Serves(d)
  PROVE  Service!Serve(d)
<1>1. CallOf(d) = "pushed" /\ CallOf(d)' = "served" /\ OnlyCall(d)
  BY DEF Serves, CallOf, Served, clientVars, RequestSize, OnlyCall, TypeAt
<1>2. [c \in Clients |-> CallOf(c)]' = [[c \in Clients |-> CallOf(c)] EXCEPT ![d] = "served"]
  BY <1>1, CallChanges
<1>3. pc' # "aborted"
  BY DEF Serves
<1> QED BY <1>1, <1>2, <1>3 DEF Service!Serve, clientVars

LEMMA CrashesCrash ==
  ASSUME NEW d \in Clients, TypeAt(d), pc # "aborted", UNCHANGED clientVars, Crashes(d)
  PROVE  Service!Crash(d)
<1>1. CallOf(d) = "served" /\ \A c \in Clients : CallOf(c)' = CallOf(c)
  BY DEF Crashes, CallOf, Served, clientVars, RequestSize, TypeAt
<1>2. [c \in Clients |-> CallOf(c)]' = [c \in Clients |-> CallOf(c)]
  BY <1>1
<1>3. pc' = "aborted" /\ cpc[d] = "dead"
  BY DEF Crashes
<1> QED BY <1>1, <1>2, <1>3 DEF Service!Crash, clientVars

(* The last byte of the request pushes the call; earlier ones are not      *)
(* seen.                                                                   *)
LEMMA ClientSendPushes ==
  ASSUME IInv, NEW d \in Clients, ClientSend(d)
  PROVE  Service!Push(d) \/ UNCHANGED Service!vars
<1>1. TypeOK /\ TypeAt(d) /\ LoopInv /\ LifeInv(d) /\ ParseInv(d) /\ ReplyInv(d)
  BY AtD DEF IInv
<1>2. /\ csent \in [Clients -> Nat]
      /\ cpc \in [Clients -> {"send", "recv", "done", "dead"}]
  BY <1>1 DEF TypeOK
<1>3. /\ pc # "aborted" /\ cpc[d] = "send" /\ pc' = pc /\ state' = state /\ outq' = outq
      /\ cgot' = cgot /\ calls' = calls /\ acks' = acks
  BY DEF ClientSend, loopVars, epVars
<1>4. PICK k \in 1..Lesser(RcvCap - inq[d], RequestSize(d) - csent[d]) :
        /\ csent' = [csent EXCEPT ![d] = @ + k]
        /\ cpc' = [cpc EXCEPT ![d] =
                     IF csent[d] + k = RequestSize(d) THEN "recv" ELSE "send"]
  BY DEF ClientSend
<1>5. /\ k \in Nat /\ csent[d] + k <= RequestSize(d) /\ RequestSize(d) \in Nat
      /\ csent[d] < RequestSize(d)
  BY <1>1, <1>3, <1>4 DEF Lesser, TypeAt, RequestSize, ParseInv
<1>6. /\ csent'[d] = csent[d] + k /\ cpc'[d] \in {"send", "recv"}
      /\ \A c \in Clients : c # d => csent'[c] = csent[c] /\ cpc'[c] = cpc[c]
  BY <1>2, <1>4
<1>7. state[d] \notin {"DATA_RECVED", "REPLYING"} /\ cgot[d] = 0 /\ outq[d] = 0
  <2>1. state[d] # "REPLYING" /\ cgot[d] = 0 /\ outq[d] = 0
    BY <1>1, <1>3 DEF ReplyInv
  <2>2. ASSUME state[d] = "DATA_RECVED" PROVE FALSE
    <3>1. csent[d] - inq[d] = RequestSize(d)
      BY <1>1, <1>3, <2>2 DEF ParseInv, Offset
    <3> QED BY <1>1, <1>5, <3>1 DEF TypeAt
  <2> QED BY <2>1, <2>2
<1>8. OnlyCall(d) /\ CallOf(d) = "idle"
  BY <1>3, <1>5, <1>6 DEF OnlyCall, CallOf, RequestSize
<1>9. [c \in Clients |-> ClientOf(c)]' = [c \in Clients |-> ClientOf(c)]
  BY <1>3, <1>6 DEF ClientOf
<1>10. CASE csent[d] + k < RequestSize(d)
  <2>1. CallOf(d)' = "idle"
    BY <1>6, <1>10 DEF CallOf, RequestSize
  <2>2. [c \in Clients |-> CallOf(c)]' = [c \in Clients |-> CallOf(c)]
    BY <1>8, <2>1 DEF OnlyCall
  <2> QED BY <1>3, <1>9, <2>2 DEF Service!vars, ClientOf
<1>11. CASE csent[d] + k = RequestSize(d)
  <2>1. CallOf(d)' = "pushed"
    <3>1. ~(csent'[d] < RequestSize(d)) /\ cpc'[d] # "done"
      BY <1>5, <1>6, <1>11
    <3> QED BY <1>3, <1>7, <3>1 DEF CallOf, RequestSize
  <2>2. [c \in Clients |-> CallOf(c)]' = [[c \in Clients |-> CallOf(c)] EXCEPT ![d] = "pushed"]
    BY <1>8, <2>1, CallChanges
  <2> QED BY <1>3, <1>8, <1>9, <2>2 DEF Service!Push, ClientOf
<1> QED BY <1>1, <1>5, <1>10, <1>11 DEF TypeAt

(* PushData returns: the client is idle or has run for long enough.        *)
LEMMA ReturnsReturn ==
  ASSUME IInv, NEW d \in Clients, Returns(d), cpc[d] \in {"send", "recv"},
         pc' = pc, state' = state,
         \A c \in Clients : c # d => outq'[c] = outq[c]
  PROVE  Service!Return(d)
<1>1. TypeOK
  BY DEF IInv
<1>2. /\ csent \in [Clients -> Nat] /\ cgot \in [Clients -> 0..HeaderSize]
      /\ cpc \in [Clients -> {"send", "recv", "done", "dead"}]
  BY <1>1 DEF TypeOK
<1>3. RequestSize(d) \in Nat /\ 0 < RequestSize(d)
  BY DEF RequestSize
<1>4. \A c \in Clients : c # d =>
        cpc'[c] = cpc[c] /\ csent'[c] = csent[c] /\ cgot'[c] = cgot[c]
  BY <1>2 DEF Returns
<1>5. OnlyCall(d) /\ OnlyClient(d)
  BY <1>4 DEF OnlyCall, OnlyClient, CallOf, ClientOf, RequestSize
<1>6. \/ cpc'[d] = "send" /\ csent'[d] = 0
      \/ cpc'[d] = "done"
  BY <1>2 DEF Returns
<1>7. CallOf(d)' = "idle"
  BY <1>3, <1>6 DEF CallOf, RequestSize
<1>8. [c \in Clients |-> CallOf(c)]' = [[c \in Clients |-> CallOf(c)] EXCEPT ![d] = "idle"]
  BY <1>5, <1>7, CallChanges
<1>9. ClientOf(d) = "alive"
  BY DEF ClientOf
<1>10. \/ [c \in Clients |-> ClientOf(c)]' = [c \in Clients |-> ClientOf(c)]
       \/ [c \in Clients |-> ClientOf(c)]' = [[c \in Clients |-> ClientOf(c)] EXCEPT ![d] = "done"]
  <2>1. CASE cpc'[d] = "send"
    BY <1>5, <1>9, <2>1 DEF OnlyClient, ClientOf
  <2>2. CASE cpc'[d] = "done"
    BY <1>5, <2>2, ClientChanges DEF ClientOf
  <2> QED BY <1>6, <2>1, <2>2
<1>11. calls' = [calls EXCEPT ![d] = @ + 1]
  BY DEF Returns
<1> QED BY <1>8, <1>9, <1>10, <1>11 DEF Service!Return, ClientOf

(* The last byte of the reply acknowledges a call that has been served.    *)
LEMMA ClientRecvAcks ==
  ASSUME IInv, NEW d \in Clients, ClientRecv(d)
  PROVE  Service!Ack(d) \/ UNCHANGED Service!vars
<1>1. TypeOK /\ TypeAt(d) /\ LoopInv /\ LifeInv(d) /\ ParseInv(d) /\ ReplyInv(d)
  BY AtD DEF IInv
<1>2. outq \in [Clients -> 0..SndCap] /\ cgot \in [Clients -> 0..HeaderSize]
  BY <1>1 DEF TypeOK
<1>3. cpc[d] = "recv" /\ pc' = pc /\ state' = state
  BY DEF ClientRecv, loopVars, epVars
<1>4. PICK k \in 1..Lesser(outq[d], HeaderSize - cgot[d]) :
        /\ outq' = [outq EXCEPT ![d] = @ - k]
        /\ IF cgot[d] + k = HeaderSize
             THEN acks' = [acks EXCEPT ![d] = @ + 1] /\ Returns(d)
             ELSE /\ cgot' = [cgot EXCEPT ![d] = @ + k]
                  /\ UNCHANGED <<cpc, csent, calls, acks, fin>>
  BY DEF ClientRecv
<1>5. k \in Nat /\ outq[d] > 0 /\ k <= outq[d] /\ outq[d] - k \in Nat
  BY <1>1, <1>4 DEF TypeAt, Lesser
<1>6. /\ outq'[d] = outq[d] - k
      /\ \A c \in Clients : c # d => outq'[c] = outq[c]
  BY <1>2, <1>4
<1>7. CASE cgot[d] + k = HeaderSize
  <2>1. CallOf(d) = "served"
    <3>1. csent[d] = RequestSize(d) /\ ~(csent[d] < RequestSize(d))
      BY <1>1, <1>3 DEF ParseInv, TypeAt
    <3>2. cgot[d] + outq[d] > 0
      BY <1>1, <1>5 DEF TypeAt
    <3> QED BY <1>3, <3>1, <3>2 DEF CallOf
  <2>2. Service!Return(d)
    BY <1>3, <1>4, <1>6, <1>7, ReturnsReturn
  <2> QED BY <1>4, <1>7, <2>1, <2>2 DEF Service!Ack
<1>8. CASE cgot[d] + k # HeaderSize
  <2>1. cgot' = [cgot EXCEPT ![d] = @ + k] /\ UNCHANGED <<cpc, csent, calls, acks>>
    BY <1>4, <1>8
  <2>2. /\ cgot'[d] = cgot[d] + k
        /\ \A c \in Clients : c # d => cgot'[c] = cgot[c]
    BY <1>2, <2>1
  <2>3. cgot'[d] + outq'[d] = cgot[d] + outq[d]
    BY <1>1, <1>5, <1>6, <2>2 DEF TypeAt
  <2>4. \A c \in Clients : CallOf(c)' = CallOf(c)
    BY <1>3, <1>6, <2>1, <2>2, <2>3 DEF CallOf, RequestSize
  <2>5. [c \in Clients |-> CallOf(c)]' = [c \in Clients |-> CallOf(c)]
    BY <2>4
  <2> QED BY <1>3, <2>1, <2>5 DEF Service!vars
<1> QED BY <1>7, <1>8

(* With the server gone the client dies in RPC_CHECK_EQ or its call fails. *)
LEMMA ClientFailsFails ==
  ASSUME IInv, NEW d \in Clients, ClientFails(d)
  PROVE  Service!Die(d) \/ Service!Fail(d)
<1>1. TypeOK /\ TypeAt(d) /\ LoopInv /\ LifeInv(d) /\ ParseInv(d) /\ ReplyInv(d)
  BY AtD DEF IInv
<1>2. cpc \in [Clients -> {"send", "recv", "done", "dead"}]
  BY <1>1 DEF TypeOK
<1>3. /\ pc = "aborted" /\ pc' = pc /\ state' = state /\ outq' = outq /\ acks' = acks
  BY DEF ClientFails, loopVars, epVars
<1>4. CASE /\ cpc[d] = "send" /\ cpc' = [cpc EXCEPT ![d] = "dead"]
           /\ UNCHANGED <<fin, csent, cgot, calls>>
  <2>1. /\ cpc'[d] = "dead"
        /\ \A c \in Clients : c # d => cpc'[c] = cpc[c]
    BY <1>2, <1>4
  <2>2. \A c \in Clients : CallOf(c)' = CallOf(c)
    BY <1>3, <1>4, <2>1 DEF CallOf, RequestSize
  <2>3. [c \in Clients |-> CallOf(c)]' = [c \in Clients |-> CallOf(c)]
    BY <2>2
  <2>4. OnlyClient(d) /\ ClientOf(d)' = "dead" /\ ClientOf(d) = "alive"
    BY <1>4, <2>1 DEF OnlyClient, ClientOf
  <2>5. [c \in Clients |-> ClientOf(c)]' = [[c \in Clients |-> ClientOf(c)] EXCEPT ![d] = "dead"]
    BY <2>4, ClientChanges
  <2> QED BY <1>3, <1>4, <2>3, <2>4, <2>5 DEF Service!Die, ClientOf
<1>5. CASE cpc[d] \in {"send", "recv"} /\ Returns(d)
  <2>1. Service!Return(d)
    BY <1>3, <1>5, ReturnsReturn
  <2> QED BY <1>3, <2>1 DEF Service!Fail
<1> QED BY <1>4, <1>5 DEF ClientFails

LEMMA KillDies ==
  ASSUME IInv, NEW d \in Clients, Kill(d)
  PROVE  Service!Die(d)
<1>1. TypeOK /\ TypeAt(d)
  BY AtD DEF IInv
<1>2. cpc \in [Clients -> {"send", "recv", "done", "dead"}]
  BY <1>1 DEF TypeOK
<1>3. /\ cpc[d] \in {"send", "recv"} /\ cpc' = [cpc EXCEPT ![d] = "dead"]
      /\ pc' = pc /\ state' = state /\ outq' = outq
      /\ UNCHANGED <<csent, cgot, calls, acks>>
  BY <1>1 DEF Kill, Gone, TypeAt, loopVars, epVars
<1>4. /\ cpc'[d] = "dead"
      /\ \A c \in Clients : c # d => cpc'[c] = cpc[c]
  BY <1>2, <1>3
<1>5. \A c \in Clients : CallOf(c)' = CallOf(c)
  BY <1>3, <1>4 DEF CallOf, RequestSize
<1>6. [c \in Clients |-> CallOf(c)]' = [c \in Clients |-> CallOf(c)]
  BY <1>5
<1>7. OnlyClient(d) /\ ClientOf(d)' = "dead" /\ ClientOf(d) = "alive"
  BY <1>3, <1>4 DEF OnlyClient, ClientOf
<1>8. [c \in Clients |-> ClientOf(c)]' = [[c \in Clients |-> ClientOf(c)] EXCEPT ![d] = "dead"]
  BY <1>7, ClientChanges
<1> QED BY <1>3, <1>6, <1>7, <1>8 DEF Service!Die, ClientOf

LEMMA StepImplements ==
  ASSUME IInv, FreshInv, [Next]_vars
  PROVE  [Service!Next]_Service!vars
<1>1. CASE UNCHANGED vars
  <2>1. \A c \in Clients : CallOf(c)' = CallOf(c)
    BY <1>1 DEF vars, loopVars, epVars, kernelVars, clientVars, CallOf, RequestSize
  <2>2. [c \in Clients |-> CallOf(c)]' = [c \in Clients |-> CallOf(c)]
    BY <2>1
  <2> QED BY <1>1, <2>2 DEF vars, loopVars, clientVars, Service!vars
<1>2. CASE PollUntil
  BY <1>2, PollUntilQuiet, QuietStutters
<1>3. ASSUME NEW d \in Clients,
             Dispatch(d) \/ ReceiveMeta(d) \/ ReceiveHeader(d) \/ Reply(d)
               \/ Reregister(d) \/ OnError(d) \/ OnAccepted(d)
      PROVE  UNCHANGED Service!vars
  BY <1>3, QuietSteps, ReceivingQuiet, OnAcceptedQuiet, QuietStutters
<1>4. ASSUME NEW d \in Clients, ReceiveData(d)
      PROVE  Service!Serve(d) \/ UNCHANGED Service!vars
  BY <1>4, AtD, ReceiveDataServes, ServesServe, QuietStutters
<1>5. ASSUME NEW d \in Clients, OnSendReady(d)
      PROVE  Service!Crash(d) \/ UNCHANGED Service!vars
  BY <1>5, AtD, OnSendReadyCrashes, CrashesCrash, QuietStutters
<1>6. ASSUME NEW d \in Clients, Reset(d)
      PROVE  UNCHANGED Service!vars
  <2>1. /\ pc' = pc /\ UNCHANGED clientVars
        /\ \A c \in Clients : CallOf(c)' = CallOf(c)
    BY <1>6 DEF Reset, loopVars, epVars, clientVars, CallOf, RequestSize
  <2>2. [c \in Clients |-> CallOf(c)]' = [c \in Clients |-> CallOf(c)]
    BY <2>1
  <2> QED BY <2>1, <2>2 DEF clientVars, Service!vars
<1>7. ASSUME NEW d \in Clients, Client(d) \/ Kill(d)
      PROVE  \/ Service!Push(d) \/ Service!Ack(d) \/ Service!Die(d) \/ Service!Fail(d)
             \/ UNCHANGED Service!vars
  BY <1>7, ClientSendPushes, ClientRecvAcks, ClientFailsFails, KillDies DEF Client
<1> QED BY <1>1, <1>2, <1>3, <1>4, <1>5, <1>6, <1>7 DEF Next, Server, Service!Next

LEMMA InitImplements ==
  ASSUME Init
  PROVE  FreshInv /\ Service!Init
<1>1. FreshInv
  BY DEF Init, FreshInv
<1>2. \A c \in Clients : CallOf(c) = "idle"
  <2>1. \A c \in Clients : 0 < RequestSize(c)
    BY DEF RequestSize
  <2> QED BY <2>1 DEF Init, CallOf
<1> QED BY <1>1, <1>2 DEF Init, Service!Init

(* The byte streams, the endpoint's state machine and the event loop       *)
(* implement BwService: for any number of clients, any sizes and whoever   *)
(* is killed, PushData reports success once per request and only for one   *)
(* the server has read to its last byte, a call fails only when the server *)
(* is down, and the server goes down only for a killed client.             *)
THEOREM SocketImplementsService == Spec => ImplementsBwService
<1>1. Init => FreshInv /\ Service!Init
  BY InitImplements
<1>2. IInv /\ FreshInv /\ [Next]_vars => FreshInv'
  BY FreshInvariant
<1>3. IInv /\ FreshInv /\ [Next]_vars => [Service!Next]_Service!vars
  BY StepImplements
<1> QED BY <1>1, <1>2, <1>3, Invariance, PTL DEF Spec, ImplementsBwService, Service!Spec

(* What follows for a caller from BwService alone.                         *)
NoCallFails ==
  /\ \A c \in Clients : acks[c] \in Nat /\ calls[c] \in Nat /\ acks[c] <= calls[c]
  /\ pc # "aborted" => \A c \in Clients : acks[c] = calls[c]

LEMMA ServiceStart ==
  ASSUME Service!Init
  PROVE  NoCallFails
BY DEF Service!Init, NoCallFails

LEMMA ServiceStep ==
  ASSUME NoCallFails, [Service!Next]_Service!vars,
         acks \in [Clients -> Nat], calls \in [Clients -> Nat]
  PROVE  NoCallFails'
<1>1. CASE UNCHANGED <<acks, calls>> /\ (pc' # "aborted" => pc # "aborted")
  BY <1>1 DEF NoCallFails
<1>2. ASSUME NEW d \in Clients, Service!Ack(d) PROVE NoCallFails'
  <2>1. /\ acks' = [acks EXCEPT ![d] = @ + 1] /\ calls' = [calls EXCEPT ![d] = @ + 1]
        /\ (pc' # "aborted") = (pc # "aborted")
    BY <1>2 DEF Service!Ack, Service!Return
  <2>2. \A c \in Clients : /\ acks'[c] = IF c = d THEN acks[c] + 1 ELSE acks[c]
                           /\ calls'[c] = IF c = d THEN calls[c] + 1 ELSE calls[c]
    BY <2>1
  <2> QED BY <2>1, <2>2 DEF NoCallFails
<1>3. ASSUME NEW d \in Clients, Service!Fail(d) PROVE NoCallFails'
  <2>1. /\ acks' = acks /\ calls' = [calls EXCEPT ![d] = @ + 1]
        /\ ~(pc # "aborted") /\ (pc' # "aborted") = (pc # "aborted")
    BY <1>3 DEF Service!Fail, Service!Return
  <2>2. \A c \in Clients : calls'[c] = IF c = d THEN calls[c] + 1 ELSE calls[c]
    BY <2>1
  <2> QED BY <2>1, <2>2 DEF NoCallFails
<1>4. ASSUME NEW d \in Clients, Service!Push(d) \/ Service!Serve(d) \/ Service!Die(d)
      PROVE  NoCallFails'
  <2>1. UNCHANGED <<acks, calls>> /\ (pc' # "aborted") = (pc # "aborted")
    BY <1>4 DEF Service!Push, Service!Serve, Service!Die
  <2> QED BY <1>1, <2>1
<1>5. ASSUME NEW d \in Clients, Service!Crash(d) PROVE NoCallFails'
  <2>1. UNCHANGED <<acks, calls>> /\ (pc' # "aborted") = FALSE
    BY <1>5 DEF Service!Crash
  <2> QED BY <1>1, <2>1
<1>6. CASE UNCHANGED Service!vars
  <2>1. UNCHANGED <<acks, calls>> /\ (pc' # "aborted") = (pc # "aborted")
    BY <1>6 DEF Service!vars
  <2> QED BY <1>1, <2>1
<1> QED BY <1>2, <1>3, <1>4, <1>5, <1>6 DEF Service!Next

(* A caller of PushData never sees a failure while the server runs: every  *)
(* call that has returned was acknowledged, whoever else was killed and    *)
(* however the bytes were cut.  The proof uses the refinement and nothing  *)
(* of the sockets, so it holds of whatever implements BwService.           *)
THEOREM NoCallFailsWhileUp ==
  Spec => [](pc # "aborted" => \A c \in Clients : acks[c] = calls[c])
<1>1. Service!Init => NoCallFails
  BY ServiceStart
<1>2. TypeOK /\ NoCallFails /\ [Service!Next]_Service!vars => NoCallFails'
  BY ServiceStep DEF TypeOK
<1>3. NoCallFails => (pc # "aborted" => \A c \in Clients : acks[c] = calls[c])
  BY DEF NoCallFails
<1>4. IInv => TypeOK
  BY DEF IInv
<1> QED BY <1>1, <1>2, <1>3, <1>4, Invariance, SocketImplementsService, PTL
        DEF ImplementsBwService, Service!Spec

=============================================================================
