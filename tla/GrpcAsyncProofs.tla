-------------------------- MODULE GrpcAsyncProofs ---------------------------
(***************************************************************************)
(* Proofs about the asynchronous gRPC benchmarks: for any number of client *)
(* threads, server threads and addresses, any window and any period, with  *)
(* refused calls and a server that may crash.                              *)
(***************************************************************************)
EXTENDS GrpcAsync, FiniteSetTheorems, TLAPS

(* A client thread: req_cnt counts its calls, goes down only after the     *)
(* time is up, and a latency client is told the time by a success.         *)
ClientInv(w) ==
  /\ Cardinality(Outstanding(w)) = reqCnt[w]
  /\ wpc[w] # "fill" => reqCnt[w] = Window \/ timeout[w]
  /\ wpc[w] = "done" => reqCnt[w] = 0
  /\ wpc[w] # "crashed"
  /\ timeout[w] => expired[w]
  /\ kind = "latency" /\ timeout[w] => measured[w]

(* A server object: its status, its thread, the operation it has under way *)
(* and the call it serves go together, and its tag is in one place.        *)
ObjectInv(o) ==
  /\ status[o] = "FREE" <=> thread[o] = None
  /\ op[o] = "request" => status[o] = "PROCESS"
  /\ op[o] = "finish" => status[o] = "FINISH"
  /\ serves[o] # None => \/ status[o] = "PROCESS" /\ op[o] = "none"
                         \/ status[o] = "FINISH" /\ op[o] = "finish"
  /\ status[o] = "FREE" => op[o] = "none" /\ \A t \in Threads : o \notin cq[t]
  /\ status[o] # "FREE" =>
       \/ op[o] # "none" /\ \A t \in Threads : o \notin cq[t]
       \/ op[o] = "none" /\ \A t \in Threads : o \in cq[t] <=> t = thread[o]

(* The objects of a thread that wait for a call or have just got one.      *)
Listeners(t) == {o \in Addresses : thread[o] = t /\ status[o] = "PROCESS"}
ListenInv == \A t \in Threads : \E o \in Addresses : Listeners(t) = {o}

ClientTypes ==
  /\ kind \in Kinds
  /\ wpc \in [Workers -> {"fill", "loop", "done", "crashed"}]
  /\ reqCnt \in [Workers -> 0..Window]
  /\ timeCnt \in [Workers -> 0..(Period - 1)]
  /\ timeout \in [Workers -> BOOLEAN]
  /\ expired \in [Workers -> BOOLEAN]
  /\ measured \in [Workers -> BOOLEAN]

CallTypes == call \in [Workers -> [Slots -> {"free", "sent", "bound", "ok", "failed"}]]

ServerTypes ==
  /\ up \in BOOLEAN
  /\ status \in [Addresses -> {"FREE", "PROCESS", "FINISH"}]
  /\ thread \in [Addresses -> Threads \cup {None}]
  /\ op \in [Addresses -> {"none", "request", "finish"}]
  /\ serves \in [Addresses -> (Workers \X Slots) \cup {None}]
  /\ cq \in [Threads -> SUBSET Addresses]

ClientsInv == ClientTypes /\ CallTypes /\ \A w \in Workers : ClientInv(w)
ServerInv  == ServerTypes /\ (\A o \in Addresses : ObjectInv(o)) /\ ListenInv

IInv == ClientsInv /\ ServerInv /\ ServedOnce

-----------------------------------------------------------------------------
LEMMA WindowType == Window \in Nat /\ Concurrency \in Nat /\ Period \in Nat \ {0}
BY WindowAssumption DEF Window

LEMMA NotNone ==
  /\ \A t \in Threads : t # None
  /\ \A w \in Workers, s \in Slots : <<w, s>> # None
BY NoneAssumption

LEMMA PairsDiffer ==
  ASSUME NEW v, NEW x, NEW w, NEW s, v # w \/ x # s
  PROVE  <<v, x>> # <<w, s>>
OBVIOUS

LEMMA OutstandingFinite ==
  ASSUME NEW S \in SUBSET Slots
  PROVE  IsFiniteSet(S) /\ Cardinality(S) \in Nat
<1>1. 1 \in Int /\ Concurrency + 1 \in Int
  BY WindowType
<1>2. IsFiniteSet(Slots)
  BY <1>1, FS_Interval DEF Slots
<1> QED BY <1>2, FS_Subset, FS_CardinalityType

LEMMA OneLess ==
  ASSUME NEW S, NEW x \in S, NEW n, IsFiniteSet(S), Cardinality(S) = n
  PROVE  IsFiniteSet(S \ {x}) /\ Cardinality(S \ {x}) = n - 1
BY FS_RemoveElement

LEMMA OneMore ==
  ASSUME NEW S, NEW x, NEW n \in Int, x \notin S, IsFiniteSet(S), Cardinality(S) = n - 1
  PROVE  Cardinality(S \cup {x}) = n
<1>1. Cardinality(S \cup {x}) = Cardinality(S) + 1
  BY FS_AddElement
<1> QED BY <1>1

(* A step of the server or the library changes the calls so that none is   *)
(* made and none is deleted.                                               *)
LEMMA CallsStay ==
  ASSUME ClientsInv, UNCHANGED clientVars, CallTypes',
         \A w \in Workers, s \in Slots : call'[w][s] = "free" <=> call[w][s] = "free"
  PROVE  ClientsInv'
<1>1. \A w \in Workers : Outstanding(w)' = Outstanding(w)
  BY DEF Outstanding
<1>2. ClientTypes' /\ Window' = Window
  BY DEF ClientsInv, ClientTypes, Window, clientVars
<1>3. \A w \in Workers : ClientInv(w)'
  BY <1>1, <1>2 DEF ClientsInv, ClientInv, clientVars
<1> QED BY <1>2, <1>3 DEF ClientsInv

(* A step of a client that neither takes up nor drops a bound call.        *)
LEMMA BoundStay ==
  ASSUME ServerInv, ServedOnce, UNCHANGED <<up, objectVars, cq>>,
         \A w \in Workers, s \in Slots : call'[w][s] = "bound" <=> call[w][s] = "bound"
  PROVE  ServerInv' /\ ServedOnce'
<1>1. ServerInv'
  BY DEF ServerInv, ServerTypes, ObjectInv, ListenInv, Listeners, objectVars
<1>2. ServedOnce'
  BY DEF ServedOnce, objectVars
<1> QED BY <1>1, <1>2

-----------------------------------------------------------------------------
LEMMA InitInv == Init => IInv
<1> SUFFICES ASSUME Init PROVE IInv
  OBVIOUS
<1>1. ClientTypes
  BY WindowType DEF Init, ClientTypes
<1>2. CallTypes
  BY DEF Init, CallTypes
<1>3. \A w \in Workers : Outstanding(w) = {}
  BY DEF Init, Outstanding
<1>4. ClientsInv
  BY <1>1, <1>2, <1>3, FS_EmptySet DEF Init, ClientsInv, ClientInv
<1>5. PICK first \in [Threads -> Addresses] :
        /\ \A t, u \in Threads : first[t] = first[u] => t = u
        /\ thread = [o \in Addresses |->
                       IF \E t \in Threads : first[t] = o
                         THEN CHOOSE t \in Threads : first[t] = o ELSE None]
  BY DEF Init
<1>6. /\ \A t \in Threads : thread[first[t]] = t
      /\ thread \in [Addresses -> Threads \cup {None}]
      /\ \A o \in Addresses : thread[o] # None => o = first[thread[o]]
  BY <1>5
<1>7. ServerTypes
  BY <1>6 DEF Init, ServerTypes
<1>8. \A o \in Addresses : ObjectInv(o)
  BY DEF Init, ObjectInv
<1>9. ListenInv
  <2> SUFFICES ASSUME NEW t \in Threads PROVE Listeners(t) = {first[t]}
    BY DEF ListenInv
  <2>1. \A o \in Addresses : thread[o] = t <=> o = first[t]
    BY <1>6, NotNone
  <2>2. \A o \in Addresses : thread[o] = t => status[o] = "PROCESS"
    BY NotNone DEF Init
  <2> QED BY <2>1, <2>2 DEF Listeners
<1>10. ServedOnce
  BY NotNone DEF Init, ServedOnce
<1> QED BY <1>4, <1>7, <1>8, <1>9, <1>10 DEF IInv, ServerInv

(* What a step of a worker does to the calls of all.                       *)
LEMMA WorkerCalls ==
  ASSUME CallTypes, NEW w \in Workers, call' = [call EXCEPT ![w] = call'[w]],
         call'[w] \in [Slots -> {"free", "sent", "bound", "ok", "failed"}]
  PROVE  CallTypes' /\ \A v \in Workers : v # w => call'[v] = call[v]
BY DEF CallTypes

LEMMA FillInv == ASSUME IInv, NEW w \in Workers, Fill(w) PROVE IInv'
<1>1. /\ ClientTypes /\ CallTypes /\ \A v \in Workers : ClientInv(v)
      /\ ServerInv /\ ServedOnce
  BY DEF IInv, ClientsInv
<1>2. /\ wpc[w] = "fill" /\ UNCHANGED <<kind, timeCnt, timeout, expired, measured>>
      /\ UNCHANGED <<up, objectVars, cq>> /\ Window' = Window
  BY DEF Fill, Window
<1>3. CASE reqCnt[w] < Window
  <2>1. /\ \E cs \in NewCall(call[w]) : call' = [call EXCEPT ![w] = cs]
        /\ reqCnt' = [reqCnt EXCEPT ![w] = @ + 1]
        /\ wpc' = wpc
    BY <1>3 DEF Fill
  <2>2. PICK s \in Slots : /\ call[w][s] = "free"
                           /\ call' = [call EXCEPT ![w] = [call[w] EXCEPT ![s] = "sent"]]
    BY <2>1 DEF NewCall
  <2>3. /\ CallTypes' /\ call'[w][s] = "sent"
        /\ \A v \in Workers, x \in Slots : v # w \/ x # s => call'[v][x] = call[v][x]
    BY <1>1, <2>2 DEF CallTypes
  <2>4. /\ Outstanding(w)' = Outstanding(w) \cup {s} /\ s \notin Outstanding(w)
        /\ \A v \in Workers : v # w => Outstanding(v)' = Outstanding(v)
    BY <2>2, <2>3 DEF Outstanding
  <2>5. Cardinality(Outstanding(w)') = Cardinality(Outstanding(w)) + 1
    BY <2>4, OutstandingFinite, FS_AddElement DEF Outstanding
  <2>6. /\ reqCnt' \in [Workers -> 0..Window] /\ reqCnt'[w] = reqCnt[w] + 1
        /\ \A v \in Workers : v # w => reqCnt'[v] = reqCnt[v]
    BY <1>1, <1>3, <2>1, WindowType DEF ClientTypes
  <2>7. ClientTypes'
    BY <1>1, <1>2, <2>1, <2>6 DEF ClientTypes
  <2>8. ASSUME NEW v \in Workers PROVE ClientInv(v)'
    <3>1. CASE v = w
      BY <1>1, <1>2, <2>1, <2>5, <2>6, <3>1 DEF ClientInv
    <3>2. CASE v # w
      BY <1>1, <1>2, <2>1, <2>4, <2>6, <3>2 DEF ClientInv
    <3> QED BY <3>1, <3>2
  <2>9. ServerInv' /\ ServedOnce'
    BY <1>1, <1>2, <2>2, <2>3, BoundStay
  <2> QED BY <2>3, <2>7, <2>8, <2>9 DEF IInv, ClientsInv
<1>4. CASE ~(reqCnt[w] < Window)
  <2>1. /\ wpc' = [wpc EXCEPT ![w] = "loop"] /\ UNCHANGED <<call, reqCnt>>
    BY <1>4 DEF Fill
  <2>2. ClientTypes' /\ CallTypes'
    BY <1>1, <1>2, <2>1 DEF ClientTypes, CallTypes
  <2>3. reqCnt[w] = Window
    BY <1>1, <1>4, WindowType DEF ClientTypes
  <2>4. ASSUME NEW v \in Workers PROVE ClientInv(v)'
    <3>1. Outstanding(v)' = Outstanding(v)
      BY <2>1 DEF Outstanding
    <3>2. wpc'[v] = IF v = w THEN "loop" ELSE wpc[v]
      BY <1>1, <2>1 DEF ClientTypes
    <3> QED BY <1>1, <1>2, <2>1, <2>3, <3>1, <3>2 DEF ClientInv
  <2>5. ServerInv' /\ ServedOnce'
    BY <1>1, <1>2, <2>1, BoundStay
  <2> QED BY <2>2, <2>4, <2>5 DEF IInv, ClientsInv
<1> QED BY <1>3, <1>4

(* LookAtClock finds the time is up only when it is, and a latency client  *)
(* only on a success.                                                      *)
LEMMA LookKeeps ==
  ASSUME ClientTypes, NEW w \in Workers, NEW s \in Slots, LookAtClock(w, s),
         ClientInv(w)
  PROVE  /\ timeCnt' \in [Workers -> 0..(Period - 1)]
         /\ timeout' \in [Workers -> BOOLEAN]
         /\ timeout[w] => timeout'[w]
         /\ timeout'[w] => expired[w]
         /\ kind = "latency" /\ timeout'[w] => timeout[w] \/ call[w][s] = "ok"
         /\ \A v \in Workers : v # w => timeout'[v] = timeout[v]
<1>1. timeCnt' \in [Workers -> 0..(Period - 1)]
  BY WindowType DEF ClientTypes, LookAtClock
<1>2. /\ timeout' \in [Workers -> BOOLEAN]
      /\ \A v \in Workers : v # w => timeout'[v] = timeout[v]
  BY DEF ClientTypes, LookAtClock
<1>3. \/ timeout'[w] = timeout[w]
      \/ timeout'[w] = expired[w] /\ (kind = "latency" => call[w][s] = "ok")
  BY DEF ClientTypes, LookAtClock
<1>4. timeout[w] => expired[w]
  BY DEF ClientInv
<1> QED BY <1>1, <1>2, <1>3, <1>4

(* One completion.                                                         *)
LEMMA HandleInv ==
  ASSUME IInv, NEW w \in Workers, NEW s \in Completed(w), Handle(w, s),
         wpc[w] = "loop", reqCnt[w] > 0,
         UNCHANGED <<kind, wpc, expired, up, objectVars, cq>>
  PROVE  IInv'
<1>1. /\ ClientTypes /\ CallTypes /\ \A v \in Workers : ClientInv(v)
      /\ ServerInv /\ ServedOnce /\ Window' = Window
  BY DEF IInv, ClientsInv, Window
<1>2. s \in Slots /\ call[w][s] \in {"ok", "failed"}
  BY DEF Completed
<1>3. /\ timeCnt' \in [Workers -> 0..(Period - 1)]
      /\ timeout' \in [Workers -> BOOLEAN]
      /\ timeout[w] => timeout'[w]
      /\ timeout'[w] => expired[w]
      /\ kind = "latency" /\ timeout'[w] => timeout[w] \/ call[w][s] = "ok"
      /\ \A v \in Workers : v # w => timeout'[v] = timeout[v]
  BY <1>1, <1>2, LookKeeps DEF Handle
<1>4. /\ measured' \in [Workers -> BOOLEAN]
      /\ measured'[w] <=> measured[w] \/ call[w][s] = "ok"
      /\ \A v \in Workers : v # w => measured'[v] = measured[v]
  BY <1>1 DEF Handle, ClientTypes
<1>5. kind = "latency" /\ timeout'[w] => measured'[w]
  BY <1>1, <1>3, <1>4 DEF ClientInv
<1>6. s \in Outstanding(w)
  BY <1>2 DEF Outstanding
<1>7. ASSUME NEW n \in 0..Window,
             reqCnt' = [reqCnt EXCEPT ![w] = n], CallTypes',
             \A v \in Workers : v # w => call'[v] = call[v],
             \A x \in Slots : call'[w][x] = "bound" <=> call[w][x] = "bound",
             Cardinality(Outstanding(w)') = n,
             n = reqCnt[w] \/ timeout'[w]
      PROVE  IInv'
  <2>1. /\ reqCnt' \in [Workers -> 0..Window] /\ reqCnt'[w] = n
        /\ \A v \in Workers : v # w => reqCnt'[v] = reqCnt[v]
    BY <1>1, <1>7 DEF ClientTypes
  <2>2. ClientTypes'
    BY <1>1, <1>3, <1>4, <2>1 DEF ClientTypes
  <2>3. ASSUME NEW v \in Workers PROVE ClientInv(v)'
    <3>1. CASE v = w
      BY <1>1, <1>3, <1>5, <1>7, <2>1, <3>1 DEF ClientInv
    <3>2. CASE v # w
      <4>1. Outstanding(v)' = Outstanding(v)
        BY <1>7, <3>2 DEF Outstanding
      <4> QED BY <1>1, <1>3, <1>4, <2>1, <3>2, <4>1 DEF ClientInv
    <3> QED BY <3>1, <3>2
  <2>4. ServerInv' /\ ServedOnce'
    <3>1. \A v \in Workers, x \in Slots : call'[v][x] = "bound" <=> call[v][x] = "bound"
      BY <1>7
    <3> QED BY <1>1, <3>1, BoundStay
  <2> QED BY <1>7, <2>2, <2>3, <2>4 DEF IInv, ClientsInv
<1>8. reqCnt[w] \in 0..Window /\ Cardinality(Outstanding(w)) = reqCnt[w]
  BY <1>1 DEF ClientTypes, ClientInv
<1>9. /\ IsFiniteSet(Outstanding(w)) /\ IsFiniteSet(Outstanding(w) \ {s})
      /\ Cardinality(Outstanding(w) \ {s}) = reqCnt[w] - 1
  <2>1. IsFiniteSet(Outstanding(w))
    BY OutstandingFinite DEF Outstanding
  <2> QED BY <1>6, <1>8, <2>1, OneLess
<1>10. CASE timeout'[w]
  <2>1. /\ call' = [call EXCEPT ![w] = [call[w] EXCEPT ![s] = "free"]]
        /\ reqCnt' = [reqCnt EXCEPT ![w] = reqCnt[w] - 1]
    BY <1>10 DEF Handle
  <2>2. /\ CallTypes' /\ call'[w][s] = "free"
        /\ \A x \in Slots : x # s => call'[w][x] = call[w][x]
        /\ \A v \in Workers : v # w => call'[v] = call[v]
    BY <1>1, <1>2, <2>1 DEF CallTypes
  <2>3. Outstanding(w)' = Outstanding(w) \ {s}
    BY <2>2 DEF Outstanding
  <2>4. reqCnt[w] - 1 \in 0..Window
    BY <1>8, WindowType
  <2> QED BY <1>2, <1>7, <1>9, <1>10, <2>1, <2>2, <2>3, <2>4
<1>11. CASE ~timeout'[w]
  <2> DEFINE kept == [call[w] EXCEPT ![s] = "free"]
  <2>1. /\ \E cs \in NewCall(kept) : call' = [call EXCEPT ![w] = cs]
        /\ reqCnt' = reqCnt
    BY <1>11 DEF Handle
  <2>2. /\ kept \in [Slots -> {"free", "sent", "bound", "ok", "failed"}] /\ kept[s] = "free"
        /\ \A x \in Slots : x # s => kept[x] = call[w][x]
    BY <1>1, <1>2 DEF CallTypes
  <2> HIDE DEF kept
  <2>3. PICK r \in Slots : kept[r] = "free" /\ call' = [call EXCEPT ![w] = [kept EXCEPT ![r] = "sent"]]
    BY <2>1 DEF NewCall
  <2>4. /\ CallTypes' /\ call'[w][r] = "sent"
        /\ \A x \in Slots : x # r => call'[w][x] = kept[x]
        /\ \A v \in Workers : v # w => call'[v] = call[v]
    BY <1>1, <2>2, <2>3 DEF CallTypes
  <2>5. /\ Outstanding(w)' = (Outstanding(w) \ {s}) \cup {r}
        /\ r \notin Outstanding(w) \ {s}
    BY <1>2, <2>2, <2>3, <2>4 DEF Outstanding
  <2>6. reqCnt[w] \in Int
    BY <1>8, WindowType
  <2>7. Cardinality(Outstanding(w)') = reqCnt[w]
    BY <1>9, <2>5, <2>6, OneMore
  <2>8. reqCnt' = [reqCnt EXCEPT ![w] = reqCnt[w]]
    BY <1>1, <2>1 DEF ClientTypes
  <2>9. \A x \in Slots : call'[w][x] = "bound" <=> call[w][x] = "bound"
    BY <1>2, <2>2, <2>3, <2>4
  <2> QED BY <1>7, <1>8, <2>4, <2>7, <2>8, <2>9
<1> QED BY <1>10, <1>11

LEMMA CqNextInv == ASSUME IInv, NEW w \in Workers, CqNext(w) PROVE IInv'
<1>1. CASE reqCnt[w] > 0
  BY <1>1, HandleInv DEF CqNext
<1>2. CASE ~(reqCnt[w] > 0)
  <2>1. /\ ClientTypes /\ CallTypes /\ \A v \in Workers : ClientInv(v)
        /\ ServerInv /\ ServedOnce
    BY DEF IInv, ClientsInv
  <2>2. /\ wpc[w] = "loop" /\ wpc' = [wpc EXCEPT ![w] = AfterLoop(w)]
        /\ UNCHANGED <<kind, reqCnt, timeCnt, timeout, expired, measured>>
        /\ UNCHANGED call /\ UNCHANGED <<up, objectVars, cq>> /\ Window' = Window
    BY <1>2 DEF CqNext, Window
  <2>3. reqCnt[w] = 0
    BY <1>2, <2>1, WindowType DEF ClientTypes
  <2>4. AfterLoop(w) = "done"
    BY <2>1, <2>2, <2>3 DEF ClientInv, AfterLoop, Window
  <2>5. ClientTypes' /\ CallTypes'
    BY <2>1, <2>2, <2>4 DEF ClientTypes, CallTypes
  <2>6. ASSUME NEW v \in Workers PROVE ClientInv(v)'
    <3>1. Outstanding(v)' = Outstanding(v)
      BY <2>2 DEF Outstanding
    <3>2. wpc'[v] = IF v = w THEN "done" ELSE wpc[v]
      BY <2>1, <2>2, <2>4 DEF ClientTypes
    <3> QED BY <2>1, <2>2, <2>3, <3>1, <3>2 DEF ClientInv
  <2>7. ServerInv' /\ ServedOnce'
    BY <2>1, <2>2, BoundStay
  <2> QED BY <2>5, <2>6, <2>7 DEF IInv, ClientsInv
<1> QED BY <1>1, <1>2

LEMMA ExpireInv == ASSUME IInv, NEW w \in Workers, Expire(w) PROVE IInv'
<1>1. /\ ClientTypes /\ CallTypes /\ \A v \in Workers : ClientInv(v)
      /\ ServerInv /\ ServedOnce
  BY DEF IInv, ClientsInv
<1>2. /\ expired' = [expired EXCEPT ![w] = TRUE]
      /\ UNCHANGED <<kind, wpc, reqCnt, timeCnt, timeout, measured>>
      /\ UNCHANGED call /\ UNCHANGED <<up, objectVars, cq>> /\ Window' = Window
  BY DEF Expire, Window
<1>3. ClientTypes' /\ CallTypes'
  BY <1>1, <1>2 DEF ClientTypes, CallTypes
<1>4. ASSUME NEW v \in Workers PROVE ClientInv(v)'
  <2>1. Outstanding(v)' = Outstanding(v)
    BY <1>2 DEF Outstanding
  <2>2. expired[v] => expired'[v]
    BY <1>1, <1>2 DEF ClientTypes
  <2> QED BY <1>1, <1>2, <2>1, <2>2 DEF ClientInv
<1>5. ServerInv' /\ ServedOnce'
  BY <1>1, <1>2, BoundStay
<1> QED BY <1>3, <1>4, <1>5 DEF IInv, ClientsInv

-----------------------------------------------------------------------------
(* One iteration of a server thread.                                       *)
LEMMA ProceedInv ==
  ASSUME IInv, NEW t \in Threads, NEW o \in Addresses, Proceed(t, o)
  PROVE  IInv'
<1>1. ServerTypes /\ (\A p \in Addresses : ObjectInv(p)) /\ ListenInv /\ ServedOnce
  BY DEF IInv, ServerInv
<1>2. /\ UNCHANGED clientVars /\ UNCHANGED call /\ UNCHANGED up
      /\ o \in cq[t] /\ cq' = [cq EXCEPT ![t] = @ \ {o}]
  BY DEF Proceed
<1>3. ClientsInv'
  BY <1>2, CallsStay DEF IInv, ClientsInv, CallTypes
<1>4. /\ status[o] # "FREE" /\ op[o] = "none" /\ thread[o] = t
      /\ \A u \in Threads : o \in cq[u] <=> u = t
  BY <1>1, <1>2 DEF ObjectInv
<1>5. /\ cq' \in [Threads -> SUBSET Addresses]
      /\ \A u \in Threads : o \notin cq'[u]
      /\ \A u \in Threads, p \in Addresses : p # o => (p \in cq'[u] <=> p \in cq[u])
  BY <1>1, <1>2, <1>4 DEF ServerTypes
<1>6. CASE status[o] = "PROCESS"
  <2>1. PICK a \in Addresses : status[a] = "FREE" /\ FinishAndRenew(t, o, a)
    BY <1>6 DEF Proceed
  <2>2. a # o /\ thread[a] = None /\ serves[a] = None /\ op[a] = "none"
        /\ \A u \in Threads : a \notin cq[u]
    BY <1>1, <1>6, <2>1 DEF ObjectInv
  <2>3. ServerTypes'
    BY <1>1, <1>2, <1>5, <2>1 DEF ServerTypes, FinishAndRenew
  <2>4. /\ status'[a] = "PROCESS" /\ op'[a] = "request" /\ thread'[a] = t /\ serves'[a] = None
        /\ status'[o] = "FINISH" /\ op'[o] = "finish" /\ thread'[o] = t /\ serves'[o] = serves[o]
        /\ \A p \in Addresses : p # a /\ p # o =>
             /\ status'[p] = status[p] /\ op'[p] = op[p]
             /\ thread'[p] = thread[p] /\ serves'[p] = serves[p]
    BY <1>1, <1>4, <2>1, <2>2 DEF ServerTypes, FinishAndRenew
  <2>5. ASSUME NEW p \in Addresses PROVE ObjectInv(p)'
    <3>1. CASE p = a
      BY <1>5, <2>2, <2>4, <3>1, NotNone DEF ObjectInv
    <3>2. CASE p = o
      BY <1>5, <2>4, <3>2, NotNone DEF ObjectInv
    <3>3. CASE p # a /\ p # o
      BY <1>1, <1>5, <2>4, <3>3 DEF ObjectInv
    <3> QED BY <3>1, <3>2, <3>3
  <2>6. ListenInv'
    <3> SUFFICES ASSUME NEW u \in Threads PROVE \E p \in Addresses : Listeners(u)' = {p}
      BY DEF ListenInv
    <3>1. PICK p \in Addresses : Listeners(u) = {p}
      BY <1>1 DEF ListenInv
    <3>2. CASE u = t
      <4>1. p = o
        BY <1>4, <1>6, <3>1, <3>2 DEF Listeners
      <4>2. Listeners(u)' = {a}
        BY <2>2, <2>4, <3>1, <3>2, <4>1 DEF Listeners
      <4> QED BY <4>2
    <3>3. CASE u # t
      <4>1. Listeners(u)' = Listeners(u)
        BY <1>4, <2>2, <2>4, <3>3, NotNone DEF Listeners
      <4> QED BY <3>1, <4>1
    <3> QED BY <3>2, <3>3
  <2>7. serves' = serves
    BY <1>1, <2>1, <2>2 DEF ServerTypes, FinishAndRenew
  <2>8. ServedOnce'
    BY <1>1, <1>2, <2>7 DEF ServedOnce
  <2> QED BY <1>3, <2>3, <2>5, <2>6, <2>8 DEF IInv, ServerInv
<1>7. CASE status[o] = "FINISH"
  <2>1. DeleteThis(o)
    BY <1>7 DEF Proceed
  <2>2. ServerTypes'
    BY <1>1, <1>2, <1>5, <2>1 DEF ServerTypes, DeleteThis
  <2>3. /\ status'[o] = "FREE" /\ thread'[o] = None /\ op' = op /\ serves' = serves
        /\ \A p \in Addresses : p # o => status'[p] = status[p] /\ thread'[p] = thread[p]
    BY <1>1, <2>1 DEF ServerTypes, DeleteThis
  <2>4. ASSUME NEW p \in Addresses PROVE ObjectInv(p)'
    <3>1. CASE p = o
      BY <1>1, <1>4, <1>5, <1>7, <2>3, <3>1 DEF ObjectInv
    <3>2. CASE p # o
      BY <1>1, <1>5, <2>3, <3>2 DEF ObjectInv
    <3> QED BY <3>1, <3>2
  <2>5. \A u \in Threads : Listeners(u)' = Listeners(u)
    BY <1>7, <2>3 DEF Listeners
  <2>6. ListenInv'
    BY <1>1, <2>5 DEF ListenInv
  <2>7. ServedOnce'
    BY <1>1, <1>2, <2>3 DEF ServedOnce
  <2> QED BY <1>3, <2>2, <2>4, <2>6, <2>7 DEF IInv, ServerInv
<1> QED BY <1>6, <1>7 DEF Proceed

LEMMA MatchInv ==
  ASSUME IInv, NEW w \in Workers, NEW s \in Slots, NEW o \in Addresses, Match(w, s, o)
  PROVE  IInv'
<1>1. ServerTypes /\ (\A p \in Addresses : ObjectInv(p)) /\ ListenInv /\ ServedOnce /\ CallTypes
  BY DEF IInv, ServerInv, ClientsInv
<1>2. /\ UNCHANGED clientVars /\ UNCHANGED <<up, status, thread>>
      /\ call[w][s] = "sent" /\ op[o] = "request"
      /\ call' = [call EXCEPT ![w][s] = "bound"]
      /\ op' = [op EXCEPT ![o] = "none"]
      /\ serves' = [serves EXCEPT ![o] = <<w, s>>]
      /\ cq' = [cq EXCEPT ![thread[o]] = @ \cup {o}]
  BY DEF Match
<1>3. /\ CallTypes' /\ call'[w][s] = "bound"
      /\ \A v \in Workers, x \in Slots : v # w \/ x # s => call'[v][x] = call[v][x]
  BY <1>1, <1>2 DEF CallTypes
<1>4. ClientsInv'
  BY <1>2, <1>3, CallsStay DEF IInv
<1>5. status[o] = "PROCESS" /\ thread[o] \in Threads /\ serves[o] = None
      /\ \A u \in Threads : o \notin cq[u]
  BY <1>1, <1>2 DEF ObjectInv, ServerTypes
<1>6. ServerTypes'
  BY <1>1, <1>2, <1>5 DEF ServerTypes
<1>7. /\ op'[o] = "none" /\ serves'[o] = <<w, s>>
      /\ \A u \in Threads : o \in cq'[u] <=> u = thread[o]
      /\ \A p \in Addresses : p # o =>
           /\ op'[p] = op[p] /\ serves'[p] = serves[p]
           /\ \A u \in Threads : p \in cq'[u] <=> p \in cq[u]
  BY <1>1, <1>2, <1>5 DEF ServerTypes
<1>8. ASSUME NEW p \in Addresses PROVE ObjectInv(p)'
  <2>1. CASE p = o
    BY <1>1, <1>2, <1>5, <1>7, <2>1 DEF ObjectInv
  <2>2. CASE p # o
    BY <1>1, <1>2, <1>7, <2>2 DEF ObjectInv
  <2> QED BY <2>1, <2>2
<1>9. ListenInv'
  BY <1>1, <1>2 DEF ListenInv, Listeners
<1>10. \A p \in Addresses : serves[p] # <<w, s>>
  BY <1>1, <1>2 DEF ServedOnce
<1>11. ServedOnce'
  <2>1. ASSUME NEW p \in Addresses, NEW q \in Addresses,
               serves'[p] = serves'[q], serves'[p] # None
        PROVE  p = q
    BY <1>1, <1>7, <1>10, <2>1 DEF ServedOnce
  <2>2. ASSUME NEW v \in Workers, NEW x \in Slots
        PROVE  call'[v][x] = "bound" <=> \E p \in Addresses : serves'[p] = <<v, x>>
    <3>1. CASE v = w /\ x = s
      BY <1>3, <1>7, <3>1
    <3>2. CASE v # w \/ x # s
      <4>1. \A p \in Addresses : serves'[p] = <<v, x>> <=> serves[p] = <<v, x>>
        <5>1. <<v, x>> # <<w, s>> /\ <<v, x>> # None
          BY <3>2, PairsDiffer, NotNone
        <5> QED BY <1>5, <1>7, <5>1
      <4>2. call'[v][x] = call[v][x]
        BY <1>3, <3>2
      <4> QED BY <1>1, <4>1, <4>2 DEF ServedOnce
    <3> QED BY <3>1, <3>2
  <2> QED BY <2>1, <2>2 DEF ServedOnce
<1> QED BY <1>4, <1>6, <1>8, <1>9, <1>11 DEF IInv, ServerInv

LEMMA RespondInv == ASSUME IInv, NEW o \in Addresses, Respond(o) PROVE IInv'
<1>1. ServerTypes /\ (\A p \in Addresses : ObjectInv(p)) /\ ListenInv /\ ServedOnce /\ CallTypes
  BY DEF IInv, ServerInv, ClientsInv
<1>2. /\ UNCHANGED clientVars /\ UNCHANGED <<up, status, thread>>
      /\ op[o] = "finish"
      /\ op' = [op EXCEPT ![o] = "none"]
      /\ serves' = [serves EXCEPT ![o] = None]
      /\ cq' = [cq EXCEPT ![thread[o]] = @ \cup {o}]
  BY DEF Respond
<1>3. status[o] = "FINISH" /\ thread[o] \in Threads /\ \A u \in Threads : o \notin cq[u]
  BY <1>1, <1>2 DEF ObjectInv, ServerTypes
<1>4. ServerTypes'
  BY <1>1, <1>2, <1>3 DEF ServerTypes
<1>5. /\ op'[o] = "none" /\ serves'[o] = None
      /\ \A u \in Threads : o \in cq'[u] <=> u = thread[o]
      /\ \A p \in Addresses : p # o =>
           /\ op'[p] = op[p] /\ serves'[p] = serves[p]
           /\ \A u \in Threads : p \in cq'[u] <=> p \in cq[u]
  BY <1>1, <1>2, <1>3 DEF ServerTypes
<1>6. ASSUME NEW p \in Addresses PROVE ObjectInv(p)'
  <2>1. CASE p = o
    BY <1>1, <1>2, <1>3, <1>5, <2>1 DEF ObjectInv
  <2>2. CASE p # o
    BY <1>1, <1>2, <1>5, <2>2 DEF ObjectInv
  <2> QED BY <2>1, <2>2
<1>7. ListenInv'
  BY <1>1, <1>2 DEF ListenInv, Listeners
<1>8. \A p, q \in Addresses : serves'[p] = serves'[q] /\ serves'[p] # None => p = q
  BY <1>1, <1>5 DEF ServedOnce
<1>9. CASE serves[o] = None
  <2>1. call' = call /\ serves' = serves
    BY <1>1, <1>2, <1>9 DEF Respond, ServerTypes
  <2>2. ClientsInv'
    BY <1>1, <1>2, <2>1, CallsStay DEF IInv, CallTypes
  <2>3. ServedOnce'
    BY <1>1, <2>1 DEF ServedOnce
  <2> QED BY <1>4, <1>6, <1>7, <2>2, <2>3 DEF IInv, ServerInv
<1>10. CASE serves[o] # None
  <2>1. PICK w \in Workers, s \in Slots : serves[o] = <<w, s>>
    BY <1>1, <1>10 DEF ServerTypes
  <2>2. call' = [call EXCEPT ![w][s] = "ok"]
    BY <1>10, <2>1 DEF Respond
  <2>3. call[w][s] = "bound"
    BY <1>1, <2>1 DEF ServedOnce
  <2>4. /\ CallTypes' /\ call'[w][s] = "ok"
        /\ \A v \in Workers, x \in Slots : v # w \/ x # s => call'[v][x] = call[v][x]
    BY <1>1, <2>2 DEF CallTypes
  <2>5. ClientsInv'
    BY <1>2, <2>3, <2>4, CallsStay DEF IInv
  <2>6. ASSUME NEW v \in Workers, NEW x \in Slots
        PROVE  call'[v][x] = "bound" <=> \E p \in Addresses : serves'[p] = <<v, x>>
    <3>1. CASE v = w /\ x = s
      <4>1. \A p \in Addresses : serves'[p] # <<w, s>>
        <5>1. \A p \in Addresses : p # o => serves[p] # <<w, s>>
          BY <1>1, <1>10, <2>1 DEF ServedOnce
        <5>2. serves'[o] # <<w, s>>
          BY <1>5, NotNone
        <5> QED BY <1>5, <5>1, <5>2
      <4> QED BY <2>4, <3>1, <4>1
    <3>2. CASE v # w \/ x # s
      <4>1. \A p \in Addresses : serves'[p] = <<v, x>> <=> serves[p] = <<v, x>>
        <5>1. <<v, x>> # <<w, s>> /\ <<v, x>> # None
          BY <3>2, PairsDiffer, NotNone
        <5> QED BY <1>5, <2>1, <5>1
      <4>2. call'[v][x] = call[v][x]
        BY <2>4, <3>2
      <4> QED BY <1>1, <4>1, <4>2 DEF ServedOnce
    <3> QED BY <3>1, <3>2
  <2>7. ServedOnce'
    BY <1>8, <2>6 DEF ServedOnce
  <2> QED BY <1>4, <1>6, <1>7, <2>5, <2>7 DEF IInv, ServerInv
<1> QED BY <1>9, <1>10

LEMMA FailInv == ASSUME IInv, NEW w \in Workers, NEW s \in Slots, Fail(w, s) PROVE IInv'
<1>1. ServerTypes /\ (\A p \in Addresses : ObjectInv(p)) /\ ListenInv /\ ServedOnce /\ CallTypes
  BY DEF IInv, ServerInv, ClientsInv
<1>2. /\ UNCHANGED clientVars /\ UNCHANGED <<up, status, thread, op, cq>>
      /\ call[w][s] \in {"sent", "bound"}
      /\ call' = [call EXCEPT ![w][s] = "failed"]
      /\ serves' = [o \in Addresses |-> IF serves[o] = <<w, s>> THEN None ELSE serves[o]]
  BY DEF Fail
<1>3. /\ CallTypes' /\ call'[w][s] = "failed"
      /\ \A v \in Workers, x \in Slots : v # w \/ x # s => call'[v][x] = call[v][x]
  BY <1>1, <1>2 DEF CallTypes
<1>4. ClientsInv'
  BY <1>2, <1>3, CallsStay DEF IInv
<1>5. ServerTypes'
  BY <1>1, <1>2 DEF ServerTypes
<1>6. \A p \in Addresses : serves'[p] = IF serves[p] = <<w, s>> THEN None ELSE serves[p]
  BY <1>2
<1>7. \A p \in Addresses : ObjectInv(p)'
  BY <1>1, <1>2, <1>6 DEF ObjectInv
<1>8. ListenInv'
  BY <1>1, <1>2 DEF ListenInv, Listeners
<1>9. ServedOnce'
  <2>1. \A p, q \in Addresses : serves'[p] = serves'[q] /\ serves'[p] # None => p = q
    BY <1>1, <1>6 DEF ServedOnce
  <2>2. ASSUME NEW v \in Workers, NEW x \in Slots
        PROVE  call'[v][x] = "bound" <=> \E p \in Addresses : serves'[p] = <<v, x>>
    <3>1. CASE v = w /\ x = s
      BY <1>3, <1>6, <3>1, NotNone
    <3>2. CASE v # w \/ x # s
      <4>1. \A p \in Addresses : serves'[p] = <<v, x>> <=> serves[p] = <<v, x>>
        <5>1. <<v, x>> # <<w, s>> /\ <<v, x>> # None
          BY <3>2, PairsDiffer, NotNone
        <5> QED BY <1>6, <5>1
      <4>2. call'[v][x] = call[v][x]
        BY <1>3, <3>2
      <4> QED BY <1>1, <4>1, <4>2 DEF ServedOnce
    <3> QED BY <3>1, <3>2
  <2> QED BY <2>1, <2>2 DEF ServedOnce
<1> QED BY <1>4, <1>5, <1>7, <1>8, <1>9 DEF IInv, ServerInv

LEMMA CrashInv == IInv /\ Crash => IInv'
<1> SUFFICES ASSUME IInv, Crash PROVE IInv'
  OBVIOUS
<1>1. UNCHANGED clientVars /\ UNCHANGED <<call, objectVars, cq>> /\ up' = FALSE
  BY DEF Crash
<1>2. ClientsInv'
  BY <1>1, CallsStay DEF IInv, ClientsInv, CallTypes
<1>3. ServerTypes'
  BY <1>1 DEF IInv, ServerInv, ServerTypes, objectVars
<1>4. ListenInv' /\ \A o \in Addresses : ObjectInv(o)'
  BY <1>1 DEF IInv, ServerInv, ObjectInv, ListenInv, Listeners, objectVars
<1>5. ServedOnce'
  BY <1>1 DEF IInv, ServedOnce, objectVars
<1> QED BY <1>2, <1>3, <1>4, <1>5 DEF IInv, ServerInv

(* The inductive invariant of clients, calls and server objects.           *)
THEOREM Invariance == Spec => []IInv
<1>1. IInv /\ UNCHANGED vars => IInv'
  <2> SUFFICES ASSUME IInv, UNCHANGED vars PROVE IInv'
    OBVIOUS
  <2>1. UNCHANGED clientVars /\ UNCHANGED call /\ UNCHANGED <<up, objectVars, cq>>
    BY DEF vars
  <2>2. ClientsInv'
    BY <2>1, CallsStay DEF IInv, ClientsInv, CallTypes
  <2>3. ServerInv' /\ ServedOnce'
    BY <2>1, BoundStay DEF IInv
  <2> QED BY <2>2, <2>3 DEF IInv
<1>2. IInv /\ [Next]_vars => IInv'
  BY <1>1, FillInv, CqNextInv, ExpireInv, ProceedInv, MatchInv, RespondInv, FailInv, CrashInv
     DEF Next, Worker, Job
<1> QED BY <1>2, InitInv, PTL DEF Spec

-----------------------------------------------------------------------------
(* delete this is safe: a tag in a completion queue is a live object of    *)
(* that thread with nothing else under way, each thread has one object     *)
(* that listens, and a call has one server object.                         *)
THEOREM ServerObjectsAgree == Spec => []ServerObjects
<1>1. ASSUME IInv PROVE TypeOK
  BY <1>1 DEF IInv, ClientsInv, ServerInv, ClientTypes, CallTypes, ServerTypes, TypeOK
<1>2. ASSUME IInv PROVE TagsAlive /\ ServedOnce
  BY <1>2 DEF IInv, ServerInv, ObjectInv, TagsAlive
<1>3. ASSUME IInv PROVE AlwaysListening
  BY <1>3, FS_Singleton DEF IInv, ServerInv, ListenInv, Listeners, AlwaysListening
<1>4. IInv => ServerObjects
  BY <1>1, <1>2, <1>3 DEF ServerObjects
<1> QED BY <1>4, Invariance, PTL

(* req_cnt counts the calls under way, so a client thread ends with none,  *)
(* and a latency client ends with a latency to print.                      *)
THEOREM ClientsLeaveClean == Spec => []LeavesClean
<1>1. ASSUME IInv PROVE DrainedAtExit
  <2> SUFFICES ASSUME NEW w \in Workers
               PROVE  /\ Cardinality(Outstanding(w)) = reqCnt[w]
                      /\ wpc[w] = "done" => Outstanding(w) = {} /\ (Window > 0 => timeout[w])
    BY DEF DrainedAtExit
  <2>1. ClientInv(w)
    BY <1>1 DEF IInv, ClientsInv
  <2>2. IsFiniteSet(Outstanding(w))
    BY OutstandingFinite DEF Outstanding
  <2>3. wpc[w] = "done" => Outstanding(w) = {}
    BY <2>1, <2>2, FS_EmptySet DEF ClientInv
  <2>4. wpc[w] = "done" => (Window > 0 => timeout[w])
    BY <2>1, WindowType DEF ClientInv
  <2> QED BY <2>1, <2>3, <2>4 DEF ClientInv
<1>2. ASSUME IInv PROVE PrintsSamples
  BY <1>2 DEF IInv, ClientsInv, ClientInv, PrintsSamples
<1>3. IInv => LeavesClean
  BY <1>1, <1>2 DEF LeavesClean
<1> QED BY <1>3, Invariance, PTL

=============================================================================
