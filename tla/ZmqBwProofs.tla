---------------------------- MODULE ZmqBwProofs -----------------------------
(***************************************************************************)
(* Proofs about ZmqBw for any number of clients and any sizes.  A request  *)
(* of a client is in at most one place: its own I/O thread, the server's   *)
(* inbox, the hands of RunZero or, as a reply, on its way back; and it is  *)
(* in none of them unless the client waits in zmq_recv or has aborted.     *)
(* From this follows what the meter counts, as sums over the clients.      *)
(***************************************************************************)
EXTENDS ZmqBw, FiniteSetTheorems, WellFoundedInduction, TLAPS

-----------------------------------------------------------------------------
(* A set of natural numbers that is not empty has a least element.         *)
LEMMA LeastElement ==
  ASSUME NEW S \in SUBSET Nat, S # {}
  PROVE  \E x \in S : \A y \in S : x <= y
<1> DEFINE R == OpToRel(<, Nat)
<1>1. IsWellFoundedOn(R, Nat)
  BY NatLessThanWellFounded
<1>2. \A x, y \in Nat : y < x <=> <<y, x>> \in R
  BY DEF OpToRel
<1> HIDE DEF R
<1>3. PICK x \in S : \A y \in S : ~(<<y, x>> \in R)
  BY <1>1, WFMin
<1>4. \A y \in S : ~(y < x)
  BY <1>2, <1>3
<1> QED BY <1>4

(* The client a sum over s takes next.                                     *)
Pick(s) == CHOOSE x \in s : TRUE

(* g is the recursion that sums f up, over every set of clients.           *)
Sums(f, g) ==
  g = [s \in SUBSET Clients |-> IF s = {} THEN 0 ELSE f[Pick(s)] + g[s \ {Pick(s)}]]

LEMMA PickFacts ==
  ASSUME NEW s \in SUBSET Clients, s # {}
  PROVE  /\ Pick(s) \in s /\ s \ {Pick(s)} \in SUBSET Clients
         /\ Cardinality(s) \in Nat /\ Cardinality(s \ {Pick(s)}) = Cardinality(s) - 1
<1>1. Pick(s) \in s
  BY DEF Pick
<1>2. IsFiniteSet(s)
  BY SizeAssumption, FS_Subset
<1> QED BY <1>1, <1>2, FS_RemoveElement, FS_CardinalityType

(* Induction over the sets of clients, along the recursion of the sum.     *)
LEMMA SetInduction ==
  ASSUME NEW T, {} \in T,
         \A s \in SUBSET Clients : s # {} /\ s \ {Pick(s)} \in T => s \in T
  PROVE  \A s \in SUBSET Clients : s \in T
<1> SUFFICES ASSUME NEW s0 \in SUBSET Clients, s0 \notin T PROVE FALSE
  OBVIOUS
<1> DEFINE Bad == {n \in Nat : \E s \in SUBSET Clients : s \notin T /\ Cardinality(s) = n}
<1>1. \A s \in SUBSET Clients : Cardinality(s) \in Nat
  BY SizeAssumption, FS_Subset, FS_CardinalityType
<1>2. Cardinality(s0) \in Bad
  BY <1>1
<1>3. PICK n \in Bad : \A m \in Bad : n <= m
  <2>1. Bad \in SUBSET Nat /\ Bad # {}
    BY <1>2
  <2> HIDE DEF Bad
  <2> QED BY <2>1, LeastElement
<1>4. PICK s \in SUBSET Clients : s \notin T /\ Cardinality(s) = n
  BY <1>3
<1>5. s # {}
  BY <1>4
<1>6. /\ s \ {Pick(s)} \in SUBSET Clients /\ n \in Nat
      /\ Cardinality(s \ {Pick(s)}) = n - 1 /\ Cardinality(s \ {Pick(s)}) \in Nat
  BY <1>1, <1>4, <1>5, PickFacts
<1>7. s \ {Pick(s)} \notin T
  BY <1>4, <1>5
<1>8. Cardinality(s \ {Pick(s)}) \in Bad
  BY <1>6, <1>7
<1> HIDE DEF Bad
<1> QED BY <1>3, <1>6, <1>8

(* The recursion has a solution.                                           *)
LEMMA SumsExist ==
  ASSUME NEW f
  PROVE  \E g : Sums(f, g)
<1> DEFINE Step(g, s) == IF s = {} THEN 0 ELSE f[Pick(s)] + g[s \ {Pick(s)}]
           Upto(g, n) == \A s \in SUBSET Clients : Cardinality(s) <= n => g[s] = Step(g, s)
           Bad == {n \in Nat : ~\E g : Upto(g, n)}
<1>1. \A s \in SUBSET Clients : Cardinality(s) \in Nat
  BY SizeAssumption, FS_Subset, FS_CardinalityType
<1>2. 0 \notin Bad
  <2> DEFINE z == [s \in SUBSET Clients |-> 0]
  <2>1. ASSUME NEW s \in SUBSET Clients, Cardinality(s) <= 0 PROVE s = {}
    <3>1. Cardinality(s) = 0 /\ IsFiniteSet(s)
      BY <1>1, <2>1, SizeAssumption, FS_Subset
    <3> QED BY <3>1, FS_EmptySet
  <2>2. Upto(z, 0)
    BY <2>1
  <2> QED BY <2>2
<1>3. ASSUME NEW n \in Nat, n # 0, NEW g, Upto(g, n - 1)
      PROVE  n \notin Bad
  <2> DEFINE h == [s \in SUBSET Clients |-> IF Cardinality(s) <= n - 1 THEN g[s] ELSE Step(g, s)]
  <2>1. ASSUME NEW s \in SUBSET Clients, Cardinality(s) <= n PROVE h[s] = Step(h, s)
    <3>1. h[s] = Step(g, s)
      BY <1>3
    <3>2. CASE s = {}
      BY <3>1, <3>2
    <3>3. CASE s # {}
      <4>1. /\ s \ {Pick(s)} \in SUBSET Clients
            /\ Cardinality(s \ {Pick(s)}) <= n - 1
        BY <1>1, <2>1, <3>3, PickFacts
      <4>2. h[s \ {Pick(s)}] = g[s \ {Pick(s)}]
        BY <4>1
      <4> QED BY <3>1, <3>3, <4>2
    <3> QED BY <3>2, <3>3
  <2>2. Upto(h, n)
    BY <2>1
  <2> HIDE DEF h, Upto
  <2> QED BY <2>2
<1>4. Bad = {}
  <2> SUFFICES ASSUME Bad # {} PROVE FALSE
    OBVIOUS
  <2>1. PICK n \in Bad : \A m \in Bad : n <= m
    <3>1. Bad \in SUBSET Nat
      OBVIOUS
    <3> HIDE DEF Bad
    <3> QED BY <3>1, LeastElement
  <2>2. n \in Nat /\ n # 0
    BY <1>2, <2>1
  <2>3. n - 1 \in Nat /\ n - 1 \notin Bad
    <3> HIDE DEF Bad
    <3> QED BY <2>1, <2>2
  <2>4. \E g : Upto(g, n - 1)
    <3> HIDE DEF Upto
    <3> QED BY <2>3
  <2>5. n \notin Bad
    <3> HIDE DEF Upto, Bad
    <3> QED BY <1>3, <2>2, <2>4
  <2> QED BY <2>1, <2>5
<1>5. Cardinality(Clients) \in Nat
  BY <1>1
<1>6. PICK g : Upto(g, Cardinality(Clients))
  <2> HIDE DEF Upto
  <2> QED BY <1>4, <1>5
<1>7. ASSUME NEW s \in SUBSET Clients PROVE g[s] = Step(g, s)
  <2>1. Cardinality(s) <= Cardinality(Clients)
    BY SizeAssumption, FS_Subset
  <2> QED BY <1>6, <2>1
<1> DEFINE h == [s \in SUBSET Clients |-> Step(g, s)]
<1>8. \A s \in SUBSET Clients : s # {} => s \ {Pick(s)} \in SUBSET Clients
  OBVIOUS
<1>9. \A s \in SUBSET Clients : h[s] = g[s]
  BY <1>7
<1>10. \A s \in SUBSET Clients : Step(g, s) = Step(h, s)
  BY <1>8, <1>9
<1>11. h = [s \in SUBSET Clients |-> Step(h, s)]
  <2>1. h = [s \in SUBSET Clients |-> Step(g, s)]
    OBVIOUS
  <2> HIDE DEF h, Step
  <2> QED BY <1>10, <2>1
<1> HIDE DEF h
<1>12. Sums(f, h)
  BY <1>11 DEF Sums
<1> QED BY <1>12

(* The recursion as two facts.                                             *)
Unfolds(f, g) ==
  /\ g[{}] = 0
  /\ \A s \in SUBSET Clients : s # {} => g[s] = f[Pick(s)] + g[s \ {Pick(s)}]

(* What MapThenSumSet computes.                                            *)
LEMMA TotalIsSum ==
  ASSUME NEW f
  PROVE  \E g : Unfolds(f, g) /\ Total(f) = g[Clients]
<1>1. PICK e : Sums(f, e)
  BY SumsExist
<1>2. PICK g : Sums(f, g) /\ Total(f) = g[Clients]
  BY <1>1 DEF Sums, Pick, Total, MapThenSumSet, MapThenFoldSet
<1>3. Unfolds(f, g)
  BY <1>2 DEF Sums, Unfolds
<1> QED BY <1>2, <1>3

LEMMA SumsType ==
  ASSUME NEW f \in [Clients -> Nat], NEW g, Unfolds(f, g)
  PROVE  \A s \in SUBSET Clients : g[s] \in Nat
<1> DEFINE T == {s \in SUBSET Clients : g[s] \in Nat}
<1>1. {} \in T
  BY DEF Unfolds
<1>2. ASSUME NEW s \in SUBSET Clients, s # {}, s \ {Pick(s)} \in T PROVE s \in T
  <2>1. g[s] = f[Pick(s)] + g[s \ {Pick(s)}] /\ g[s \ {Pick(s)}] \in Nat
    BY <1>2 DEF Unfolds
  <2>2. Pick(s) \in Clients
    BY <1>2, PickFacts
  <2> QED BY <2>1, <2>2
<1> HIDE DEF T
<1>3. \A s \in SUBSET Clients : s \in T
  BY <1>1, <1>2, SetInduction
<1> QED BY <1>3 DEF T

(* A total is a natural number.                                            *)
LEMMA TotalType ==
  ASSUME NEW f \in [Clients -> Nat]
  PROVE  Total(f) \in Nat
BY TotalIsSum, SumsType

(* A total grows with its summands.                                        *)
LEMMA TotalMonotone ==
  ASSUME NEW f \in [Clients -> Nat], NEW e \in [Clients -> Nat],
         \A c \in Clients : f[c] <= e[c]
  PROVE  Total(f) <= Total(e)
<1>1. PICK g : Unfolds(f, g) /\ Total(f) = g[Clients]
  BY TotalIsSum
<1>2. PICK h : Unfolds(e, h) /\ Total(e) = h[Clients]
  BY TotalIsSum
<1>3. \A s \in SUBSET Clients : g[s] \in Nat /\ h[s] \in Nat
  BY <1>1, <1>2, SumsType
<1> DEFINE T == {s \in SUBSET Clients : g[s] <= h[s]}
<1>4. {} \in T
  BY <1>1, <1>2 DEF Unfolds
<1>5. ASSUME NEW s \in SUBSET Clients, s # {}, s \ {Pick(s)} \in T PROVE s \in T
  <2>1. g[s] = f[Pick(s)] + g[s \ {Pick(s)}] /\ h[s] = e[Pick(s)] + h[s \ {Pick(s)}]
    BY <1>1, <1>2, <1>5 DEF Unfolds
  <2>2. Pick(s) \in Clients /\ s \ {Pick(s)} \in SUBSET Clients
    BY <1>5, PickFacts
  <2> QED BY <1>3, <1>5, <2>1, <2>2
<1> HIDE DEF T
<1>6. \A s \in SUBSET Clients : s \in T
  BY <1>4, <1>5, SetInduction
<1> QED BY <1>1, <1>2, <1>6 DEF T

(* A total of zeros is zero.                                               *)
LEMMA TotalOfZeros ==
  ASSUME NEW f \in [Clients -> Nat], \A c \in Clients : f[c] = 0
  PROVE  Total(f) = 0
<1>1. PICK g : Unfolds(f, g) /\ Total(f) = g[Clients]
  BY TotalIsSum
<1> DEFINE T == {s \in SUBSET Clients : g[s] = 0}
<1>2. {} \in T
  BY <1>1 DEF Unfolds
<1>3. ASSUME NEW s \in SUBSET Clients, s # {}, s \ {Pick(s)} \in T PROVE s \in T
  BY <1>1, <1>3, PickFacts DEF Unfolds
<1> HIDE DEF T
<1>4. \A s \in SUBSET Clients : s \in T
  BY <1>2, <1>3, SetInduction
<1> QED BY <1>1, <1>4 DEF T

(* One summand more by one, the total more by one.                         *)
LEMMA TotalPlusOne ==
  ASSUME NEW f \in [Clients -> Nat], NEW e \in [Clients -> Nat], NEW d \in Clients,
         e[d] = f[d] + 1, \A c \in Clients : c # d => e[c] = f[c]
  PROVE  Total(e) = Total(f) + 1
<1>1. PICK g : Unfolds(f, g) /\ Total(f) = g[Clients]
  BY TotalIsSum
<1>2. PICK h : Unfolds(e, h) /\ Total(e) = h[Clients]
  BY TotalIsSum
<1>3. \A s \in SUBSET Clients : g[s] \in Nat /\ h[s] \in Nat
  BY <1>1, <1>2, SumsType
<1> DEFINE T == {s \in SUBSET Clients : h[s] = IF d \in s THEN g[s] + 1 ELSE g[s]}
<1>4. {} \in T
  BY <1>1, <1>2 DEF Unfolds
<1>5. ASSUME NEW s \in SUBSET Clients, s # {}, s \ {Pick(s)} \in T PROVE s \in T
  <2>1. g[s] = f[Pick(s)] + g[s \ {Pick(s)}] /\ h[s] = e[Pick(s)] + h[s \ {Pick(s)}]
    BY <1>1, <1>2, <1>5 DEF Unfolds
  <2>2. Pick(s) \in s /\ Pick(s) \in Clients /\ s \ {Pick(s)} \in SUBSET Clients
    BY <1>5, PickFacts
  <2>6. f[Pick(s)] \in Nat /\ e[Pick(s)] \in Nat /\ g[s \ {Pick(s)}] \in Nat
    BY <1>3, <2>2
  <2>3. CASE Pick(s) = d
    <3>1. h[s \ {Pick(s)}] = g[s \ {Pick(s)}]
      BY <1>5, <2>3
    <3> QED BY <2>1, <2>2, <2>6, <2>3, <3>1
  <2>4. CASE Pick(s) # d
    <3>1. d \in s <=> d \in s \ {Pick(s)}
      BY <2>4
    <3>2. h[s \ {Pick(s)}] = IF d \in s THEN g[s \ {Pick(s)}] + 1 ELSE g[s \ {Pick(s)}]
      BY <1>5, <3>1
    <3>3. e[Pick(s)] = f[Pick(s)]
      BY <2>2, <2>4
    <3>4. h[s] = IF d \in s THEN g[s] + 1 ELSE g[s]
      BY <2>1, <2>6, <3>2, <3>3
    <3> QED BY <3>4
  <2> QED BY <2>3, <2>4
<1> HIDE DEF T
<1>6. \A s \in SUBSET Clients : s \in T
  BY <1>4, <1>5, SetInduction
<1> QED BY <1>1, <1>2, <1>6 DEF T
-----------------------------------------------------------------------------
USE SizeAssumption

(* RunZero is between the first part of c's request and the reply.         *)
Reading(c) == peer = c /\ server \in {"recv", "send"}

(* At most one request of a client is under way.                           *)
PlaceInv(c) ==
  /\ c \in out =>
       client[c] = "recv" /\ c \notin inbox /\ ~Reading(c) /\ reply[c] = "none"
  /\ c \in inbox => ~Reading(c) /\ reply[c] = "none"
  /\ Reading(c) => reply[c] = "none"
  /\ c \in inbox \/ Reading(c) \/ reply[c] # "none" => client[c] \in {"recv", "aborted"}

(* A client goes past its bound for the one call the time ran out in.      *)
PushInv(c) ==
  /\ client[c] = "header" \/ ~expired => pushes[c] <= MaxPushes
  /\ client[c] = "aborted" => c \in struck

(* How many parts RunZero has read, wherever it is.                        *)
ServerInv ==
  \/ server = "recv" /\ peer = None /\ parts = 0
  \/ server = "recv" /\ peer \in Clients /\ parts = 1
  \/ server = "send" /\ peer \in Clients /\ parts = 2
  \/ server = "send" /\ peer = None /\ parts = 0 /\ None \in struck
  \/ server = "close" /\ peer \in Clients /\ parts = 2
  \/ server = "down" /\ peer = None /\ parts = 0

IInv ==
  /\ TypeOK
  /\ ServerInv
  /\ \A c \in Clients : PlaceInv(c) /\ PushInv(c)

LEMMA InitInv ==
  ASSUME Init
  PROVE  IInv
<1>1. TypeOK
  <2>1. expired \in BOOLEAN /\ killed \in BOOLEAN
    BY DEF Init
  <2>2. /\ client \in [Clients -> {"header", "data", "recv", "done", "aborted"}]
        /\ pushes \in [Clients -> 0..(MaxPushes + 1)]
        /\ reply \in [Clients -> {"none", "queued", "arrived"}]
    BY DEF Init
  <2> QED BY <2>1, <2>2 DEF Init, TypeOK
<1>2. ServerInv
  BY DEF Init, ServerInv
<1>3. ASSUME NEW c \in Clients PROVE PlaceInv(c) /\ PushInv(c)
  BY DEF Init, PlaceInv, PushInv, Reading
<1> QED BY <1>1, <1>2, <1>3 DEF IInv

LEMMA StutterInv ==
  ASSUME IInv, UNCHANGED vars
  PROVE  IInv'
<1> USE DEF vars
<1>1. TypeOK'
  BY DEF IInv, TypeOK
<1>2. ServerInv'
  BY DEF IInv, ServerInv
<1>3. ASSUME NEW c \in Clients PROVE PlaceInv(c)' /\ PushInv(c)'
  BY DEF IInv, PlaceInv, PushInv, Reading
<1> QED BY <1>1, <1>2, <1>3 DEF IInv

(* The steps of PushDataZero.                                              *)
LEMMA ClientInv ==
  ASSUME IInv, NEW d \in Clients, Client(d) \/ TakeInterrupted(d)
  PROVE  IInv'
<1>1. TypeOK /\ ServerInv /\ (\A c \in Clients : PlaceInv(c) /\ PushInv(c))
  BY DEF IInv
<1>2. UNCHANGED <<expired, inbox, server, peer, parts, metered, killed, lost>>
  BY DEF Client, SendHeader, SendData, Take, TakeInterrupted, history
<1>3. /\ client \in [Clients -> {"header", "data", "recv", "done", "aborted"}]
      /\ pushes \in [Clients -> 0..(MaxPushes + 1)]
      /\ reply \in [Clients -> {"none", "queued", "arrived"}]
      /\ out \subseteq Clients /\ struck \subseteq Clients \cup {None}
      /\ expired \in BOOLEAN
  BY <1>1 DEF TypeOK
<1>4. CASE SendHeader(d)
  <2>1. /\ client[d] = "header" /\ pushes' = [pushes EXCEPT ![d] = @ + 1]
        /\ client' = [client EXCEPT ![d] = "data"]
        /\ out' = out /\ reply' = reply /\ struck' = struck
        /\ pushes[d] < MaxPushes \/ expired
    BY <1>4 DEF SendHeader, history
  <2>2. pushes[d] \in Nat /\ pushes[d] <= MaxPushes
    BY <1>1, <1>3, <2>1 DEF PushInv
  <2>3. /\ pushes' \in [Clients -> 0..(MaxPushes + 1)] /\ pushes'[d] = pushes[d] + 1
        /\ client' \in [Clients -> {"header", "data", "recv", "done", "aborted"}]
        /\ client'[d] = "data"
        /\ \A c \in Clients : c # d => client'[c] = client[c] /\ pushes'[c] = pushes[c]
    BY <1>3, <2>1, <2>2
  <2>4. TypeOK'
    BY <1>1, <1>2, <2>1, <2>3 DEF TypeOK
  <2>5. ServerInv'
    BY <1>1, <1>2, <2>1 DEF ServerInv
  <2>6. ASSUME NEW c \in Clients PROVE PlaceInv(c)'
    BY <1>1, <1>2, <2>1, <2>3 DEF PlaceInv, Reading
  <2>7. ASSUME NEW c \in Clients PROVE PushInv(c)'
    <3>1. CASE c = d
      BY <1>2, <2>1, <2>2, <2>3, <3>1 DEF PushInv
    <3>2. CASE c # d
      BY <1>1, <1>2, <2>1, <2>3, <3>2 DEF PushInv
    <3> QED BY <3>1, <3>2
  <2> QED BY <2>4, <2>5, <2>6, <2>7 DEF IInv
<1>5. CASE SendData(d)
  <2>1. /\ client[d] = "data" /\ pushes' = pushes
        /\ client' = [client EXCEPT ![d] = "recv"]
        /\ out' = out \cup {d} /\ reply' = reply /\ struck' = struck
    BY <1>5 DEF SendData, history
  <2>2. /\ client' \in [Clients -> {"header", "data", "recv", "done", "aborted"}]
        /\ client'[d] = "recv"
        /\ \A c \in Clients : c # d => client'[c] = client[c]
    BY <1>3, <2>1
  <2>3. TypeOK'
    BY <1>1, <1>2, <2>1, <2>2 DEF TypeOK
  <2>4. ServerInv'
    BY <1>1, <1>2, <2>1 DEF ServerInv
  <2>5. ASSUME NEW c \in Clients PROVE PlaceInv(c)'
    <3>1. CASE c = d
      BY <1>1, <1>2, <1>3, <2>1, <2>2, <3>1 DEF PlaceInv, Reading
    <3>2. CASE c # d
      BY <1>1, <1>2, <2>1, <2>2, <3>2 DEF PlaceInv, Reading
    <3> QED BY <3>1, <3>2
  <2>6. ASSUME NEW c \in Clients PROVE PushInv(c)'
    BY <1>1, <1>2, <2>1, <2>2 DEF PushInv
  <2> QED BY <2>3, <2>4, <2>5, <2>6 DEF IInv
<1>6. CASE Take(d)
  <2>1. /\ client[d] = "recv" /\ pushes' = pushes /\ reply[d] = "arrived"
        /\ client' = [client EXCEPT ![d] = IF expired THEN "done" ELSE "header"]
        /\ out' = out /\ reply' = [reply EXCEPT ![d] = "none"] /\ struck' = struck
    BY <1>6 DEF Take, history, HeaderSize, ReplySize
  <2>2. /\ client' \in [Clients -> {"header", "data", "recv", "done", "aborted"}]
        /\ client'[d] = IF expired THEN "done" ELSE "header"
        /\ reply' \in [Clients -> {"none", "queued", "arrived"}] /\ reply'[d] = "none"
        /\ \A c \in Clients : c # d => client'[c] = client[c] /\ reply'[c] = reply[c]
    BY <1>3, <2>1
  <2>3. TypeOK'
    BY <1>1, <1>2, <2>1, <2>2 DEF TypeOK
  <2>4. ServerInv'
    BY <1>1, <1>2, <2>1 DEF ServerInv
  <2>5. ASSUME NEW c \in Clients PROVE PlaceInv(c)'
    <3>1. CASE c = d
      BY <1>1, <1>2, <1>3, <2>1, <2>2, <3>1 DEF PlaceInv, Reading
    <3>2. CASE c # d
      BY <1>1, <1>2, <2>1, <2>2, <3>2 DEF PlaceInv, Reading
    <3> QED BY <3>1, <3>2
  <2>6. ASSUME NEW c \in Clients PROVE PushInv(c)'
    BY <1>1, <1>2, <2>1, <2>2 DEF PushInv
  <2> QED BY <2>3, <2>4, <2>5, <2>6 DEF IInv
<1>7. CASE TakeInterrupted(d)
  <2>1. /\ client[d] = "recv" /\ pushes' = pushes
        /\ client' = [client EXCEPT ![d] = "aborted"]
        /\ out' = out \ {d} /\ reply' = reply /\ struck' = struck \cup {d}
    BY <1>7 DEF TakeInterrupted
  <2>2. /\ client' \in [Clients -> {"header", "data", "recv", "done", "aborted"}]
        /\ client'[d] = "aborted"
        /\ \A c \in Clients : c # d => client'[c] = client[c]
    BY <1>3, <2>1
  <2>3. TypeOK'
    BY <1>1, <1>2, <2>1, <2>2 DEF TypeOK
  <2>4. ServerInv'
    BY <1>1, <1>2, <2>1 DEF ServerInv
  <2>5. ASSUME NEW c \in Clients PROVE PlaceInv(c)'
    BY <1>1, <1>2, <2>1, <2>2 DEF PlaceInv, Reading
  <2>6. ASSUME NEW c \in Clients PROVE PushInv(c)'
    BY <1>1, <1>2, <2>1, <2>2 DEF PushInv
  <2> QED BY <2>3, <2>4, <2>5, <2>6 DEF IInv
<1> QED BY <1>4, <1>5, <1>6, <1>7 DEF Client

(* The steps of the I/O threads.                                           *)
LEMMA IoInv ==
  ASSUME IInv, NEW d \in Clients, Io(d)
  PROVE  IInv'
<1>1. TypeOK /\ ServerInv /\ (\A c \in Clients : PlaceInv(c) /\ PushInv(c))
  BY DEF IInv
<1>2. UNCHANGED <<client, pushes, expired, server, peer, parts, metered, struck, killed, lost>>
  BY DEF Io, Deliver, DeliverReply, history
<1>3. reply \in [Clients -> {"none", "queued", "arrived"}]
  BY <1>1 DEF TypeOK
<1>4. ServerInv'
  BY <1>1, <1>2 DEF ServerInv
<1>5. ASSUME NEW c \in Clients PROVE PushInv(c)'
  BY <1>1, <1>2 DEF PushInv
<1>6. CASE Deliver(d)
  <2>1. d \in out /\ out' = out \ {d} /\ inbox' = inbox \cup {d} /\ reply' = reply
    BY <1>6 DEF Deliver
  <2>2. TypeOK'
    BY <1>1, <1>2, <2>1 DEF TypeOK
  <2>3. ASSUME NEW c \in Clients PROVE PlaceInv(c)'
    BY <1>1, <1>2, <2>1 DEF PlaceInv, Reading
  <2> QED BY <1>4, <1>5, <2>2, <2>3 DEF IInv
<1>7. CASE DeliverReply(d)
  <2>1. /\ reply[d] = "queued" /\ reply' = [reply EXCEPT ![d] = "arrived"]
        /\ out' = out /\ inbox' = inbox
    BY <1>7 DEF DeliverReply
  <2>2. /\ reply' \in [Clients -> {"none", "queued", "arrived"}] /\ reply'[d] = "arrived"
        /\ \A c \in Clients : c # d => reply'[c] = reply[c]
    BY <1>3, <2>1
  <2>3. TypeOK'
    BY <1>1, <1>2, <2>1, <2>2 DEF TypeOK
  <2>4. ASSUME NEW c \in Clients PROVE PlaceInv(c)'
    BY <1>1, <1>2, <2>1, <2>2 DEF PlaceInv, Reading
  <2> QED BY <1>4, <1>5, <2>3, <2>4 DEF IInv
<1> QED BY <1>6, <1>7 DEF Io

(* The steps of RunZero.                                                   *)
LEMMA ServerStepInv ==
  ASSUME IInv, Server \/ ReceiveInterrupted
  PROVE  IInv'
<1>1. TypeOK /\ ServerInv /\ (\A c \in Clients : PlaceInv(c) /\ PushInv(c))
  BY DEF IInv
<1>2. UNCHANGED <<client, pushes, expired, out, killed, lost>>
  BY DEF Server, Receive, Send, Close, ReceiveInterrupted, history
<1>3. /\ reply \in [Clients -> {"none", "queued", "arrived"}]
      /\ metered \in Nat /\ inbox \subseteq Clients
  BY <1>1 DEF TypeOK
<1>4. CASE Receive
  <2>1. PICK d \in IF peer = None THEN inbox ELSE {peer} :
          peer' = d /\ inbox' = inbox \ {d}
    BY <1>4 DEF Receive
  <2>2. /\ server = "recv" /\ parts' = parts + 1
        /\ metered' = metered + PartSize(parts + 1)
        /\ server' = IF NoMore(parts + 1) THEN "send" ELSE "recv"
        /\ reply' = reply /\ struck' = struck
    BY <1>4 DEF Receive, history
  <2>3. /\ d \in Clients
        /\ \/ peer = None /\ d \in inbox /\ parts' = 1 /\ server' = "recv"
           \/ peer = d /\ parts' = 2 /\ server' = "send"
    BY <1>1, <1>3, <2>1, <2>2 DEF ServerInv, NoMore
  <2>4. metered' \in Nat
    BY <1>3, <2>2 DEF PartSize, HeaderSize
  <2>5. TypeOK'
    BY <1>1, <1>2, <2>1, <2>2, <2>3, <2>4 DEF TypeOK
  <2>6. ServerInv'
    BY <2>1, <2>3 DEF ServerInv
  <2>7. ASSUME NEW c \in Clients PROVE PlaceInv(c)'
    BY <1>1, <1>2, <2>1, <2>2, <2>3 DEF PlaceInv, Reading
  <2>8. ASSUME NEW c \in Clients PROVE PushInv(c)'
    BY <1>1, <1>2, <2>2 DEF PushInv
  <2> QED BY <2>5, <2>6, <2>7, <2>8 DEF IInv
<1>5. CASE Send
  <2>1. /\ server = "send" /\ parts = 2 /\ server' = "close"
        /\ reply' = [reply EXCEPT ![peer] = "queued"]
        /\ inbox' = inbox /\ peer' = peer /\ parts' = parts /\ metered' = metered
        /\ struck' = struck
    BY <1>5 DEF Send, Spinning, history
  <2>2. peer \in Clients
    BY <1>1, <2>1 DEF ServerInv
  <2>3. /\ reply' \in [Clients -> {"none", "queued", "arrived"}] /\ reply'[peer] = "queued"
        /\ \A c \in Clients : c # peer => reply'[c] = reply[c]
    BY <1>3, <2>1, <2>2
  <2>4. TypeOK'
    BY <1>1, <1>2, <2>1, <2>2, <2>3 DEF TypeOK
  <2>5. ServerInv'
    BY <2>1, <2>2 DEF ServerInv
  <2>6. ASSUME NEW c \in Clients PROVE PlaceInv(c)'
    BY <1>1, <1>2, <2>1, <2>2, <2>3 DEF PlaceInv, Reading
  <2>7. ASSUME NEW c \in Clients PROVE PushInv(c)'
    BY <1>1, <1>2, <2>1 DEF PushInv
  <2> QED BY <2>4, <2>5, <2>6, <2>7 DEF IInv
<1>6. CASE Close
  <2>1. /\ server = "close" /\ server' = "recv" /\ peer' = None /\ parts' = 0
        /\ UNCHANGED <<inbox, reply, metered, struck>>
    BY <1>6 DEF Close, history
  <2>2. TypeOK'
    BY <1>1, <1>2, <2>1 DEF TypeOK
  <2>3. ServerInv'
    BY <2>1 DEF ServerInv
  <2>4. ASSUME NEW c \in Clients PROVE PlaceInv(c)'
    BY <1>1, <1>2, <2>1 DEF PlaceInv, Reading
  <2>5. ASSUME NEW c \in Clients PROVE PushInv(c)'
    BY <1>1, <1>2, <2>1 DEF PushInv
  <2> QED BY <2>2, <2>3, <2>4, <2>5 DEF IInv
<1>7. CASE ReceiveInterrupted
  <2>1. /\ server = "recv" /\ server' = "send" /\ peer = None
        /\ struck' = struck \cup {None}
        /\ UNCHANGED <<inbox, peer, parts, reply, metered>>
    BY <1>7 DEF ReceiveInterrupted
  <2>2. TypeOK'
    BY <1>1, <1>2, <2>1 DEF TypeOK
  <2>3. ServerInv'
    BY <1>1, <2>1 DEF ServerInv
  <2>4. ASSUME NEW c \in Clients PROVE PlaceInv(c)'
    BY <1>1, <1>2, <2>1 DEF PlaceInv, Reading
  <2>5. ASSUME NEW c \in Clients PROVE PushInv(c)'
    BY <1>1, <1>2, <2>1 DEF PushInv
  <2> QED BY <2>2, <2>3, <2>4, <2>5 DEF IInv
<1> QED BY <1>4, <1>5, <1>6, <1>7 DEF Server

(* The server is killed and started again, and the time runs out.          *)
LEMMA OutsideInv ==
  ASSUME IInv, Crash \/ Restart \/ Expire
  PROVE  IInv'
<1>1. TypeOK /\ ServerInv /\ (\A c \in Clients : PlaceInv(c) /\ PushInv(c))
  BY DEF IInv
<1>2. UNCHANGED <<client, pushes, out, struck>>
  BY DEF Crash, Restart, Expire, history
<1>3. CASE Crash
  <2>1. /\ server' = "down" /\ peer' = None /\ parts' = 0 /\ inbox' = {}
        /\ metered' = 0 /\ killed' = TRUE /\ expired' = expired
    BY <1>3 DEF Crash
  <2>2. lost' \subseteq Clients
    BY <1>1, <1>3 DEF Crash, TypeOK
  <2>3. reply' = [c \in Clients |-> IF reply[c] = "queued" THEN "none" ELSE reply[c]]
    BY <1>3 DEF Crash
  <2>4. /\ reply' \in [Clients -> {"none", "queued", "arrived"}]
        /\ \A c \in Clients : reply'[c] = "none" \/ reply'[c] = reply[c]
    BY <1>1, <2>3 DEF TypeOK
  <2>5. TypeOK'
    <3>1. killed' \in BOOLEAN
      BY <2>1
    <3> QED BY <1>1, <1>2, <2>1, <2>2, <2>4, <3>1 DEF TypeOK
  <2>6. ServerInv'
    BY <2>1 DEF ServerInv
  <2>7. ASSUME NEW c \in Clients PROVE PlaceInv(c)'
    BY <1>1, <1>2, <2>1, <2>4 DEF PlaceInv, Reading
  <2>8. ASSUME NEW c \in Clients PROVE PushInv(c)'
    BY <1>1, <1>2, <2>1 DEF PushInv
  <2> QED BY <2>5, <2>6, <2>7, <2>8 DEF IInv
<1>4. CASE Restart
  <2>1. /\ server = "down" /\ server' = "recv"
        /\ UNCHANGED <<expired, inbox, peer, parts, reply, metered, killed, lost>>
    BY <1>4 DEF Restart, history
  <2>2. peer = None /\ parts = 0
    BY <1>1, <2>1 DEF ServerInv
  <2>3. TypeOK'
    BY <1>1, <1>2, <2>1 DEF TypeOK
  <2>4. ServerInv'
    BY <2>1, <2>2 DEF ServerInv
  <2>5. ASSUME NEW c \in Clients PROVE PlaceInv(c)'
    BY <1>1, <1>2, <2>1, <2>2 DEF PlaceInv, Reading
  <2>6. ASSUME NEW c \in Clients PROVE PushInv(c)'
    BY <1>1, <1>2, <2>1 DEF PushInv
  <2> QED BY <2>3, <2>4, <2>5, <2>6 DEF IInv
<1>5. CASE Expire
  <2>1. /\ expired' = TRUE
        /\ UNCHANGED <<inbox, server, peer, parts, reply, metered, killed, lost>>
    BY <1>5 DEF Expire, history
  <2>2. TypeOK'
    <3>1. expired' \in BOOLEAN
      BY <2>1
    <3> QED BY <1>1, <1>2, <2>1, <3>1 DEF TypeOK
  <2>3. ServerInv'
    BY <1>1, <1>2, <2>1 DEF ServerInv
  <2>4. ASSUME NEW c \in Clients PROVE PlaceInv(c)'
    BY <1>1, <1>2, <2>1 DEF PlaceInv, Reading
  <2>5. ASSUME NEW c \in Clients PROVE PushInv(c)'
    <3>1. expired \in BOOLEAN /\ ~expired
      BY <1>1, <1>5 DEF Expire, TypeOK
    <3> QED BY <1>1, <1>2, <2>1, <3>1 DEF PushInv
  <2> QED BY <2>2, <2>3, <2>4, <2>5 DEF IInv
<1> QED BY <1>3, <1>4, <1>5

(* IInv holds in every reachable state.                                    *)
THEOREM Invariance == Spec => []IInv
<1>1. Init => IInv
  BY InitInv
<1>2. IInv /\ [Next]_vars => IInv'
  BY StutterInv, ClientInv, IoInv, ServerStepInv, OutsideInv DEF Next
<1> QED BY <1>1, <1>2, PTL DEF Spec

(* RunZero spins in zmq_msg_send and PushDataZero aborts only in a process *)
(* whose receive a signal has interrupted, with any number of clients and  *)
(* whatever the sizes of header and data.                                  *)
THEOREM StuckByInterruptOnly == Spec => []StuckOnlyAfterInterrupt
<1>1. IInv => StuckOnlyAfterInterrupt
  BY DEF IInv, ServerInv, PushInv, StuckOnlyAfterInterrupt, Spinning
<1> QED BY <1>1, Invariance, PTL

(* header_buf and the data outlive the request made of them without a      *)
(* copy, and no call takes the reply to an earlier one, for every number   *)
(* of clients and every size.                                              *)
THEOREM RequestStaysWithinItsCall == Spec => []RequestWithinItsCall
<1>1. IInv => RequestWithinItsCall
  BY DEF IInv, PlaceInv, TypeOK, RequestWithinItsCall
<1> QED BY <1>1, Invariance, PTL

-----------------------------------------------------------------------------
(* RunZero has not read the data of the call c is in.                      *)
Unread(c) ==
  client[c] = "data" \/ c \in out \/ c \in inbox \/ (peer = c /\ server = "recv")
(* RunZero has read the data of every call c has begun.                    *)
Answered(c) ==
  client[c] \in {"header", "done"} \/ reply[c] # "none" \/ (peer = c /\ server = "send")

(* The requests of a client that RunZero has read, at most and at least:   *)
(* what was read for a client that has aborted is between the two.         *)
most == [c \in Clients |-> IF Unread(c) THEN pushes[c] - 1 ELSE pushes[c]]
least == [c \in Clients |->
            IF Answered(c) THEN pushes[c] ELSE IF pushes[c] = 0 THEN 0 ELSE pushes[c] - 1]

(* A client that is in a call has begun one.                               *)
BegunInv == \A c \in Clients : client[c] \in {"data", "recv", "aborted"} => pushes[c] > 0

CountInv ==
  /\ BegunInv
  /\ metered <= DataSize * Total(most)
  /\ ~killed => metered >= DataSize * Total(least)

LEMMA CountTypes ==
  ASSUME IInv, BegunInv
  PROVE  /\ most \in [Clients -> Nat] /\ least \in [Clients -> Nat]
         /\ pushes \in [Clients -> Nat]
<1>1. pushes \in [Clients -> Nat]
  BY DEF IInv, TypeOK
<1>2. ASSUME NEW c \in Clients, Unread(c) PROVE pushes[c] - 1 \in Nat
  <2>1. client[c] \in {"data", "recv", "aborted"}
    BY <1>2 DEF IInv, PlaceInv, Unread, Reading
  <2> QED BY <1>1, <2>1 DEF BegunInv
<1>3. \A c \in Clients : most[c] \in Nat /\ least[c] \in Nat
  BY <1>1, <1>2 DEF most, least
<1> QED BY <1>1, <1>3 DEF most, least

(* The same after a step.                                                  *)
LEMMA CountTypesNext ==
  (IInv /\ BegunInv => most \in [Clients -> Nat] /\ least \in [Clients -> Nat])'
<1>1. IInv /\ BegunInv => most \in [Clients -> Nat] /\ least \in [Clients -> Nat]
  BY CountTypes
<1> QED BY <1>1, PTL

(* Bytes grow with requests.                                               *)
LEMMA Scaled ==
  ASSUME NEW a \in Nat, NEW b \in Nat, a <= b
  PROVE  DataSize * a <= DataSize * b /\ DataSize * (a + 1) = DataSize * a + DataSize
<1>1. DataSize \in Nat
  OBVIOUS
<1> HIDE SizeAssumption
<1>2. PICK k \in Nat : b = a + k
  <2>1. b - a \in Nat /\ b = a + (b - a)
    OBVIOUS
  <2> QED BY <2>1
<1>3. DataSize * b = DataSize * a + DataSize * k /\ DataSize * k \in Nat /\ DataSize * a \in Nat
  BY <1>1, <1>2
<1>4. DataSize * (a + 1) = DataSize * a + DataSize
  BY <1>1
<1> QED BY <1>1, <1>3, <1>4

(* A step that meters nothing and leaves the two counts on their side.     *)
LEMMA QuietStep ==
  ASSUME IInv, IInv', CountInv, BegunInv', metered' = metered,
         killed' = killed,
         \A c \in Clients : most[c] <= most'[c] /\ least'[c] <= least[c]
  PROVE  CountInv'
<1>1. /\ most \in [Clients -> Nat] /\ least \in [Clients -> Nat]
      /\ most' \in [Clients -> Nat] /\ least' \in [Clients -> Nat]
  <2>1. most \in [Clients -> Nat] /\ least \in [Clients -> Nat]
    BY CountTypes DEF CountInv
  <2> QED BY <2>1, CountTypesNext
<1>2. Total(most) <= Total(most') /\ Total(least') <= Total(least)
  BY <1>1, TotalMonotone
<1>3. Total(most) \in Nat /\ Total(most') \in Nat /\ Total(least') \in Nat /\ Total(least) \in Nat
  BY <1>1, TotalType
<1>4. /\ DataSize * Total(most) <= DataSize * Total(most')
      /\ DataSize * Total(least') <= DataSize * Total(least)
  BY <1>2, <1>3, Scaled
<1>5. /\ metered \in Nat /\ DataSize * Total(most) \in Nat /\ DataSize * Total(most') \in Nat
      /\ DataSize * Total(least') \in Nat /\ DataSize * Total(least) \in Nat
  BY <1>3 DEF IInv, TypeOK
<1>6. (metered <= DataSize * Total(most))'
  BY <1>4, <1>5 DEF CountInv
<1>7. (~killed => metered >= DataSize * Total(least))'
  BY <1>4, <1>5 DEF CountInv
<1> QED BY <1>6, <1>7 DEF CountInv

LEMMA InitCount ==
  ASSUME Init
  PROVE  CountInv
<1>1. BegunInv /\ IInv
  BY InitInv DEF Init, BegunInv
<1>2. most \in [Clients -> Nat] /\ least \in [Clients -> Nat]
  BY <1>1, CountTypes
<1>3. \A c \in Clients : most[c] = 0 /\ least[c] = 0
  BY DEF Init, most, least, Unread, Answered
<1>4. Total(most) = 0 /\ Total(least) = 0
  BY <1>2, <1>3, TotalOfZeros
<1>5. metered = 0
  BY DEF Init
<1>6. DataSize * 0 = 0
  OBVIOUS
<1> QED BY <1>1, <1>4, <1>5, <1>6 DEF CountInv

LEMMA ClientCount ==
  ASSUME IInv, IInv', CountInv, NEW d \in Clients, Client(d) \/ TakeInterrupted(d)
  PROVE  CountInv'
<1>1. /\ \A c \in Clients : PlaceInv(c)
      /\ client \in [Clients -> {"header", "data", "recv", "done", "aborted"}]
      /\ pushes \in [Clients -> Nat] /\ pushes' \in [Clients -> Nat]
      /\ reply \in [Clients -> {"none", "queued", "arrived"}]
      /\ BegunInv
  BY DEF IInv, CountInv, TypeOK
<1>2. UNCHANGED <<inbox, server, peer, metered, killed>>
  BY DEF Client, SendHeader, SendData, Take, TakeInterrupted, history
<1>3. \A c \in Clients : c # d => /\ client'[c] = client[c] /\ pushes'[c] = pushes[c]
                                  /\ reply'[c] = reply[c] /\ (c \in out' <=> c \in out)
  BY <1>1 DEF Client, SendHeader, SendData, Take, TakeInterrupted
<1>4. \/ client[d] = "header" /\ client'[d] = "data" /\ pushes'[d] = pushes[d] + 1
         /\ out' = out /\ reply' = reply
      \/ client[d] = "data" /\ client'[d] = "recv" /\ pushes'[d] = pushes[d] /\ d \in out'
         /\ reply' = reply
      \/ client[d] = "recv" /\ client'[d] \in {"header", "done"} /\ pushes'[d] = pushes[d]
         /\ reply[d] # "none" /\ out' = out
      \/ client[d] = "recv" /\ client'[d] = "aborted" /\ pushes'[d] = pushes[d] /\ d \notin out'
         /\ reply' = reply
  BY <1>1 DEF Client, SendHeader, SendData, Take, TakeInterrupted, HeaderSize, ReplySize
<1>5. BegunInv'
  <2>1. ASSUME NEW c \in Clients, c # d, client'[c] \in {"data", "recv", "aborted"}
        PROVE  pushes'[c] > 0
    BY <1>1, <1>3, <2>1 DEF BegunInv
  <2>2. ASSUME client'[d] \in {"data", "recv", "aborted"} PROVE pushes'[d] > 0
    BY <1>1, <1>4, <2>2 DEF BegunInv
  <2> QED BY <2>1, <2>2 DEF BegunInv
<1>6. ASSUME NEW c \in Clients PROVE most[c] <= most'[c] /\ least'[c] <= least[c]
  <2>1. /\ most[c] = IF Unread(c) THEN pushes[c] - 1 ELSE pushes[c]
        /\ most'[c] = IF Unread(c)' THEN pushes'[c] - 1 ELSE pushes'[c]
        /\ least[c] = IF Answered(c) THEN pushes[c]
                      ELSE IF pushes[c] = 0 THEN 0 ELSE pushes[c] - 1
        /\ least'[c] = IF Answered(c)' THEN pushes'[c]
                       ELSE IF pushes'[c] = 0 THEN 0 ELSE pushes'[c] - 1
    BY DEF most, least
  <2>2. CASE c # d
    <3>1. (Unread(c)' <=> Unread(c)) /\ (Answered(c)' <=> Answered(c))
      BY <1>2, <1>3, <2>2 DEF Unread, Answered
    <3> QED BY <1>1, <1>3, <2>1, <2>2, <3>1
  <2>3. CASE c = d
    <3>1. CASE client[d] = "header"
      <4>1. /\ client'[d] = "data" /\ pushes'[d] = pushes[d] + 1
            /\ out' = out /\ reply' = reply
        BY <1>4, <3>1
      <4>2. ~Unread(d) /\ Unread(d)' /\ Answered(d) /\ ~Answered(d)'
        BY <1>1, <1>2, <3>1, <4>1 DEF Unread, Answered, PlaceInv, Reading
      <4> QED BY <1>1, <2>1, <2>3, <4>1, <4>2
    <3>2. CASE client[d] = "data"
      <4>1. client'[d] = "recv" /\ pushes'[d] = pushes[d] /\ d \in out' /\ reply' = reply
        BY <1>4, <3>2
      <4>2. Unread(d) /\ Unread(d)' /\ ~Answered(d) /\ ~Answered(d)'
        BY <1>1, <1>2, <3>2, <4>1 DEF Unread, Answered, PlaceInv, Reading
      <4> QED BY <1>1, <2>1, <2>3, <4>1, <4>2
    <3>3. CASE client'[d] \in {"header", "done"}
      <4>1. client[d] = "recv" /\ pushes'[d] = pushes[d] /\ reply[d] # "none" /\ out' = out
        BY <1>4, <3>3
      <4>2. (Unread(d)' => Unread(d)) /\ Answered(d)
        BY <1>1, <1>2, <3>3, <4>1 DEF Unread, Answered
      <4> QED BY <1>1, <2>1, <2>3, <4>1, <4>2
    <3>4. CASE client'[d] = "aborted"
      <4>1. /\ client[d] = "recv" /\ pushes'[d] = pushes[d] /\ d \notin out' /\ reply' = reply
        BY <1>4, <3>4
      <4>2. (Unread(d)' => Unread(d)) /\ (Answered(d)' => Answered(d))
        BY <1>1, <1>2, <3>4, <4>1 DEF Unread, Answered
      <4> QED BY <1>1, <2>1, <2>3, <4>1, <4>2
    <3> QED BY <1>4, <3>1, <3>2, <3>3, <3>4
  <2> QED BY <2>2, <2>3
<1> QED BY <1>2, <1>5, <1>6, QuietStep

(* Steps of the others that meter nothing.                                 *)
LEMMA OtherCount ==
  ASSUME IInv, IInv', CountInv, UNCHANGED <<client, pushes, metered, killed>>,
         \A c \in Clients : (Unread(c)' => Unread(c)) /\ (Answered(c)' => Answered(c))
  PROVE  CountInv'
<1>1. pushes \in [Clients -> Nat]
  BY DEF IInv, TypeOK
<1>2. ASSUME NEW c \in Clients PROVE most[c] <= most'[c] /\ least'[c] <= least[c]
  BY <1>1 DEF most, least
<1>3. BegunInv'
  BY DEF CountInv, BegunInv
<1> QED BY <1>2, <1>3, QuietStep

(* The second part: one request more was read.                             *)
LEMMA ReadStep ==
  ASSUME IInv, IInv', CountInv, BegunInv', killed' = killed, metered' = metered + DataSize,
         NEW d \in Clients, most'[d] = most[d] + 1, least'[d] = least[d] + 1,
         \A c \in Clients : c # d => most'[c] = most[c] /\ least'[c] = least[c]
  PROVE  CountInv'
<1>1. /\ most \in [Clients -> Nat] /\ least \in [Clients -> Nat]
      /\ most' \in [Clients -> Nat] /\ least' \in [Clients -> Nat]
  BY CountTypes, CountTypesNext DEF CountInv
<1>2. Total(most') = Total(most) + 1 /\ Total(least') = Total(least) + 1
  BY <1>1, TotalPlusOne
<1>3. Total(most) \in Nat /\ Total(least) \in Nat
  BY <1>1, TotalType
<1>4. /\ DataSize * Total(most') = DataSize * Total(most) + DataSize
      /\ DataSize * Total(least') = DataSize * Total(least) + DataSize
  BY <1>2, <1>3, Scaled
<1>5. /\ metered \in Nat /\ DataSize \in Nat
      /\ DataSize * Total(most) \in Nat /\ DataSize * Total(least) \in Nat
  BY <1>3 DEF IInv, TypeOK
<1>6. (metered <= DataSize * Total(most))'
  BY <1>4, <1>5 DEF CountInv
<1>7. (~killed => metered >= DataSize * Total(least))'
  BY <1>4, <1>5 DEF CountInv
<1> QED BY <1>6, <1>7 DEF CountInv

LEMMA ReceiveCount ==
  ASSUME EmptyHeader = 0, IInv, IInv', CountInv, Receive
  PROVE  CountInv'
<1>1. PICK d \in IF peer = None THEN inbox ELSE {peer} :
        peer' = d /\ inbox' = inbox \ {d}
  BY DEF Receive
<1>2. /\ server = "recv" /\ parts' = parts + 1
      /\ metered' = metered + PartSize(parts + 1)
      /\ server' = IF NoMore(parts + 1) THEN "send" ELSE "recv"
      /\ UNCHANGED <<client, pushes, out, reply, killed>>
  BY DEF Receive, history
<1>3. /\ ServerInv /\ (\A c \in Clients : PlaceInv(c)) /\ inbox \subseteq Clients
      /\ metered \in Nat /\ DataSize \in Nat
      /\ pushes \in [Clients -> Nat] /\ BegunInv
  BY DEF IInv, TypeOK, CountInv
<1>4. /\ d \in Clients
      /\ \/ peer = None /\ d \in inbox /\ parts = 0
         \/ peer = d /\ parts = 1
  BY <1>1, <1>2, <1>3 DEF ServerInv
<1>5. CASE peer = None
  <2>1. parts = 0 /\ d \in inbox /\ server' = "recv" /\ metered' = metered
    BY <1>2, <1>3, <1>4, <1>5 DEF NoMore, PartSize, HeaderSize
  <2>2. ASSUME NEW c \in Clients
        PROVE  (Unread(c)' => Unread(c)) /\ (Answered(c)' => Answered(c))
    BY <1>1, <1>2, <1>3, <1>4, <1>5, <2>1 DEF Unread, Answered
  <2> QED BY <1>2, <2>1, <2>2, OtherCount
<1>6. CASE peer # None
  <2>1. peer = d /\ parts = 1 /\ server' = "send" /\ metered' = metered + DataSize
    BY <1>2, <1>3, <1>4, <1>6 DEF NoMore, PartSize
  <2>2. /\ Unread(d) /\ ~Unread(d)' /\ ~Answered(d) /\ Answered(d)' /\ pushes[d] > 0
    <3>1. client[d] \in {"recv", "aborted"} /\ d \notin out /\ d \notin inbox /\ reply[d] = "none"
      BY <1>2, <1>3, <1>4, <2>1 DEF PlaceInv, Reading
    <3> QED BY <1>1, <1>2, <1>3, <1>4, <2>1, <3>1 DEF Unread, Answered, BegunInv
  <2>3. ASSUME NEW c \in Clients, c # d
        PROVE  (Unread(c)' <=> Unread(c)) /\ (Answered(c)' <=> Answered(c))
    BY <1>1, <1>2, <2>1, <2>3 DEF Unread, Answered
  <2>4. most'[d] = most[d] + 1 /\ least'[d] = least[d] + 1
    BY <1>2, <1>3, <1>4, <2>2 DEF most, least
  <2>5. \A c \in Clients : c # d => most'[c] = most[c] /\ least'[c] = least[c]
    BY <1>2, <2>3 DEF most, least
  <2>6. BegunInv'
    BY <1>2, <1>3 DEF BegunInv
  <2> QED BY <1>2, <1>4, <2>1, <2>4, <2>5, <2>6, ReadStep
<1> QED BY <1>5, <1>6

(* The killed server takes its count with it.                              *)
LEMMA CrashCount ==
  ASSUME IInv', CountInv, Crash
  PROVE  CountInv'
<1>1. metered' = 0 /\ killed' = TRUE /\ UNCHANGED <<client, pushes>>
  BY DEF Crash
<1>2. BegunInv'
  BY <1>1 DEF CountInv, BegunInv
<1>3. most' \in [Clients -> Nat]
  BY <1>2, CountTypesNext
<1>4. DataSize * Total(most') \in Nat
  BY <1>3, TotalType
<1>5. (metered <= DataSize * Total(most))'
  BY <1>1, <1>4
<1> QED BY <1>1, <1>2, <1>5 DEF CountInv

LEMMA CountStep ==
  ASSUME EmptyHeader = 0, IInv, IInv', CountInv, [Next]_vars
  PROVE  CountInv'
<1>1. ASSUME NEW c \in Clients, Client(c) \/ TakeInterrupted(c) PROVE CountInv'
  BY <1>1, ClientCount
<1>2. ASSUME NEW d \in Clients, Io(d) PROVE CountInv'
  <2>1. UNCHANGED <<client, pushes, metered, killed, server, peer>>
    BY <1>2 DEF Io, Deliver, DeliverReply, history
  <2>2. ASSUME NEW c \in Clients
        PROVE  (Unread(c)' => Unread(c)) /\ (Answered(c)' => Answered(c))
    <3>1. CASE Deliver(d)
      <4>1. d \in out /\ out' = out \ {d} /\ inbox' = inbox \cup {d} /\ reply' = reply
        BY <3>1 DEF Deliver
      <4> QED BY <2>1, <4>1 DEF Unread, Answered
    <3>2. CASE DeliverReply(d)
      <4>1. /\ out' = out /\ inbox' = inbox
            /\ reply'[c] # "none" => reply[c] # "none"
        BY <3>2 DEF DeliverReply, IInv, TypeOK
      <4> QED BY <2>1, <4>1 DEF Unread, Answered
    <3> QED BY <1>2, <3>1, <3>2 DEF Io
  <2> QED BY <2>1, <2>2, OtherCount
<1>3. ASSUME Receive PROVE CountInv'
  BY <1>3, ReceiveCount
<1>4. ASSUME Send PROVE CountInv'
  <2>1. /\ server = "send" /\ server' = "close" /\ peer \in Clients
        /\ reply' = [reply EXCEPT ![peer] = "queued"]
        /\ UNCHANGED <<client, pushes, out, inbox, peer, metered, killed>>
    BY <1>4 DEF Send, Spinning, history, IInv, ServerInv
  <2>2. ASSUME NEW c \in Clients
        PROVE  (Unread(c)' => Unread(c)) /\ (Answered(c)' => Answered(c))
    BY <2>1 DEF Unread, Answered, IInv, TypeOK
  <2> QED BY <2>1, <2>2, OtherCount
<1>5. ASSUME Close PROVE CountInv'
  <2>1. /\ server = "close" /\ server' = "recv" /\ peer' = None
        /\ UNCHANGED <<client, pushes, out, inbox, reply, metered, killed>>
    BY <1>5 DEF Close, history
  <2>2. ASSUME NEW c \in Clients
        PROVE  (Unread(c)' => Unread(c)) /\ (Answered(c)' => Answered(c))
    BY <2>1 DEF Unread, Answered
  <2> QED BY <2>1, <2>2, OtherCount
<1>6. ASSUME ReceiveInterrupted PROVE CountInv'
  <2>1. /\ server' = "send" /\ peer = None /\ peer' = None
        /\ UNCHANGED <<client, pushes, out, inbox, reply, metered, killed>>
    BY <1>6 DEF ReceiveInterrupted
  <2>2. ASSUME NEW c \in Clients
        PROVE  (Unread(c)' => Unread(c)) /\ (Answered(c)' => Answered(c))
    BY <2>1 DEF Unread, Answered
  <2> QED BY <2>1, <2>2, OtherCount
<1>7. ASSUME Crash PROVE CountInv'
  BY <1>7, CrashCount
<1>8. ASSUME Restart PROVE CountInv'
  <2>1. /\ server = "down" /\ peer = None /\ peer' = None
        /\ UNCHANGED <<client, pushes, out, inbox, reply, metered, killed>>
    BY <1>8 DEF Restart, history, IInv, ServerInv
  <2>2. ASSUME NEW c \in Clients
        PROVE  (Unread(c)' => Unread(c)) /\ (Answered(c)' => Answered(c))
    BY <2>1 DEF Unread, Answered
  <2> QED BY <2>1, <2>2, OtherCount
<1>9. ASSUME Expire \/ UNCHANGED vars PROVE CountInv'
  <2>1. UNCHANGED <<client, pushes, out, inbox, server, peer, reply, metered, killed>>
    BY <1>9 DEF Expire, history, vars
  <2>2. ASSUME NEW c \in Clients
        PROVE  (Unread(c)' => Unread(c)) /\ (Answered(c)' => Answered(c))
    BY <2>1 DEF Unread, Answered
  <2> QED BY <2>1, <2>2, OtherCount
<1> QED BY <1>1, <1>2, <1>3, <1>4, <1>5, <1>6, <1>7, <1>8, <1>9 DEF Next, Server

(* What the inductive counts say of the calls.                             *)
LEMMA CountsBound ==
  ASSUME IInv, CountInv
  PROVE  MeteredOnce
<1> DEFINE returned == [c \in Clients |->
      IF client[c] \in {"header", "done"} \/ reply[c] # "none" THEN pushes[c]
      ELSE IF pushes[c] = 0 THEN 0 ELSE pushes[c] - 1]
<1>1. /\ most \in [Clients -> Nat] /\ least \in [Clients -> Nat] /\ pushes \in [Clients -> Nat]
  BY CountTypes DEF CountInv
<1>2. returned \in [Clients -> Nat]
  BY <1>1
<1>3. \A c \in Clients : most[c] <= pushes[c] /\ returned[c] <= least[c]
  BY <1>1 DEF most, least, Answered
<1> HIDE DEF returned
<1>4. Total(most) <= Total(pushes) /\ Total(returned) <= Total(least)
  BY <1>1, <1>2, <1>3, TotalMonotone
<1>5. Total(most) \in Nat /\ Total(pushes) \in Nat /\ Total(returned) \in Nat /\ Total(least) \in Nat
  BY <1>1, <1>2, TotalType
<1>6. /\ DataSize * Total(most) <= DataSize * Total(pushes)
      /\ DataSize * Total(returned) <= DataSize * Total(least)
  BY <1>4, <1>5, Scaled
<1>7. /\ metered \in Nat /\ DataSize * Total(most) \in Nat /\ DataSize * Total(pushes) \in Nat
      /\ DataSize * Total(returned) \in Nat /\ DataSize * Total(least) \in Nat
  BY <1>5 DEF IInv, TypeOK
<1>8. metered <= DataSize * Total(pushes)
  BY <1>6, <1>7 DEF CountInv
<1>9. ~killed => metered >= DataSize * Total(returned)
  BY <1>6, <1>7 DEF CountInv
<1> QED BY <1>8, <1>9 DEF MeteredOnce, returned

(* The meter of RunZero counts the data of every request once, with any    *)
(* number of clients, whatever the interleaving of the parts, the replies  *)
(* and the signals: never more bytes than calls were begun for and, until  *)
(* the server is killed, none missing of a call that has returned.         *)
THEOREM RequestsAreMeteredOnce ==
  ASSUME EmptyHeader = 0
  PROVE  Spec => []Counted
<1>1. Init => CountInv
  BY InitCount
<1>2. IInv /\ IInv' /\ CountInv /\ [Next]_vars => CountInv'
  BY CountStep
<1>3. IInv /\ CountInv => Counted
  BY CountsBound DEF Counted, IInv
<1> QED BY <1>1, <1>2, <1>3, Invariance, PTL DEF Spec

=============================================================================
