--------------------------- MODULE HotelAclProofs ---------------------------
(***************************************************************************)
(* Proofs about the hotel reservation benchmark behind the access control  *)
(* filter: for every window, every way of cutting bodies into pieces,      *)
(* every failure and every period of looking at the clock.                 *)
(***************************************************************************)
EXTENDS HotelAcl, FiniteSetTheorems, TLAPS

Places == {"free", "headers", "proxy", "upstream", "arrived", "answered"}

Calls == [at : Places, who : Readings, size : 1..MaxPieces, come : 0..MaxPieces,
          passed : 0..MaxPieces, ok : BOOLEAN]

(* What holds of a call wherever it is: nothing has passed the filter      *)
(* before the last piece, nothing that reads as danyang's ever, and a good *)
(* answer is never to a call of danyang's.                                 *)
CallSound(r) ==
  /\ r \in Calls
  /\ r.who = "danyang" => r.passed = 0
  /\ r.at \in {"headers", "proxy"} => r.passed = 0 /\ r.come < r.size
  /\ r.at \in {"upstream", "arrived"} => r.who # "danyang"
  /\ r.at = "answered" /\ r.ok => r.who # "danyang"

Arrived == {s \in Slots : call[s].at = "arrived"}
Good == {s \in Slots : call[s].at = "answered" /\ call[s].ok}
UnderWay == {s \in Slots : call[s].at # "free"}

CallsInv == call \in [Slots -> Calls] /\ \A s \in Slots : CallSound(call[s])

(* The object that listens or has taken a call; a call that has arrived is *)
(* with such an object, and every good answer is one the server gave.      *)
ServerInv ==
  /\ finishing \in Nat /\ served \in Nat
  /\ listening \in 0..1 /\ taken \in 0..1 /\ listening + taken = 1
  /\ Cardinality(Arrived) <= taken
  /\ count + Cardinality(Good) <= served

ClockInv == time_cnt \in 0..(Period - 1) /\ timeout \in BOOLEAN /\ expired \in BOOLEAN

(* Every call made is under way or has completed, and is counted once.     *)
TallyInv ==
  /\ {count, overlimit, made, completed, refusals} \subseteq Nat
  /\ made = completed + Cardinality(UnderWay)
  /\ count + overlimit = completed
  /\ refusals <= overlimit

DoneInv == pc \in {"run", "done"} /\ (pc = "done" => \A s \in Slots : call[s].at = "free")

IInv == CallsInv /\ ServerInv /\ ClockInv /\ TallyInv /\ DoneInv

-----------------------------------------------------------------------------
LEMMA Constants == MaxPieces \in Nat \ {0} /\ Period \in Nat \ {0}
BY HotelAssumption

(* Sets of slots are finite.                                               *)
LEMMA Finite ==
  ASSUME NEW S \in SUBSET Slots
  PROVE  IsFiniteSet(S) /\ Cardinality(S) \in Nat
BY HotelAssumption, FS_Subset, FS_CardinalityType

(* Taking a slot out of a set of slots, or adding one.                     *)
LEMMA OneSlot ==
  ASSUME NEW S \in SUBSET Slots, NEW s \in Slots
  PROVE  /\ s \notin S => Cardinality(S \cup {s}) = Cardinality(S) + 1
         /\ s \in S => Cardinality(S \ {s}) = Cardinality(S) - 1
         /\ Cardinality(S \ {s}) <= Cardinality(S)
<1>1. IsFiniteSet(S) /\ Cardinality(S) \in Nat
  BY Finite
<1> DEFINE n == Cardinality(S)
           up == Cardinality(S \cup {s})
           down == Cardinality(S \ {s})
<1>2. up = IF s \in S THEN n ELSE n + 1
  BY <1>1, FS_AddElement
<1>3. down = IF s \in S THEN n - 1 ELSE n
  BY <1>1, FS_RemoveElement
<1>4. n \in Nat
  BY <1>1
<1> HIDE DEF n, up, down
<1>5. /\ s \notin S => up = n + 1
      /\ s \in S => down = n - 1
      /\ down <= n
  BY <1>2, <1>3, <1>4
<1> QED BY <1>5 DEF n, up, down

LEMMA SlotSets == /\ Arrived \in SUBSET Slots /\ Good \in SUBSET Slots /\ UnderWay \in SUBSET Slots
                  /\ Cardinality(Arrived) \in Nat /\ Cardinality(Good) \in Nat
                  /\ Cardinality(UnderWay) \in Nat
BY Finite DEF Arrived, Good, UnderWay

(* A new call, that reads as w, with a body of n pieces.                   *)
NewCall(w, n) == [Free EXCEPT !.at = "headers", !.who = w, !.size = n]

LEMMA NewCallsAre == NewCalls = {NewCall(w, n) : w \in Readings, n \in 1..MaxPieces}
BY DEF NewCalls, NewCall

(* A new call is sound, and the filter has yet to see its headers.         *)
LEMMA NewCallSound ==
  ASSUME NEW r \in NewCalls
  PROVE  CallSound(r) /\ r.at = "headers"
<1>1. PICK w \in Readings, n \in 1..MaxPieces : r = NewCall(w, n)
  BY NewCallsAre
<1>2. r = [at |-> "headers", who |-> w, size |-> n, come |-> 0, passed |-> 0, ok |-> FALSE]
  BY <1>1 DEF Free, NewCall
<1> QED BY <1>2, Constants DEF CallSound, Calls, Places

LEMMA FreeSound == CallSound(Free) /\ Free.at = "free"
BY Constants DEF CallSound, Calls, Places, Free, Readings

(* What a step of one slot does to the calls.                              *)
LEMMA OneCall ==
  ASSUME CallsInv, NEW s \in Slots, NEW r, CallSound(r), call' = [call EXCEPT ![s] = r]
  PROVE  /\ CallsInv'
         /\ call'[s] = r
         /\ \A t \in Slots : t # s => call'[t] = call[t]
<1>1. call' \in [Slots -> Calls]
  BY DEF CallsInv, CallSound
<1>2. call'[s] = r /\ \A t \in Slots : t # s => call'[t] = call[t]
  BY DEF CallsInv
<1>3. \A t \in Slots : CallSound(call'[t])
  BY <1>2 DEF CallsInv
<1> QED BY <1>1, <1>2, <1>3 DEF CallsInv, CallSound

(* A step that moves one call on disturbs no count but that of the good    *)
(* answers, and not even that unless the call becomes or was one.          *)
LEMMA MoveOn ==
  ASSUME IInv, NEW s \in Slots, NEW r, CallSound(r),
         call' = [call EXCEPT ![s] = r], call[s].at # "free", r.at # "free",
         UNCHANGED <<client, expired>>
  PROVE  /\ CallsInv' /\ TallyInv' /\ DoneInv' /\ ClockInv'
         /\ r.at # "arrived" => Arrived' = Arrived \ {s}
         /\ r.at = "arrived" => Arrived' = Arrived \cup {s}
         /\ ~(r.at = "answered" /\ r.ok) => Good' = Good \ {s}
<1>1. CallsInv' /\ call'[s] = r /\ \A t \in Slots : t # s => call'[t] = call[t]
  BY OneCall DEF IInv
<1>2. UnderWay' = UnderWay
  BY <1>1 DEF UnderWay
<1>3. TallyInv' /\ ClockInv'
  BY <1>2 DEF IInv, TallyInv, ClockInv, client
<1>4. DoneInv'
  BY DEF IInv, DoneInv, client
<1>5. /\ r.at # "arrived" => Arrived' = Arrived \ {s}
      /\ r.at = "arrived" => Arrived' = Arrived \cup {s}
  BY <1>1 DEF Arrived
<1>6. ~(r.at = "answered" /\ r.ok) => Good' = Good \ {s}
  BY <1>1 DEF Good
<1> QED BY <1>1, <1>3, <1>4, <1>5, <1>6

(* A step that moves one call on, and neither to the server nor to a good  *)
(* answer, keeps the invariant.                                            *)
LEMMA MoveAside ==
  ASSUME IInv, NEW s \in Slots, NEW r, CallSound(r),
         call' = [call EXCEPT ![s] = r], call[s].at # "free", r.at \notin {"free", "arrived"},
         ~(r.at = "answered" /\ r.ok), UNCHANGED <<client, server, expired>>
  PROVE  IInv'
<1>1. /\ CallsInv' /\ TallyInv' /\ DoneInv' /\ ClockInv'
      /\ Arrived' = Arrived \ {s} /\ Good' = Good \ {s}
  BY MoveOn
<1>2. /\ Cardinality(Arrived') <= Cardinality(Arrived) /\ Cardinality(Good') <= Cardinality(Good)
      /\ Cardinality(Arrived) \in Nat /\ Cardinality(Good) \in Nat
      /\ Cardinality(Arrived') \in Nat /\ Cardinality(Good') \in Nat
  BY <1>1, OneSlot, SlotSets, Finite
<1>3. ServerInv'
  BY <1>2 DEF IInv, ServerInv, TallyInv, client, server
<1> QED BY <1>1, <1>3 DEF IInv

-----------------------------------------------------------------------------
LEMMA InitInv == Init => IInv
<1> SUFFICES ASSUME Init PROVE IInv
  OBVIOUS
<1>1. \A s \in Slots : call[s] \in NewCalls
  BY DEF Init
<1>2. \A s \in Slots : CallSound(call[s]) /\ call[s].at = "headers"
  BY <1>1, NewCallSound
<1>3. CallsInv
  <2>1. NewCalls \subseteq Calls
    BY NewCallSound DEF CallSound
  <2> QED BY <1>2, <2>1 DEF Init, CallsInv
<1>4. Arrived = {} /\ Good = {} /\ UnderWay = Slots
  BY <1>2 DEF Arrived, Good, UnderWay
<1>5. ServerInv
  BY <1>4, FS_EmptySet DEF Init, ServerInv
<1>6. TallyInv
  BY <1>4, Finite DEF Init, TallyInv
<1>7. ClockInv
  <2>1. 0 \in 0..(Period - 1)
    BY Constants
  <2> QED BY <2>1 DEF Init, ClockInv
<1>8. DoneInv
  BY DEF Init, DoneInv
<1> QED BY <1>3, <1>5, <1>6, <1>7, <1>8 DEF IInv

LEMMA HeadersInv == ASSUME IInv, NEW s \in Slots, Headers(s) PROVE IInv'
<1> DEFINE r == call[s]
           q == [r EXCEPT !.at = "proxy"]
<1>1. r.at = "headers" /\ call' = [call EXCEPT ![s] = q]
  BY DEF Headers
<1>2. r \in Calls /\ CallSound(r)
  BY DEF IInv, CallsInv
<1>3. CallSound(q) /\ q.at = "proxy"
  BY <1>1, <1>2 DEF CallSound, Calls, Places
<1> HIDE DEF q
<1> QED BY <1>1, <1>3, MoveAside DEF Headers

LEMMA FailInv == ASSUME IInv, NEW s \in Slots, Fail(s) PROVE IInv'
<1> DEFINE r == call[s]
           q == [r EXCEPT !.at = "answered", !.ok = FALSE]
<1>1. r.at # "free" /\ call' = [call EXCEPT ![s] = q]
  BY DEF Fail
<1>2. r \in Calls /\ CallSound(r)
  BY DEF IInv, CallsInv
<1>3. CallSound(q) /\ q.at = "answered" /\ ~q.ok
  BY <1>1, <1>2 DEF CallSound, Calls, Places
<1> HIDE DEF q
<1> QED BY <1>1, <1>3, MoveAside DEF Fail

LEMMA FilterInv == ASSUME IInv, NEW s \in Slots, Filter(s) PROVE IInv'
<1> DEFINE r == call[s]
<1> DEFINE q == IF r.come + 1 < r.size THEN PauseEarly(r)
                ELSE IF Refused(r) THEN LocalReply(r)
                ELSE [r EXCEPT !.come = r.size, !.passed = r.size, !.at = "upstream"]
<1>1. r.at = "proxy" /\ call' = [call EXCEPT ![s] = q]
  BY DEF Filter
<1>2. r \in Calls /\ CallSound(r)
  BY DEF IInv, CallsInv
<1>3. CallSound(q) /\ (q.at \in {"proxy", "upstream"} \/ (q.at = "answered" /\ ~q.ok))
  <2>1. CASE r.come + 1 < r.size
    BY <1>1, <1>2, <2>1, Constants DEF CallSound, Calls, Places, PauseEarly
  <2>2. CASE ~(r.come + 1 < r.size) /\ Refused(r)
    BY <1>1, <1>2, <2>2 DEF CallSound, Calls, Places, LocalReply, Refused
  <2>3. CASE ~(r.come + 1 < r.size) /\ ~Refused(r)
    <3>1. r.who # "danyang"
      BY <1>1, <1>2, <2>3 DEF CallSound, Calls, Refused
    <3>2. q = [r EXCEPT !.come = r.size, !.passed = r.size, !.at = "upstream"]
      BY <2>3
    <3>3. r.size \in 0..MaxPieces
      BY <1>2, Constants DEF Calls
    <3>4. q \in Calls /\ q.at = "upstream" /\ q.who = r.who
      BY <1>2, <3>2, <3>3 DEF Calls, Places
    <3> QED BY <3>1, <3>4 DEF CallSound
  <2> QED BY <2>1, <2>2, <2>3
<1> HIDE DEF q
<1> QED BY <1>1, <1>3, MoveAside DEF Filter

LEMMA MatchInv == ASSUME IInv, NEW s \in Slots, Match(s) PROVE IInv'
<1> DEFINE r == call[s]
           q == [r EXCEPT !.at = "arrived"]
<1>1. r.at = "upstream" /\ call' = [call EXCEPT ![s] = q]
  BY DEF Match
<1>2. r \in Calls /\ CallSound(r)
  BY DEF IInv, CallsInv
<1>3. CallSound(q) /\ q.at = "arrived"
  BY <1>1, <1>2 DEF CallSound, Calls, Places
<1> HIDE DEF q
<1>4. /\ CallsInv' /\ TallyInv' /\ DoneInv' /\ ClockInv'
      /\ Arrived' = Arrived \cup {s} /\ Good' = Good \ {s}
  BY <1>1, <1>3, MoveOn DEF Match
<1>5. s \notin Arrived
  BY <1>1 DEF Arrived
<1>6. /\ Cardinality(Arrived') = Cardinality(Arrived) + 1 /\ Cardinality(Good') <= Cardinality(Good)
      /\ Cardinality(Arrived) \in Nat /\ Cardinality(Good) \in Nat /\ Cardinality(Good') \in Nat
  BY <1>4, <1>5, OneSlot, SlotSets, Finite
<1>7. ServerInv'
  BY <1>6 DEF IInv, ServerInv, TallyInv, Match, client
<1> QED BY <1>4, <1>7 DEF IInv

(* The server answers the call it has taken, if that is still waiting: the *)
(* good answers are one more at most, and so is what it has served.        *)
LEMMA ProcessInv == IInv /\ Process => IInv'
<1> SUFFICES ASSUME IInv, Process PROVE IInv'
  OBVIOUS
<1> DEFINE q(s) == [call[s] EXCEPT !.at = "answered", !.ok = TRUE]
<1>1. /\ call' = [s \in Slots |-> IF call[s].at = "arrived" THEN q(s) ELSE call[s]]
      /\ UNCHANGED <<client, expired>>
  BY DEF Process
<1>2. \A s \in Slots : call[s] \in Calls /\ CallSound(call[s])
  BY DEF IInv, CallsInv
<1>3. \A s \in Arrived : CallSound(q(s)) /\ q(s).at = "answered" /\ q(s).ok
  BY <1>2 DEF Arrived, CallSound, Calls, Places
<1> HIDE DEF q
<1>4. \A s \in Slots : /\ s \in Arrived => call'[s] = q(s)
                       /\ s \notin Arrived => call'[s] = call[s]
  BY <1>1 DEF Arrived
<1>5. CallsInv'
  <2>1. \A s \in Slots : CallSound(call'[s]) /\ call'[s] \in Calls
    BY <1>2, <1>3, <1>4 DEF CallSound
  <2>2. call' \in [Slots -> Calls]
    BY <1>1, <2>1
  <2> QED BY <2>1, <2>2 DEF CallsInv, CallSound
<1>6. Arrived' = {} /\ Good' = Good \cup Arrived /\ UnderWay' = UnderWay
  <2>1. \A s \in Slots : call'[s].at # "arrived"
    BY <1>3, <1>4 DEF Arrived
  <2>2. \A s \in Slots : /\ (call'[s].at = "answered" /\ call'[s].ok) <=> s \in Good \cup Arrived
                         /\ call'[s].at # "free" <=> call[s].at # "free"
    BY <1>3, <1>4 DEF Arrived, Good
  <2> QED BY <2>1, <2>2 DEF Arrived, Good, UnderWay
<1>7. TallyInv' /\ ClockInv'
  BY <1>1, <1>6 DEF IInv, TallyInv, ClockInv, client
<1>8. DoneInv'
  BY <1>1, <1>4, <1>6 DEF IInv, DoneInv, client, UnderWay
<1>9. /\ Cardinality(Good') <= Cardinality(Good) + Cardinality(Arrived)
      /\ Cardinality(Good') \in Nat /\ Cardinality(Good) \in Nat /\ Cardinality(Arrived) \in Nat
      /\ Cardinality(Arrived') = 0
  <2>1. IsFiniteSet(Good) /\ IsFiniteSet(Arrived)
    BY SlotSets, Finite
  <2>2. /\ IsFiniteSet(Good \cap Arrived) /\ Cardinality(Good \cap Arrived) \in Nat
        /\ IsFiniteSet(Good \cup Arrived) /\ Cardinality(Good \cup Arrived) \in Nat
    BY SlotSets, Finite
  <2>3. Cardinality(Good \cup Arrived) = Cardinality(Good) + Cardinality(Arrived) - Cardinality(Good \cap Arrived)
    BY <2>1, FS_Union
  <2> QED BY <1>6, <2>2, <2>3, SlotSets, FS_EmptySet
<1>10. ServerInv'
  <2>1. /\ taken > 0 /\ taken' = taken - 1 /\ listening' = listening + 1
        /\ finishing' = finishing + 1 /\ served' = served + 1 /\ count' = count
    BY DEF Process, Renewed, client
  <2>2. /\ count \in Nat /\ served \in Nat /\ finishing \in Nat
        /\ listening \in 0..1 /\ taken \in 0..1 /\ listening + taken = 1
        /\ Cardinality(Arrived) <= taken /\ count + Cardinality(Good) <= served
    BY DEF IInv, ServerInv, TallyInv
  <2> QED BY <1>9, <2>1, <2>2 DEF ServerInv
<1> QED BY <1>5, <1>7, <1>8, <1>10 DEF IInv

(* The call of one completion is counted once, and replaced or not.        *)
LEMMA CqNextInv == ASSUME IInv, NEW s \in Slots, CqNext(s) PROVE IInv'
<1>1. /\ CallsInv /\ TallyInv /\ call[s].at = "answered" /\ pc = "run" /\ CallSound(call[s])
      /\ UNCHANGED <<listening, taken, finishing, served>>
  BY DEF IInv, CallsInv, CqNext, server
<1>2. ClockInv'
  BY Constants DEF IInv, ClockInv, CqNext, LookAtClock
<1>3. \E r : /\ CallSound(r) /\ call' = [call EXCEPT ![s] = r]
             /\ \/ /\ r.at = "free" /\ made' = made
                   /\ pc' = IF \A t \in Slots \ {s} : call[t].at = "free" THEN "done" ELSE pc
                \/ r.at = "headers" /\ made' = made + 1 /\ pc' = pc
  <2>1. CASE timeout'
    BY <2>1, FreeSound DEF CqNext, Renew
  <2>2. CASE ~timeout'
    <3>1. PICK r \in NewCalls : call' = [call EXCEPT ![s] = r] /\ made' = made + 1 /\ pc' = pc
      BY <2>2 DEF CqNext, Renew
    <3> QED BY <3>1, NewCallSound
  <2> QED BY <2>1, <2>2
<1>4. PICK r : /\ CallSound(r) /\ call' = [call EXCEPT ![s] = r]
               /\ \/ /\ r.at = "free" /\ made' = made
                     /\ pc' = IF \A t \in Slots \ {s} : call[t].at = "free" THEN "done" ELSE pc
                  \/ r.at = "headers" /\ made' = made + 1 /\ pc' = pc
  BY <1>3
<1>5. CallsInv' /\ call'[s] = r /\ \A t \in Slots : t # s => call'[t] = call[t]
  BY <1>1, <1>4, OneCall
<1>6. DoneInv'
  BY <1>1, <1>4, <1>5 DEF IInv, DoneInv
<1>7. /\ Arrived' = Arrived /\ Good' = Good \ {s}
      /\ s \in Good <=> call[s].ok
      /\ s \in UnderWay
      /\ UnderWay' = IF r.at = "free" THEN UnderWay \ {s} ELSE UnderWay
  BY <1>1, <1>4, <1>5 DEF Arrived, Good, UnderWay
<1>8. /\ Cardinality(Good') = IF call[s].ok THEN Cardinality(Good) - 1 ELSE Cardinality(Good)
      /\ Cardinality(UnderWay') = IF r.at = "free" THEN Cardinality(UnderWay) - 1 ELSE Cardinality(UnderWay)
      /\ Cardinality(Good) \in Nat /\ Cardinality(UnderWay) \in Nat /\ Cardinality(Arrived) \in Nat
  <2>1. s \notin Good => Good \ {s} = Good
    OBVIOUS
  <2> QED BY <1>7, <2>1, OneSlot, SlotSets
<1>9. /\ count' = IF call[s].ok THEN count + 1 ELSE count
      /\ overlimit' = IF call[s].ok THEN overlimit ELSE overlimit + 1
      /\ completed' = completed + 1
      /\ refusals' = IF call[s].who = "danyang" THEN refusals + 1 ELSE refusals
      /\ call[s].who = "danyang" => ~call[s].ok
  BY <1>1 DEF CqNext, CallSound
<1>10. ServerInv'
  BY <1>1, <1>7, <1>8, <1>9 DEF IInv, ServerInv, TallyInv
<1>11. made' = completed' + Cardinality(UnderWay') /\ made' \in Nat
  BY <1>1, <1>4, <1>8, <1>9 DEF TallyInv
<1>12. TallyInv'
  BY <1>1, <1>9, <1>11 DEF TallyInv
<1> QED BY <1>2, <1>5, <1>6, <1>10, <1>12 DEF IInv

LEMMA FinishInv == IInv /\ Finish => IInv'
<1> SUFFICES ASSUME IInv, Finish PROVE IInv'
  OBVIOUS
<1>1. /\ UNCHANGED <<client, listening, taken, served, call, expired>>
      /\ finishing' = finishing - 1 /\ finishing > 0
  BY DEF Finish
<1>2. CallsInv' /\ TallyInv' /\ DoneInv' /\ ClockInv'
  BY <1>1 DEF IInv, CallsInv, TallyInv, DoneInv, ClockInv, UnderWay, client
<1>3. ServerInv'
  BY <1>1 DEF IInv, ServerInv, Arrived, Good, client
<1> QED BY <1>2, <1>3 DEF IInv

LEMMA ExpireInv == IInv /\ Expire => IInv'
<1> SUFFICES ASSUME IInv, Expire PROVE IInv'
  OBVIOUS
<1>1. UNCHANGED <<client, server, call>> /\ expired' = TRUE
  BY DEF Expire
<1>2. CallsInv' /\ TallyInv' /\ DoneInv' /\ ServerInv'
  BY <1>1 DEF IInv, CallsInv, TallyInv, DoneInv, ServerInv, UnderWay, Arrived, Good, client, server
<1>3. ClockInv'
  BY <1>1 DEF IInv, ClockInv, client
<1> QED BY <1>2, <1>3 DEF IInv

(* The inductive invariant: every call is accounted for although any call  *)
(* may fail at any moment, what the filter lets through does not read as   *)
(* danyang's, and good answers are the server's.                           *)
THEOREM Invariance == Spec => []IInv
<1>1. IInv /\ UNCHANGED vars => IInv'
  BY DEF IInv, CallsInv, ServerInv, ClockInv, TallyInv, DoneInv, UnderWay, Arrived, Good, vars, client, server
<1>2. IInv /\ [Next]_vars => IInv'
  BY <1>1, HeadersInv, FilterInv, FailInv, MatchInv, ProcessInv, CqNextInv, FinishInv, ExpireInv
     DEF Next, HandleRpcs
<1> QED BY <1>2, InitInv, PTL DEF Spec

-----------------------------------------------------------------------------
(* on_http_request_body lets no piece of a body upstream in which it reads *)
(* the refused customer, into however many pieces that is cut.             *)
THEOREM NothingPasses == Spec => []AclHolds
<1>1. IInv => AclHolds
  BY DEF IInv, CallsInv, CallSound, AclHolds
<1> QED BY <1>1, Invariance, PTL

(* Whichever calls fail, every completion is counted once, a refused call  *)
(* never as a success and no success without an answer of the server; the  *)
(* client ends with no call under way, and one object of the server is     *)
(* there for the next call at every moment.                                *)
THEOREM AllAccounted == Spec => []Accounted
<1>1. ASSUME IInv PROVE TypeOK
  BY <1>1 DEF IInv, CallsInv, ServerInv, ClockInv, TallyInv, DoneInv, TypeOK, Calls, Places
<1>2. ASSUME IInv PROVE CountsSound /\ OneListener
  BY <1>2 DEF IInv, ServerInv, TallyInv, CountsSound, OneListener, Good
<1>3. ASSUME IInv, pc = "done" PROVE completed = made
  <2>1. UnderWay = {}
    BY <1>3 DEF IInv, DoneInv, UnderWay
  <2> QED BY <1>3, <2>1, FS_EmptySet DEF IInv, TallyInv
<1>4. IInv => Accounted
  BY <1>1, <1>2, <1>3 DEF Accounted, Drained
<1> QED BY <1>4, Invariance, PTL

=============================================================================
