------------------------------ MODULE HotelAcl ------------------------------
(***************************************************************************)
(* The hotel reservation benchmark as the experiments run it: the client   *)
(* keeps a window of asynchronous calls, a proxy with the content-based    *)
(* access control filter refuses those of one customer, and one thread     *)
(* serves the others.                                                      *)
(*                                                                         *)
(* The proxy and gRPC are external: a body reaches the filter in pieces,   *)
(* after Pause the pieces are buffered and shown again with the next one,  *)
(* after Continue what is there goes upstream; answers come in any order,  *)
(* and a call may fail at any moment until the client sees its answer.     *)
(***************************************************************************)
EXTENDS Naturals, FiniteSets

CONSTANTS
  Slots,      \* room for opts_.concurrency objects AsyncClientCall
  MaxPieces,  \* bound on the pieces of a body
  Period,     \* time_period: completions between two looks at the clock
  MaxDone     \* bound on the completions within the time of the run

ASSUME HotelAssumption == IsFiniteSet(Slots) /\ {MaxPieces, Period, MaxDone} \subseteq Nat \ {0}

(* What the filter reads in the whole body: a customer, or nothing, when   *)
(* get_http_request_body returns None or decode fails.                     *)
Readings == {"danyang", "matt", "unread"}

VARIABLES
  pc,         \* "run", "done"
  call,       \* per slot: whose call it is and where it is
  count,      \* count
  overlimit,  \* overlimit
  time_cnt,   \* time_cnt
  timeout,    \* timeout
  expired,    \* now - start > time_dura
  listening,  \* AsyncServerCall objects in RequestMakeReservation
  taken,      \* AsyncServerCall objects whose request has come, not yet in PROCESS
  finishing,  \* AsyncServerCall objects in Finish
  served,     \* history: calls the server has answered
  made,       \* history: calls made
  completed,  \* history: calls whose completion the client has seen
  refusals    \* history: of these, the calls that read as danyang's

server == <<listening, taken, finishing, served>>
client == <<pc, count, overlimit, time_cnt, timeout, made, completed, refusals>>
vars == <<client, server, call, expired>>

(* at: "free", "headers", "proxy", "upstream", "arrived" (at the server),  *)
(* "answered"; who: what the whole body reads as; size: its pieces, come:  *)
(* those the filter has seen, passed: those that went upstream; ok: the    *)
(* status.                                                                 *)
Free == [at |-> "free", who |-> "matt", size |-> 1, come |-> 0, passed |-> 0, ok |-> FALSE]

(* GenerateWorkload picks a request; whether it can be read and how the    *)
(* network cuts its body is anyone's guess.                                *)
NewCalls == {[Free EXCEPT !.at = "headers", !.who = w, !.size = n] : w \in Readings, n \in 1..MaxPieces}

(* The loop that fills the window is over before the first Next.           *)
Init ==
  /\ call \in [Slots -> NewCalls]
  /\ made = Cardinality(Slots) /\ completed = 0 /\ refusals = 0
  /\ pc = "run"
  /\ count = 0 /\ overlimit = 0
  /\ time_cnt = 0 /\ timeout = FALSE /\ expired = FALSE
  /\ listening = 1 /\ taken = 0 /\ finishing = 0 /\ served = 0

(* on_http_request_headers lets the headers go upstream at once. A unary   *)
(* call has a message, so they do not end the stream.                      *)
Headers(s) ==
  /\ call[s].at = "headers"
  /\ call' = [call EXCEPT ![s].at = "proxy"]
  /\ UNCHANGED <<client, server, expired>>

(* on_http_request_body before the last piece, and with it.                *)
ContinueEarly(r) == [r EXCEPT !.come = @ + 1, !.passed = @ + 1]
PauseEarly(r) == [r EXCEPT !.come = @ + 1]

(* The customer is read in a whole body only: decode fails on the rest of  *)
(* one, and then, or without a body, the request is let through.           *)
Refused(r) == r.passed = 0 /\ r.who = "danyang"

(* send_http_response and Pause: the caller gets a status of its own.      *)
LocalReplyOk(r) == [r EXCEPT !.at = "answered", !.ok = TRUE]
LocalReply(r) == [r EXCEPT !.at = "answered", !.ok = FALSE]

Filter(s) ==
  LET r == call[s] IN
  /\ r.at = "proxy"
  /\ call' = [call EXCEPT ![s] =
       IF r.come + 1 < r.size THEN PauseEarly(r)
       ELSE IF Refused(r) THEN LocalReply(r)
       ELSE [r EXCEPT !.come = r.size, !.passed = r.size, !.at = "upstream"]]
  /\ UNCHANGED <<client, server, expired>>

(* The connection, the proxy or the server fails a call, at the latest     *)
(* while its answer is on the way; the server keeps what it has of it.     *)
Fail(s) ==
  /\ call[s].at # "free" /\ (call[s].at = "answered" => call[s].ok)
  /\ call' = [call EXCEPT ![s].at = "answered", ![s].ok = FALSE]
  /\ UNCHANGED <<client, server, expired>>

(* A call meets a RequestMakeReservation.                                  *)
Match(s) ==
  /\ call[s].at = "upstream"
  /\ listening > 0
  /\ listening' = listening - 1
  /\ taken' = taken + 1
  /\ call' = [call EXCEPT ![s].at = "arrived"]
  /\ UNCHANGED <<client, finishing, served, expired>>

(* new AsyncServerCall(service_, cq_), whose Proceed requests a call.      *)
NotRenewed == listening' = listening
Renewed == listening' = listening + 1

(* Proceed of an object in PROCESS: the call it has taken is answered if   *)
(* it has not failed meanwhile; and of one in FINISH.                      *)
Process ==
  /\ taken > 0
  /\ taken' = taken - 1
  /\ Renewed
  /\ finishing' = finishing + 1
  /\ served' = served + 1
  /\ call' = [s \in Slots |-> IF call[s].at = "arrived"
                             THEN [call[s] EXCEPT !.at = "answered", !.ok = TRUE] ELSE call[s]]
  /\ UNCHANGED <<client, expired>>

Finish ==
  /\ finishing > 0
  /\ finishing' = finishing - 1
  /\ UNCHANGED <<client, listening, taken, served, call, expired>>

(* The clock is read once in time_period completions.                      *)
LookAtClock ==
  IF time_cnt + 1 >= Period THEN time_cnt' = 0 /\ timeout' = expired
                            ELSE time_cnt' = time_cnt + 1 /\ UNCHANGED timeout

(* The next call in the place of the one deleted; without one the loop     *)
(* goes on while req_cnt > 0.                                              *)
Renew(s) ==
  IF timeout' THEN /\ call' = [call EXCEPT ![s] = Free]
                   /\ UNCHANGED made
                   /\ pc' = IF \A t \in Slots \ {s} : call[t].at = "free" THEN "done" ELSE pc
              ELSE \E r \in NewCalls : /\ call' = [call EXCEPT ![s] = r]
                                       /\ made' = made + 1
                                       /\ UNCHANGED pc

(* One completion in the loop of Run; whatever is not OK is overlimit.     *)
CqNext(s) ==
  /\ pc = "run"
  /\ call[s].at = "answered"
  /\ completed < MaxDone \/ expired
  /\ IF call[s].ok THEN count' = count + 1 /\ UNCHANGED overlimit
                   ELSE overlimit' = overlimit + 1 /\ UNCHANGED count
  /\ completed' = completed + 1
  /\ refusals' = IF call[s].who = "danyang" THEN refusals + 1 ELSE refusals
  /\ LookAtClock
  /\ Renew(s)
  /\ UNCHANGED <<expired, server>>

Expire ==
  /\ ~expired
  /\ expired' = TRUE
  /\ UNCHANGED <<client, server, call>>

(* HandleRpcs takes what the completion queue has, in any order.           *)
HandleRpcs == Process \/ Finish

Next == HandleRpcs \/ Expire \/ \E s \in Slots : Headers(s) \/ Filter(s) \/ Fail(s) \/ Match(s) \/ CqNext(s)

Spec == Init /\ [][Next]_vars

(* The proxy, the server thread and the client run, and time passes; no    *)
(* call has to fail.                                                       *)
LiveSpec ==
  /\ Spec
  /\ WF_vars(HandleRpcs) /\ WF_vars(Expire) /\ WF_vars(\E s \in Slots : Match(s))
  /\ \A s \in Slots : WF_vars(Headers(s) \/ Filter(s)) /\ WF_vars(CqNext(s))

-----------------------------------------------------------------------------
(* Every variable keeps its type.                                          *)
TypeOK ==
  /\ pc \in {"run", "done"}
  /\ call \in [Slots -> [at : {"free", "headers", "proxy", "upstream", "arrived", "answered"},
                         who : Readings, size : 1..MaxPieces, come : 0..MaxPieces,
                         passed : 0..MaxPieces, ok : BOOLEAN]]
  /\ {count, overlimit, finishing, served, made, completed, refusals} \subseteq Nat
  /\ time_cnt \in 0..(Period - 1) /\ listening \in 0..1 /\ taken \in 0..1
  /\ timeout \in BOOLEAN /\ expired \in BOOLEAN

(* Not a piece of a body that reads as danyang's goes upstream, however it *)
(* is cut: on_http_request_body holds every piece until it has the last.   *)
(* (The headers have gone, and so does a body the filter cannot read.)     *)
AclHolds == \A s \in Slots : call[s].who = "danyang" => call[s].passed = 0

(* What the client prints: every completion is in count or in overlimit,   *)
(* once; every refused call is in overlimit, whatever else failed; and     *)
(* count, with the good answers on the way, is backed by calls the server  *)
(* did answer.                                                             *)
CountsSound ==
  /\ count + overlimit = completed
  /\ refusals <= overlimit
  /\ count + Cardinality({s \in Slots : call[s].at = "answered" /\ call[s].ok}) <= served

(* When the client ends, every call it made has completed.                 *)
Drained == pc = "done" => completed = made

(* One object, no more and no less, is there to take the next call: it     *)
(* listens, or has taken a call, perhaps a failed one, and has not yet     *)
(* been replaced.                                                          *)
OneListener == listening + taken = 1

(* The client ends after its time.                                         *)
Ends == <>(pc = "done")

(* The counts, the window and the server's objects agree at every moment.  *)
Accounted == TypeOK /\ CountsSound /\ Drained /\ OneListener

=============================================================================
