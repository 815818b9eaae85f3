----------------------------- MODULE GrpcAsync ------------------------------
(***************************************************************************)
(* The asynchronous gRPC benchmarks: the clients of the latency and of the *)
(* throughput application (the hotel reservation client is the latter with *)
(* another message) against the server both share, GrpcLatServerApp, whose *)
(* threads each serve one completion queue with AsyncServerCall objects    *)
(* that create their own successor and delete themselves.                  *)
(*                                                                         *)
(* Messages carry no data here.  Call objects of either side are named by  *)
(* their addresses, which are used again after delete.  The gRPC library   *)
(* (channels, matching of calls, completion queues) is external.           *)
(***************************************************************************)
EXTENDS Integers, FiniteSets

CONSTANTS
  Workers,      \* client threads: Job(thread_id), or the one of latency
  Kinds,        \* subset of {"latency", "throughput"}: the application
  Concurrency,  \* opts_.concurrency of a throughput client
  Period,       \* time_period: completions between two looks at the clock
  MayFail,      \* the server may crash and a proxy may refuse calls
  Threads,      \* server threads, one completion queue each
  Addresses,    \* where the server's AsyncServerCall objects may be
  None          \* no call, no thread

ASSUME KindAssumption == Kinds \subseteq {"latency", "throughput"} /\ MayFail \in BOOLEAN
ASSUME WindowAssumption ==
  /\ Concurrency \in Nat
  /\ Period \in Nat \ {0}

(* Addresses of a worker's calls: one more than it should ever need.       *)
Slots == 1..(Concurrency + 1)

ASSUME NoneAssumption ==
  None \notin Workers \cup Threads \cup Addresses \cup (Workers \X Slots)

VARIABLES
  \* The clients.
  kind,     \* the application, --app
  wpc,      \* "fill" (issuing the first calls), "loop", "done", "crashed"
  reqCnt,   \* req_cnt
  timeCnt,  \* time_cnt
  timeout,  \* timeout
  expired,  \* now - start > time_dura
  measured, \* a call has succeeded: latencies, or count, is not empty
  call,     \* per worker and address: "free", then where the call is:
            \* "sent", "bound" to a server object, "ok" or "failed" in cq_
  \* The server.
  up,       \* the process is running
  status,   \* per object: "FREE", "PROCESS" or "FINISH" (CREATE does not last)
  thread,   \* per object, the thread whose cq_ it uses
  op,       \* per object, its operation under way: "none", "request", "finish"
  serves,   \* per object, the call it was given, <<worker, address>>
  cq        \* per thread, the objects whose operation has completed

clientVars == <<kind, wpc, reqCnt, timeCnt, timeout, expired, measured>>
objectVars == <<status, thread, op, serves>>
vars       == <<clientVars, call, up, objectVars, cq>>

(* A latency client has one call under way.                                *)
Window == IF kind = "latency" THEN 1 ELSE Concurrency

Outstanding(w) == {s \in Slots : call[w][s] # "free"}
Completed(w)   == {s \in Slots : call[w][s] \in {"ok", "failed"}}

-----------------------------------------------------------------------------
(* new AsyncClientCall: StartCall and Finish, at any free address.         *)
NewCall(calls) ==
  {[calls EXCEPT ![s] = "sent"] : s \in {r \in Slots : calls[r] = "free"}}

(* The loop that fills the window before the first Next.                   *)
Fill(w) ==
  /\ wpc[w] = "fill"
  /\ IF reqCnt[w] < Window
       THEN /\ \E cs \in NewCall(call[w]) : call' = [call EXCEPT ![w] = cs]
            /\ reqCnt' = [reqCnt EXCEPT ![w] = @ + 1]
            /\ UNCHANGED wpc
       ELSE /\ wpc' = [wpc EXCEPT ![w] = "loop"]
            /\ UNCHANGED <<call, reqCnt>>
  /\ UNCHANGED <<kind, timeCnt, timeout, expired, measured, up, objectVars, cq>>

(* The throughput client looks at the clock once in Period completions,    *)
(* whether they succeeded or not; the latency client after each success    *)
(* (its else belongs to the whole of the measurement).                     *)
LookNever(w, s) ==
  /\ UNCHANGED timeout
  /\ timeCnt' = [timeCnt EXCEPT ![w] = 0]
LookAtClock(w, s) ==
  IF kind = "latency"
    THEN /\ timeout' = [timeout EXCEPT ![w] = IF call[w][s] = "ok" THEN expired[w] ELSE @]
         /\ UNCHANGED timeCnt
    ELSE IF timeCnt[w] + 1 >= Period
           THEN /\ timeCnt' = [timeCnt EXCEPT ![w] = 0]
                /\ timeout' = [timeout EXCEPT ![w] = expired[w]]
           ELSE /\ timeCnt' = [timeCnt EXCEPT ![w] = @ + 1]
                /\ UNCHANGED timeout

(* One completion: the call is deleted (the latency client drops it, which *)
(* is a leak but no address is used again) and replaced until the time is  *)
(* up.                                                                     *)
HandleAndForget(w, s) ==
  /\ LookAtClock(w, s)
  /\ measured' = [measured EXCEPT ![w] = @ \/ call[w][s] = "ok"]
  /\ IF timeout'[w]
       THEN /\ call' = [call EXCEPT ![w][s] = "free"]
            /\ reqCnt' = [reqCnt EXCEPT ![w] = 0]
       ELSE /\ \E cs \in NewCall([call[w] EXCEPT ![s] = "free"]) :
                 call' = [call EXCEPT ![w] = cs]
            /\ UNCHANGED reqCnt
Handle(w, s) ==
  /\ LookAtClock(w, s)
  /\ measured' = [measured EXCEPT ![w] = @ \/ call[w][s] = "ok"]
  /\ IF timeout'[w]
       THEN /\ call' = [call EXCEPT ![w][s] = "free"]
            /\ reqCnt' = [reqCnt EXCEPT ![w] = @ - 1]
       ELSE /\ \E cs \in NewCall([call[w] EXCEPT ![s] = "free"]) :
                 call' = [call EXCEPT ![w] = cs]
            /\ UNCHANGED reqCnt

(* After the loop: print() of the latency client indexes the percentiles,  *)
(* and latencies[len - 1], which an empty vector does not have.            *)
AfterLoop(w) == IF kind = "latency" /\ ~measured[w] THEN "crashed" ELSE "done"

(* while (req_cnt > 0 && cq_->Next(&tag, &ok)).                            *)
CqNext(w) ==
  /\ wpc[w] = "loop"
  /\ IF reqCnt[w] > 0
       THEN /\ \E s \in Completed(w) : Handle(w, s)
            /\ UNCHANGED wpc
       ELSE /\ wpc' = [wpc EXCEPT ![w] = AfterLoop(w)]
            /\ UNCHANGED <<timeCnt, timeout, measured, call, reqCnt>>
  /\ UNCHANGED <<kind, expired, up, objectVars, cq>>

Worker(w) == Fill(w) \/ CqNext(w)

(* The time of the run is over.                                            *)
Expire(w) ==
  /\ ~expired[w]
  /\ expired' = [expired EXCEPT ![w] = TRUE]
  /\ UNCHANGED <<kind, wpc, reqCnt, timeCnt, timeout, measured, call, up, objectVars, cq>>

-----------------------------------------------------------------------------
(* new AsyncServerCall(service_, cq_, ...) of thread t at address a: the   *)
(* constructor runs Proceed in CREATE, which asks for a call.  Object o,   *)
(* if any, has gone to FINISH in the same step.                            *)
FinishAndRenew(t, o, a) ==
  /\ status' = [status EXCEPT ![a] = "PROCESS", ![o] = "FINISH"]
  /\ op' = [op EXCEPT ![a] = "request", ![o] = "finish"]
  /\ thread' = [thread EXCEPT ![a] = t]
  /\ serves' = [serves EXCEPT ![a] = None]

DeleteThis(o) ==
  /\ status' = [status EXCEPT ![o] = "FREE"]
  /\ thread' = [thread EXCEPT ![o] = None]
  /\ UNCHANGED <<op, serves>>

(* One iteration of GrpcLatServerApp::Job: Next, then Proceed on the tag.  *)
DeleteEarly(t, o) ==
  /\ up
  /\ o \in cq[t]
  /\ cq' = [cq EXCEPT ![t] = @ \ {o}]
  /\ \E a \in {b \in Addresses : status[b] = "FREE"} :
       /\ status' = [status EXCEPT ![a] = "PROCESS", ![o] = "FREE"]
       /\ op' = [op EXCEPT ![a] = "request", ![o] = "finish"]
       /\ thread' = [thread EXCEPT ![a] = t]
       /\ serves' = [serves EXCEPT ![a] = None]
  /\ UNCHANGED <<clientVars, call, up>>
Proceed(t, o) ==
  /\ up
  /\ o \in cq[t]
  /\ cq' = [cq EXCEPT ![t] = @ \ {o}]
  /\ \/ /\ status[o] = "PROCESS"
        /\ \E a \in {b \in Addresses : status[b] = "FREE"} : FinishAndRenew(t, o, a)
     \/ status[o] = "FINISH" /\ DeleteThis(o)
  /\ UNCHANGED <<clientVars, call, up>>

Job(t) == \E o \in Addresses : Proceed(t, o)

-----------------------------------------------------------------------------
(* The gRPC library and the network.                                       *)

(* A call that has arrived meets an object that asked for one.             *)
Match(w, s, o) ==
  /\ up
  /\ call[w][s] = "sent"
  /\ op[o] = "request"
  /\ call' = [call EXCEPT ![w][s] = "bound"]
  /\ op' = [op EXCEPT ![o] = "none"]
  /\ serves' = [serves EXCEPT ![o] = <<w, s>>]
  /\ cq' = [cq EXCEPT ![thread[o]] = @ \cup {o}]
  /\ UNCHANGED <<clientVars, up, status, thread>>

(* The response of Finish is on its way and the client gets it.            *)
Respond(o) ==
  /\ up
  /\ op[o] = "finish"
  /\ op' = [op EXCEPT ![o] = "none"]
  /\ serves' = [serves EXCEPT ![o] = None]
  /\ cq' = [cq EXCEPT ![thread[o]] = @ \cup {o}]
  /\ call' = IF serves[o] = None THEN call
             ELSE [call EXCEPT ![serves[o][1]][serves[o][2]] = "ok"]
  /\ UNCHANGED <<clientVars, up, status, thread>>

(* A call fails: refused on the way, or the server is not there.  The      *)
(* server may still be working on it.                                      *)
Fail(w, s) ==
  /\ MayFail
  /\ call[w][s] \in {"sent", "bound"}
  /\ call' = [call EXCEPT ![w][s] = "failed"]
  /\ serves' = [o \in Addresses |-> IF serves[o] = <<w, s>> THEN None ELSE serves[o]]
  /\ UNCHANGED <<clientVars, up, status, thread, op, cq>>

Crash ==
  /\ MayFail
  /\ up
  /\ up' = FALSE
  /\ UNCHANGED <<clientVars, call, objectVars, cq>>

(* What the library does with call s of worker w.                          *)
Library(w, s) ==
  \/ \E o \in Addresses : Match(w, s, o)
  \/ \E o \in Addresses : serves[o] = <<w, s>> /\ Respond(o)
  \/ ~up /\ Fail(w, s)

-----------------------------------------------------------------------------
(* Each server thread has created its first object.                        *)
Init ==
  /\ kind \in Kinds
  /\ wpc = [w \in Workers |-> "fill"]
  /\ reqCnt = [w \in Workers |-> 0]
  /\ timeCnt = [w \in Workers |-> 0]
  /\ timeout = [w \in Workers |-> FALSE]
  /\ expired = [w \in Workers |-> FALSE]
  /\ measured = [w \in Workers |-> FALSE]
  /\ call = [w \in Workers |-> [s \in Slots |-> "free"]]
  /\ up = TRUE
  /\ \E first \in [Threads -> Addresses] :
       /\ \A t, u \in Threads : first[t] = first[u] => t = u
       /\ thread = [o \in Addresses |->
                      IF \E t \in Threads : first[t] = o
                        THEN CHOOSE t \in Threads : first[t] = o ELSE None]
  /\ status = [o \in Addresses |-> IF thread[o] = None THEN "FREE" ELSE "PROCESS"]
  /\ op = [o \in Addresses |-> IF thread[o] = None THEN "none" ELSE "request"]
  /\ serves = [o \in Addresses |-> None]
  /\ cq = [t \in Threads |-> {}]

Next ==
  \/ \E w \in Workers : Worker(w) \/ Expire(w)
  \/ \E t \in Threads : Job(t)
  \/ \E w \in Workers, s \in Slots : (\E o \in Addresses : Match(w, s, o)) \/ Fail(w, s)
  \/ \E o \in Addresses : Respond(o)
  \/ Crash

Spec == Init /\ [][Next]_vars

(* Threads run, time passes, and the library completes every operation:    *)
(* the response to a call is delivered, a Finish comes back, a call to a   *)
(* server that is not there fails.                                         *)
Fairness ==
  /\ \A w \in Workers : WF_vars(Worker(w)) /\ WF_vars(Expire(w))
  /\ \A t \in Threads : \A o \in Addresses : WF_vars(Proceed(t, o))
  /\ \A o \in Addresses : WF_vars(Respond(o))
  /\ \A w \in Workers, s \in Slots : SF_vars(Library(w, s))

LiveSpec == Spec /\ Fairness

-----------------------------------------------------------------------------
(* Every variable keeps its type.                                          *)
TypeOK ==
  /\ kind \in Kinds
  /\ wpc \in [Workers -> {"fill", "loop", "done", "crashed"}]
  /\ reqCnt \in [Workers -> 0..Window]
  /\ timeCnt \in [Workers -> 0..(Period - 1)]
  /\ timeout \in [Workers -> BOOLEAN]
  /\ expired \in [Workers -> BOOLEAN]
  /\ measured \in [Workers -> BOOLEAN]
  /\ call \in [Workers -> [Slots -> {"free", "sent", "bound", "ok", "failed"}]]
  /\ up \in BOOLEAN
  /\ status \in [Addresses -> {"FREE", "PROCESS", "FINISH"}]
  /\ thread \in [Addresses -> Threads \cup {None}]
  /\ op \in [Addresses -> {"none", "request", "finish"}]
  /\ serves \in [Addresses -> (Workers \X Slots) \cup {None}]
  /\ cq \in [Threads -> SUBSET Addresses]

(* req_cnt is the number of calls under way, so a worker that leaves its   *)
(* loop leaves no call behind that would complete into a queue or a frame  *)
(* that is gone.                                                           *)
DrainedAtExit ==
  \A w \in Workers :
    /\ Cardinality(Outstanding(w)) = reqCnt[w]
    /\ wpc[w] = "done" => Outstanding(w) = {} /\ (Window > 0 => timeout[w])

(* A tag that a server thread gets from its queue is an object that has    *)
(* not been deleted, is its own, and has no other operation under way: its *)
(* delete in FINISH is the last use of the address.                        *)
TagsAlive ==
  \A o \in Addresses :
    /\ status[o] = "FREE" => op[o] = "none" /\ \A t \in Threads : o \notin cq[t]
    /\ status[o] # "FREE" =>
         \/ op[o] # "none" /\ \A t \in Threads : o \notin cq[t]
         \/ op[o] = "none" /\ \A t \in Threads : o \in cq[t] <=> t = thread[o]

(* Each thread always has exactly one object that waits for a call or has  *)
(* just got one: the server never stops listening on a queue and never     *)
(* piles up requests there.                                                *)
AlwaysListening ==
  \A t \in Threads :
    Cardinality({o \in Addresses : thread[o] = t /\ status[o] = "PROCESS"}) = 1

(* A call is served by one object at a time, and an object that has been   *)
(* told to finish answers the call it was given, not one that has taken    *)
(* over the same address in the client.                                    *)
ServedOnce ==
  /\ \A o, p \in Addresses : serves[o] = serves[p] /\ serves[o] # None => o = p
  /\ \A w \in Workers, s \in Slots :
       call[w][s] = "bound" <=> \E o \in Addresses : serves[o] = <<w, s>>

(* The summary of the latency client has samples to sort and to index,     *)
(* however many of its calls were refused: the loop cannot end on a call   *)
(* that failed.                                                            *)
PrintsSamples == \A w \in Workers : wpc[w] # "crashed"

(* The client transmits for the time the --time option gives and then      *)
(* ends: the throughput client whatever happens to its calls, the latency  *)
(* client, which looks at the clock only after a success, unless all its   *)
(* calls fail from some time on.                                           *)
JobsEnd ==
  \A w \in Workers :
    kind = "throughput" \/ []<>(\E s \in Slots : call[w][s] = "ok") => <>(wpc[w] = "done")

(* The server's objects, the operations of the library and its queues      *)
(* agree: the three together are what makes delete this safe.              *)
ServerObjects == TypeOK /\ TagsAlive /\ AlwaysListening /\ ServedOnce

(* A client thread leaves its loop with nothing under way, and a latency   *)
(* client with something to print.                                         *)
LeavesClean == DrainedAtExit /\ PrintsSamples

=============================================================================
