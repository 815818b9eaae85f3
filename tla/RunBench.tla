------------------------------ MODULE RunBench ------------------------------
(***************************************************************************)
(* run_bench of the tonic client: one client thread that keeps a window of *)
(* concurrent calls in a FuturesUnordered, counts replies through a warmup *)
(* and ends after a number of iterations or, with --duration, when a reply *)
(* arrives after the time is up.  (The volo client's is the same loop.)    *)
(*                                                                         *)
(* Calls are indistinguishable: the futures are two counts.  A failed call *)
(* is a reply like any other, its result is not looked at.                 *)
(***************************************************************************)
EXTENDS Integers

CONSTANTS
  MaxConcurrency,  \* bound on args.concurrency
  MaxIters,        \* bound on args.total_iters
  MaxWarmup,       \* bound on args.warmup
  MaxReplies,      \* bound: replies within the time of a run with --duration
  CountBits        \* bits of a usize

ASSUME BoundsAssumption ==
  /\ MaxConcurrency \in Nat /\ MaxIters \in Nat
  /\ MaxWarmup \in Nat /\ MaxReplies \in Nat
  /\ CountBits \in Nat /\ MaxIters + MaxWarmup + MaxReplies < 2^CountBits

VARIABLES
  args,     \* concurrency, iters, warmup; timed: --duration is given;
            \* reports: --interval is given, logs: args.log_latency
  pc,       \* "fill", "select", "done", "panicked"
  scnt,     \* scnt
  rcnt,     \* rcnt
  flying,   \* futures in reply_futures whose reply has not come
  landed,   \* futures in reply_futures that are ready
  expired,  \* start.elapsed() > timeout
  hist,     \* latencies recorded in hist
  dropped,  \* history: latencies that hist refused since it was last cleared
  cleared,  \* history: rcnt when hist was last cleared, 0 before
  warmupEnd \* rcnt when warmup_end was last set, 0 at the start

vars == <<args, pc, scnt, rcnt, flying, landed, expired, hist, dropped, cleared, warmupEnd>>

Args == [concurrency : 0..MaxConcurrency, iters : 0..MaxIters, warmup : 0..MaxWarmup,
         timed : BOOLEAN, reports : BOOLEAN, logs : BOOLEAN]

Later(a, b) == IF a > b THEN a ELSE b

(* With --duration the number of iterations is usize::MAX / 2: no limit.   *)
Limited(n) == ~args.timed /\ n >= args.iters + args.warmup

Init ==
  /\ args \in Args
  /\ pc = "fill"
  /\ scnt = 0 /\ rcnt = 0
  /\ flying = 0 /\ landed = 0
  /\ expired = FALSE
  /\ hist = 0 /\ dropped = 0
  /\ cleared = 0
  /\ warmupEnd = 0

(* One make_call of the loop that fills the window.                        *)
Fill ==
  /\ pc = "fill"
  /\ IF scnt < args.concurrency /\ ~Limited(scnt)
       THEN /\ scnt' = scnt + 1
            /\ flying' = flying + 1
            /\ UNCHANGED pc
       ELSE /\ pc' = "select"
            /\ UNCHANGED <<scnt, flying>>
  /\ UNCHANGED <<args, rcnt, landed, expired, hist, dropped, cleared, warmupEnd>>

(* What next() yields: a ready future leaves the set, None if it is empty. *)
Taken == landed' = IF flying + landed = 0 THEN 0 ELSE landed - 1

(* rcnt >= total_iters + args.warmup || start.elapsed() > timeout.         *)
StopOnCount == Limited(rcnt)
Stop == Limited(rcnt) \/ (args.timed /\ expired)

(* hist.record, unless it is a warmup message: it refuses a latency that   *)
(* does not fit into the histogram and the error is ignored.  The periodic *)
(* report clears the histogram when it prints percentiles.                 *)
RecordAll(clear, fits) ==
  IF clear THEN hist' = 0 /\ dropped' = 0 /\ cleared' = rcnt + 1
  ELSE /\ hist' = IF fits THEN hist + 1 ELSE hist
       /\ dropped' = IF fits THEN dropped ELSE dropped + 1
       /\ UNCHANGED cleared
Record(clear, fits) ==
  LET measured == rcnt >= args.warmup IN
  IF clear THEN hist' = 0 /\ dropped' = 0 /\ cleared' = rcnt + 1
  ELSE /\ hist' = IF measured /\ fits THEN hist + 1 ELSE hist
       /\ dropped' = IF measured /\ ~fits THEN dropped + 1 ELSE dropped
       /\ UNCHANGED cleared

(* warmup_end is the time of the reply that completes the warmup.          *)
MarkBefore == warmupEnd' = IF rcnt = args.warmup THEN rcnt + 1 ELSE warmupEnd
MarkWarmupEnd == warmupEnd' = IF rcnt + 1 = args.warmup THEN rcnt + 1 ELSE warmupEnd

(* The next call, if there is one to make.                                 *)
RefillNever == UNCHANGED <<scnt, flying>>
Refill ==
  IF ~Limited(scnt)
    THEN scnt' = scnt + 1 /\ flying' = flying + 1
    ELSE UNCHANGED <<scnt, flying>>

(* The select! of the loop.  resp.unwrap() panics on None.                 *)
Select ==
  /\ pc = "select"
  /\ flying + landed = 0 \/ landed > 0
  /\ Taken
  /\ IF Stop
       THEN /\ pc' = "done"
            /\ UNCHANGED <<scnt, rcnt, flying, hist, dropped, cleared, warmupEnd>>
       ELSE IF landed = 0
       THEN /\ pc' = "panicked"
            /\ UNCHANGED <<scnt, rcnt, flying, hist, dropped, cleared, warmupEnd>>
       ELSE /\ rcnt' = rcnt + 1
            /\ MarkWarmupEnd
            /\ Refill
            /\ \E due \in IF args.reports THEN BOOLEAN ELSE {FALSE}, fits \in BOOLEAN :
                 Record(due /\ args.logs /\ rcnt + 1 > args.warmup, fits)
            /\ UNCHANGED pc
  /\ UNCHANGED <<args, expired>>

(* A reply, or an error, comes in; once the time is up one more is enough  *)
(* to end the run.                                                         *)
Reply ==
  /\ flying > 0
  /\ args.timed => rcnt + landed < IF expired THEN MaxReplies + 1 ELSE MaxReplies
  /\ flying' = flying - 1
  /\ landed' = landed + 1
  /\ UNCHANGED <<args, pc, scnt, rcnt, expired, hist, dropped, cleared, warmupEnd>>

Expire ==
  /\ args.timed
  /\ ~expired
  /\ expired' = TRUE
  /\ UNCHANGED <<args, pc, scnt, rcnt, flying, landed, hist, dropped, cleared, warmupEnd>>

Next == Fill \/ Select \/ Reply \/ Expire

Spec == Init /\ [][Next]_vars

(* The thread runs, every call comes back (the channel reports an error if *)
(* the server is gone) and time passes.                                    *)
LiveSpec == Spec /\ WF_vars(Fill) /\ WF_vars(Select) /\ WF_vars(Reply) /\ WF_vars(Expire)

-----------------------------------------------------------------------------
(* The count in the rate that the thread prints at its end: a usize, which *)
(* wraps in a release build.                                               *)
RateCount == (rcnt - args.warmup) % 2^CountBits

(* Every variable keeps its type.                                          *)
TypeOK ==
  /\ args \in Args
  /\ pc \in {"fill", "select", "done", "panicked"}
  /\ scnt \in Nat /\ rcnt \in Nat
  /\ flying \in 0..args.concurrency /\ landed \in 0..args.concurrency
  /\ expired \in BOOLEAN
  /\ hist \in Nat /\ dropped \in Nat /\ cleared \in Nat /\ warmupEnd \in Nat

(* The calls under way are those sent and not counted: as many as the      *)
(* --concurrency option says while there are calls to make, never more.    *)
WindowKept ==
  /\ flying + landed <= args.concurrency
  /\ pc = "select" =>
       /\ flying + landed = scnt - rcnt
       /\ flying + landed < args.concurrency => Limited(scnt)

(* Without --duration the run makes exactly the warmup and the measured    *)
(* iterations, waits for the reply of each of them, and has given hist one *)
(* latency per measured iteration since the last periodic report: those it *)
(* does not hold are the ones that did not fit.                            *)
ExactRun ==
  pc = "done" =>
    /\ ~args.timed => /\ rcnt = args.iters + args.warmup
                      /\ scnt = rcnt /\ flying = 0 /\ landed = 0
    /\ hist + dropped = Later(rcnt - Later(args.warmup, cleared), 0)

(* resp.unwrap() finds a response unless --concurrency is 0: the stream    *)
(* never runs dry before the loop has stopped.                             *)
PanicsOnlyWithoutWindow == pc = "panicked" => args.concurrency = 0

(* The rate that is printed divides the replies since warmup_end by the    *)
(* time since warmup_end, except when --duration ends the run during the   *)
(* warmup: then the subtraction goes below zero.                           *)
RateOverItsTime ==
  pc = "done" => \/ RateCount = rcnt - warmupEnd
                 \/ args.timed /\ expired /\ rcnt < args.warmup

(* A run with a window ends, with and without --duration.                  *)
Ends == args.concurrency > 0 ~> pc = "done"

(* The window is kept, so that the stream runs dry only where there is no  *)
(* window.                                                                 *)
WindowSound == TypeOK /\ WindowKept /\ PanicsOnlyWithoutWindow

=============================================================================
