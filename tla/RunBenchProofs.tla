--------------------------- MODULE RunBenchProofs ---------------------------
(***************************************************************************)
(* Proofs about run_bench: for every bound on the arguments, the window,   *)
(* the exact end of a run and the rate it prints.                          *)
(***************************************************************************)
EXTENDS RunBench, TLAPS

(* Calls made, under way and counted: before the loop starts none has been *)
(* counted, and in it the window is full unless there is no call to make.  *)
WindowInv ==
  /\ flying + landed <= args.concurrency
  /\ rcnt <= scnt
  /\ ~args.timed => scnt <= args.iters + args.warmup
  /\ pc = "fill" => rcnt = 0 /\ flying + landed = scnt
  /\ pc = "select" =>
       /\ flying + landed = scnt - rcnt
       /\ flying + landed < args.concurrency => Limited(scnt)
  /\ pc = "panicked" => args.concurrency = 0

(* The replies of a run with --duration that are counted came in its time. *)
TimedInv ==
  args.timed => /\ rcnt <= MaxReplies
                /\ ~expired => rcnt + landed <= MaxReplies

(* How the loop was left.                                                  *)
StopInv ==
  pc = "done" => IF args.timed THEN expired
                 ELSE rcnt = args.iters + args.warmup /\ scnt = rcnt /\ flying = 0 /\ landed = 0

(* What the replies counted so far have left in hist and in warmup_end.    *)
RecordInv ==
  /\ cleared = 0 \/ (args.warmup < cleared /\ cleared <= rcnt)
  /\ hist + dropped = Later(rcnt - Later(args.warmup, cleared), 0)
  /\ warmupEnd = IF rcnt >= args.warmup THEN args.warmup ELSE 0

IInv == TypeOK /\ WindowInv /\ TimedInv /\ StopInv /\ RecordInv

-----------------------------------------------------------------------------
(* A sum under a bound stays there when a term shrinks.                    *)
LEMMA SumShrinks ==
  ASSUME NEW a \in Nat, NEW b \in Nat, NEW c \in Nat, NEW m \in Nat, c <= b
  PROVE  a + b <= m => a + c <= m
OBVIOUS

(* The bounds are numbers.                                                 *)
LEMMA BoundsTypes ==
  MaxConcurrency \in Nat /\ MaxIters \in Nat /\ MaxWarmup \in Nat /\ MaxReplies \in Nat
BY BoundsAssumption

(* The arguments that matter are numbers.                                  *)
LEMMA ArgsTypes ==
  ASSUME TypeOK
  PROVE  /\ args.concurrency \in Nat /\ args.iters \in Nat /\ args.warmup \in Nat
         /\ args.iters <= MaxIters /\ args.warmup <= MaxWarmup
         /\ args.timed \in BOOLEAN
BY BoundsTypes DEF TypeOK, Args

LEMMA InitInv == Init => IInv
<1> SUFFICES ASSUME Init PROVE IInv
  OBVIOUS
<1>1. TypeOK
  <2>1. args.concurrency \in Nat
    BY BoundsTypes DEF Init, Args
  <2>2. flying \in 0..args.concurrency /\ landed \in 0..args.concurrency
    BY <2>1 DEF Init
  <2> QED BY <2>2 DEF Init, TypeOK
<1>2. WindowInv /\ TimedInv /\ StopInv /\ RecordInv
  BY <1>1, ArgsTypes, BoundsTypes
     DEF Init, WindowInv, TimedInv, StopInv, RecordInv, Later, Limited
<1> QED BY <1>1, <1>2 DEF IInv

LEMMA FillInv == IInv /\ Fill => IInv'
<1> SUFFICES ASSUME IInv, Fill PROVE IInv'
  OBVIOUS
<1>1. TypeOK /\ WindowInv /\ TimedInv /\ StopInv /\ RecordInv
  BY DEF IInv
<1>2. /\ args.concurrency \in Nat /\ args.iters \in Nat /\ args.warmup \in Nat
      /\ args.timed \in BOOLEAN
  BY <1>1, ArgsTypes
<1>3. TypeOK'
  BY <1>1, <1>2 DEF TypeOK, WindowInv, Fill
<1>4. WindowInv'
  BY <1>1, <1>2 DEF TypeOK, WindowInv, Fill, Limited
<1>5. TimedInv' /\ StopInv' /\ RecordInv'
  BY <1>1 DEF TimedInv, StopInv, RecordInv, Fill
<1> QED BY <1>3, <1>4, <1>5 DEF IInv

(* The periodic report, whether it clears the histogram or not, leaves in  *)
(* it the latencies of the measured replies since it was last cleared.     *)
LEMMA RecordKeeps ==
  ASSUME TypeOK, RecordInv, NEW clear \in BOOLEAN, NEW fits \in BOOLEAN,
         Record(clear, fits), rcnt' = rcnt + 1,
         clear => rcnt + 1 > args.warmup, args' = args, MarkWarmupEnd
  PROVE  RecordInv' /\ hist' \in Nat /\ dropped' \in Nat /\ cleared' \in Nat /\ warmupEnd' \in Nat
<1>1. args.warmup \in Nat
  BY ArgsTypes
<1>2. rcnt \in Nat /\ hist \in Nat /\ dropped \in Nat /\ cleared \in Nat /\ warmupEnd \in Nat
  BY DEF TypeOK
<1>3. /\ cleared' = 0 \/ (args.warmup < cleared' /\ cleared' <= rcnt')
      /\ hist' + dropped' = Later(rcnt' - Later(args.warmup, cleared'), 0)
      /\ hist' \in Nat /\ dropped' \in Nat /\ cleared' \in Nat
  BY <1>1, <1>2 DEF RecordInv, Record, Later
<1>4. warmupEnd' = (IF rcnt' >= args.warmup THEN args.warmup ELSE 0) /\ warmupEnd' \in Nat
  BY <1>1, <1>2 DEF RecordInv, MarkWarmupEnd
<1> QED BY <1>3, <1>4 DEF RecordInv

LEMMA SelectInv == IInv /\ Select => IInv'
<1> SUFFICES ASSUME IInv, Select PROVE IInv'
  OBVIOUS
<1>1. TypeOK /\ WindowInv /\ TimedInv /\ StopInv /\ RecordInv
  BY DEF IInv
<1>2. /\ args.concurrency \in Nat /\ args.iters \in Nat /\ args.warmup \in Nat
      /\ args.timed \in BOOLEAN
  BY <1>1, ArgsTypes
<1>3. /\ pc = "select" /\ args' = args /\ expired' = expired
      /\ flying + landed = 0 \/ landed > 0
      /\ Taken
  BY DEF Select
<1>4. CASE Stop
  <2>1. pc' = "done" /\ UNCHANGED <<scnt, rcnt, flying, hist, dropped, cleared, warmupEnd>>
    BY <1>4 DEF Select
  <2>2. landed' \in 0..landed
    BY <1>1, <1>2, <1>3 DEF TypeOK, Taken
  <2>t. TypeOK'
    BY <1>1, <1>2, <1>3, <2>1, <2>2 DEF TypeOK
  <2>w. WindowInv'
    BY <1>1, <1>2, <1>3, <2>1, <2>2 DEF TypeOK, WindowInv, Limited
  <2>3. TimedInv'
    <3>1. rcnt \in Nat /\ landed \in Nat /\ landed' \in Nat /\ landed' <= landed
      BY <1>1, <1>2, <2>2 DEF TypeOK
    <3>2. rcnt + landed <= MaxReplies => rcnt + landed' <= MaxReplies
      BY <3>1, BoundsTypes, SumShrinks
    <3> QED BY <1>1, <1>3, <2>1, <3>2 DEF TimedInv
  <2>r. RecordInv'
    BY <1>1, <1>3, <2>1 DEF RecordInv
  <2>4. StopInv'
    BY <1>1, <1>2, <1>3, <1>4, <2>1 DEF TypeOK, WindowInv, StopInv, Taken, Stop, Limited
  <2> QED BY <2>3, <2>4, <2>t, <2>w, <2>r DEF IInv
<1>5. CASE ~Stop /\ landed = 0
  <2>1. pc' = "panicked" /\ UNCHANGED <<scnt, rcnt, flying, hist, dropped, cleared, warmupEnd>>
    BY <1>5 DEF Select
  <2>2. args.concurrency = 0
    BY <1>1, <1>2, <1>3, <1>5 DEF TypeOK, WindowInv, Stop, Limited
  <2>3. TypeOK' /\ WindowInv'
    BY <1>1, <1>2, <1>3, <1>5, <2>1, <2>2 DEF TypeOK, WindowInv, Taken, Limited
  <2>4. TimedInv' /\ RecordInv' /\ StopInv'
    BY <1>1, <1>2, <1>3, <1>5, <2>1 DEF TypeOK, TimedInv, RecordInv, StopInv, Taken
  <2> QED BY <2>3, <2>4 DEF IInv
<1>6. CASE ~Stop /\ landed # 0
  <2>1. /\ rcnt' = rcnt + 1 /\ MarkWarmupEnd /\ Refill /\ pc' = pc
        /\ \E due \in IF args.reports THEN BOOLEAN ELSE {FALSE}, fits \in BOOLEAN :
             Record(due /\ args.logs /\ rcnt + 1 > args.warmup, fits)
    BY <1>6 DEF Select
  <2>2. PICK due \in BOOLEAN, fits \in BOOLEAN :
          Record(due /\ args.logs /\ rcnt + 1 > args.warmup, fits)
    BY <2>1
  <2>3. RecordInv' /\ hist' \in Nat /\ dropped' \in Nat /\ cleared' \in Nat /\ warmupEnd' \in Nat
    BY <1>1, <1>3, <2>1, <2>2, RecordKeeps
  <2>4. landed' = landed - 1 /\ landed > 0
    BY <1>1, <1>2, <1>3, <1>6 DEF TypeOK, Taken
  <2>5. TypeOK' /\ WindowInv'
    BY <1>1, <1>2, <1>3, <2>1, <2>3, <2>4 DEF TypeOK, WindowInv, Refill, Limited
  <2>6. TimedInv' /\ StopInv'
    BY <1>1, <1>2, <1>3, <1>6, <2>1, <2>4, BoundsTypes
       DEF TypeOK, TimedInv, StopInv, Stop
  <2> QED BY <2>3, <2>5, <2>6 DEF IInv
<1> QED BY <1>4, <1>5, <1>6

LEMMA ReplyInv == IInv /\ Reply => IInv'
<1> SUFFICES ASSUME IInv, Reply PROVE IInv'
  OBVIOUS
<1>1. TypeOK /\ WindowInv /\ TimedInv /\ StopInv /\ RecordInv
  BY DEF IInv
<1>2. args.concurrency \in Nat /\ args.timed \in BOOLEAN
  BY <1>1, ArgsTypes
<1>3. TypeOK' /\ WindowInv'
  BY <1>1, <1>2 DEF TypeOK, WindowInv, Reply, Limited
<1>4. TimedInv' /\ StopInv' /\ RecordInv'
  BY <1>1, <1>2, BoundsTypes DEF TypeOK, TimedInv, StopInv, RecordInv, Reply
<1> QED BY <1>3, <1>4 DEF IInv

LEMMA ExpireInv == IInv /\ Expire => IInv'
<1> SUFFICES ASSUME IInv, Expire PROVE IInv'
  OBVIOUS
<1>1. TypeOK' /\ WindowInv'
  BY DEF IInv, TypeOK, WindowInv, Expire, Limited
<1>2. TimedInv' /\ StopInv' /\ RecordInv'
  BY DEF IInv, TimedInv, StopInv, RecordInv, Expire
<1> QED BY <1>1, <1>2 DEF IInv

(* The inductive invariant of the loop: the window, the time and the       *)
(* histogram of run_bench agree after every step of it.                    *)
THEOREM Invariance == Spec => []IInv
<1>1. IInv /\ UNCHANGED vars => IInv'
  BY DEF IInv, TypeOK, WindowInv, TimedInv, StopInv, RecordInv, Limited, vars
<1>2. IInv /\ [Next]_vars => IInv'
  BY <1>1, FillInv, SelectInv, ReplyInv, ExpireInv DEF Next
<1> QED BY <1>2, InitInv, PTL DEF Spec

-----------------------------------------------------------------------------
(* The window of run_bench is as wide as --concurrency says while there is *)
(* a call to make, and unwrap panics only where there is none.             *)
THEOREM WindowIsSound == Spec => []WindowSound
<1>1. IInv => WindowSound
  BY DEF IInv, WindowInv, WindowSound, WindowKept, PanicsOnlyWithoutWindow
<1> QED BY <1>1, Invariance, PTL

(* A run without --duration makes exactly its calls and waits for each of  *)
(* them, and the histogram has been given one latency per measured         *)
(* iteration, of which it lacks only those too long for it.                *)
THEOREM RunsExactly == Spec => []ExactRun
<1>1. IInv => ExactRun
  BY DEF IInv, StopInv, RecordInv, ExactRun
<1> QED BY <1>1, Invariance, PTL

(* The rate printed is of the replies since warmup_end and does not wrap,  *)
(* unless --duration ended the run during the warmup.                      *)
THEOREM RateIsOverItsTime == Spec => []RateOverItsTime
<1>1. ASSUME IInv, pc = "done", rcnt >= args.warmup
      PROVE  RateCount = rcnt - warmupEnd
  <2>1. /\ args.iters \in Nat /\ args.warmup \in Nat /\ rcnt \in Nat
        /\ args.iters <= MaxIters /\ args.warmup <= MaxWarmup
        /\ args.timed \in BOOLEAN
    BY <1>1, ArgsTypes DEF IInv, TypeOK
  <2>2. 2^CountBits \in Int /\ MaxIters + MaxWarmup + MaxReplies < 2^CountBits
    BY BoundsAssumption
  <2>3. rcnt - args.warmup \in 0..(2^CountBits - 1)
    BY <1>1, <2>1, <2>2, BoundsTypes DEF IInv, StopInv, TimedInv
  <2>4. warmupEnd = args.warmup
    BY <1>1 DEF IInv, RecordInv
  <2> QED BY <2>1, <2>2, <2>3, <2>4 DEF RateCount
<1>2. ASSUME IInv, pc = "done", ~(rcnt >= args.warmup)
      PROVE  args.timed /\ expired /\ rcnt < args.warmup
  BY <1>2, ArgsTypes DEF IInv, TypeOK, StopInv
<1>3. IInv => RateOverItsTime
  BY <1>1, <1>2 DEF RateOverItsTime
<1> QED BY <1>3, Invariance, PTL

=============================================================================
