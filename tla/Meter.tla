------------------------------- MODULE Meter --------------------------------
(***************************************************************************)
(* Meter of meter.h: the counter behind every rate that the C++ benchmarks *)
(* print.  A call adds to bytes (and qps), looks at the clock once every   *)
(* sample + 1 calls, and when an interval has passed prints and clears.    *)
(*                                                                         *)
(* Nothing in it is atomic and two of its users call it from a pool of     *)
(* threads, so each += is a load and a store of a thread.                  *)
(***************************************************************************)
EXTENDS Integers, Sequences, FiniteSets

CONSTANTS
  Threads,      \* threads that call one meter
  Qps,          \* TRUE: they call AddQps, FALSE: AddBytes
  Amounts,      \* what a call may add
  Interval,     \* interval
  SampleArgs,   \* _sample of the constructor
  IntBits,      \* width of an int
  MaxCalls,     \* bound on the calls
  MaxTime       \* bound on the clock

(* Powers of two, up to the width of an int.                               *)
Pow2[n \in 0..IntBits] == IF n = 0 THEN 1 ELSE 2 * Pow2[n - 1]

ASSUME MeterAssumption ==
  /\ Qps \in BOOLEAN
  /\ Amounts \subseteq Nat
  /\ {Interval, MaxCalls, MaxTime} \subseteq Nat
  /\ IntBits \in Nat \ {0}
  /\ SampleArgs \subseteq 0..(Pow2[IntBits - 1] - 1)

VARIABLES
  word,     \* bytes, qps and cnt
  tp,       \* tp
  sample,   \* sample
  wanted,   \* history: the _sample that the constructor was given
  disable,  \* disable
  clock,    \* Clock::now()
  thread,   \* per thread: pc, the word it is at, its register, add and now
  calls,    \* history: calls made
  added,    \* history: what they added, per word
  printed,  \* history: what the reports printed, per word
  covered,  \* history: the sum of the dura of the reports
  since     \* history: calls since a thread last looked at the clock

history == <<calls, added, printed, covered, since>>
meter == <<word, tp, sample, wanted, disable, clock, thread, calls, added, printed, covered, since>>

Ints == 0..(Pow2[IntBits] - 1)
Sums == IF Qps THEN {"bytes", "qps"} ELSE {"bytes"}
Words == IF Qps THEN <<"bytes", "qps", "cnt">> ELSE <<"bytes", "cnt">>
Idle == [pc |-> "idle", at |-> 1, reg |-> 0, add |-> 0, now |-> 0]
NoneMade == [w \in Sums |-> 0]

(* x & -x of a positive x.                                                 *)
Lowbit(x) == CHOOSE b \in {Pow2[i] : i \in 0..IntBits} : x % b = 0 /\ x % (2 * b) # 0

(* The numbers the constructor rounds up.                                  *)
Rounded == 1..Pow2[IntBits - 1]

RoundUpPower2[x \in Rounded] ==
  IF x = Lowbit(x) THEN x ELSE RoundUpPower2[x + Lowbit(x)]

(* What the constructor makes of _sample.                                  *)
SampleOf(s) == RoundUpPower2[s + 1] - 1

MeterInit ==
  /\ word = [w \in {"bytes", "qps", "cnt"} |-> 0]
  /\ wanted \in SampleArgs /\ sample = SampleOf(wanted)
  /\ disable \in BOOLEAN
  /\ clock = 0 /\ tp = 0
  /\ thread = [t \in Threads |-> Idle]
  /\ calls = 0
  /\ added = NoneMade /\ printed = NoneMade
  /\ covered = 0
  /\ since = 1 % (sample + 1)

(* AddBytes(a) or AddQps(a, a) is called; a disabled meter returns.        *)
Add(t, a) ==
  /\ thread[t].pc = "idle"
  /\ calls < MaxCalls
  /\ calls' = calls + 1
  /\ IF disable
       THEN UNCHANGED <<thread, added>>
       ELSE /\ thread' = [thread EXCEPT ![t] = [Idle EXCEPT !.pc = "load", !.add = a]]
            /\ added' = [w \in Sums |-> added[w] + a]
  /\ UNCHANGED <<word, tp, sample, wanted, disable, clock, printed, covered, since>>

Load(t) ==
  /\ thread[t].pc = "load"
  /\ thread' = [thread EXCEPT ![t].pc = "store", ![t].reg = word[Words[thread[t].at]]]
  /\ UNCHANGED <<word, tp, sample, wanted, disable, clock, history>>

Bit(x, i) == (x \div Pow2[i]) % 2 = 1
SampledEqual(cnt) == cnt = sample
(* (cnt & sample) == sample.                                               *)
Sampled(cnt) == \A i \in 0..(IntBits - 1) : Bit(sample, i) => Bit(cnt, i)

NextCnt(cnt) == (cnt + 1) % Pow2[IntBits]

(* The end of a +=, and for ++cnt the test of its result.                  *)
Store(t) ==
  LET w == Words[thread[t].at]
      v == IF w = "cnt" THEN NextCnt(thread[t].reg) ELSE thread[t].reg + thread[t].add
  IN
  /\ thread[t].pc = "store"
  /\ word' = [word EXCEPT ![w] = v]
  /\ thread' = [thread EXCEPT ![t] =
       IF w # "cnt" THEN [@ EXCEPT !.pc = "load", !.at = thread[t].at + 1]
       ELSE IF Sampled(v) THEN [@ EXCEPT !.pc = "clock"] ELSE Idle]
  /\ since' = IF w = "cnt" THEN since + 1 ELSE since
  /\ UNCHANGED <<tp, sample, wanted, disable, clock, calls, added, printed, covered>>

(* now = Clock::now(), and whether an interval has passed.                 *)
LookAtClock(t) ==
  /\ thread[t].pc = "clock"
  /\ thread' = [thread EXCEPT ![t] =
       IF clock - tp >= Interval THEN [@ EXCEPT !.pc = "report", !.now = clock] ELSE Idle]
  /\ since' = 0
  /\ UNCHANGED <<word, tp, sample, wanted, disable, clock, calls, added, printed, covered>>

(* The line is printed.                                                    *)
Report(t) ==
  /\ thread[t].pc = "report"
  /\ printed' = [w \in Sums |-> printed[w] + word[w]]
  /\ covered' = covered + (thread[t].now - tp)
  /\ thread' = [thread EXCEPT ![t].pc = "clear"]
  /\ UNCHANGED <<word, tp, sample, wanted, disable, clock, calls, added, since>>

ClearBytes(t) ==
  /\ thread[t].pc = "clear"
  /\ word' = [word EXCEPT !.bytes = 0]
  /\ thread' = [thread EXCEPT ![t].pc = "stamp"]
  /\ UNCHANGED <<tp, sample, wanted, disable, clock, history>>
Clear(t) ==
  /\ thread[t].pc = "clear"
  /\ word' = [w \in DOMAIN word |-> IF w \in Sums THEN 0 ELSE word[w]]
  /\ thread' = [thread EXCEPT ![t].pc = "stamp"]
  /\ UNCHANGED <<tp, sample, wanted, disable, clock, history>>

StampLate(t) ==
  /\ thread[t].pc = "stamp"
  /\ tp' = clock
  /\ thread' = [thread EXCEPT ![t] = Idle]
  /\ UNCHANGED <<word, sample, wanted, disable, clock, history>>
Stamp(t) ==
  /\ thread[t].pc = "stamp"
  /\ tp' = thread[t].now
  /\ thread' = [thread EXCEPT ![t] = Idle]
  /\ UNCHANGED <<word, sample, wanted, disable, clock, history>>

Tick ==
  /\ clock < MaxTime
  /\ clock' = clock + 1
  /\ UNCHANGED <<word, tp, sample, wanted, disable, thread, history>>

(* What a call does once it has been made.                                 *)
MeterStep(t) == Load(t) \/ Store(t) \/ LookAtClock(t) \/ Report(t) \/ Clear(t) \/ Stamp(t)

MeterNext == Tick \/ \E t \in Threads : MeterStep(t) \/ \E a \in Amounts : Add(t, a)

MeterSpec == MeterInit /\ [][MeterNext]_meter

-----------------------------------------------------------------------------
(* Every variable keeps its type.                                          *)
MeterTypeOK ==
  /\ word \in [{"bytes", "qps", "cnt"} -> Int] /\ word.cnt \in Ints
  /\ tp \in 0..MaxTime /\ clock \in 0..MaxTime
  /\ sample \in Ints /\ wanted \in SampleArgs /\ disable \in BOOLEAN
  /\ thread \in [Threads -> [pc : {"idle", "load", "store", "clock", "report", "clear", "stamp"},
                             at : 1..Len(Words), reg : Nat, add : Amounts \cup {0},
                             now : 0..MaxTime]]
  /\ calls \in 0..MaxCalls /\ since \in Nat
  /\ added \in [Sums -> Nat] /\ printed \in [Sums -> Nat] /\ covered \in Int

Quiet == \A t \in Threads : thread[t].pc = "idle"

(* A meter with one caller loses nothing: what the reports printed and     *)
(* what bytes and qps still hold is what the calls added, however the      *)
(* calls fall on the intervals and whether or not cnt has wrapped.         *)
Conserved == Quiet => \A w \in Sums : printed[w] + word[w] = added[w]

(* The reports of a meter with one caller tile the time: the dura they     *)
(* divide by sum to the time up to the last report, so no time is counted  *)
(* twice and none is left out, although printing takes time.               *)
ReportsTile == Quiet => covered = tp

(* One caller looks at the clock at every (sample + 1)-th call exactly,    *)
(* across the wrap of cnt.                                                 *)
LooksRegularly ==
  \A t \in Threads : IF thread[t].pc = "clock" THEN since = sample + 1
                     ELSE Quiet => since <= sample

(* "sample must be 2^n-1", as the constructor asserts: so it is whenever a *)
(* call tests ++cnt with it, and it is the least such number that is no    *)
(* less than the argument this meter was given.                            *)
SampleIsMask ==
  \A t \in Threads : thread[t].pc = "store" /\ Words[thread[t].at] = "cnt" =>
    /\ \E n \in 0..IntBits : sample = Pow2[n] - 1
    /\ wanted <= sample /\ sample <= 2 * wanted

(* The clock is looked at as often as the constructor's argument asks.     *)
Sampling == MeterTypeOK /\ SampleIsMask /\ LooksRegularly

=============================================================================
