----------------------------- MODULE CpuMonitor -----------------------------
(***************************************************************************)
(* CpuMonitor of rpc_bench.cc and the CpuStats it uses: a thread that      *)
(* reads the kernel's counters after a warmup and then every second, and   *)
(* prints what share of the machine the process used since the last time.  *)
(*                                                                         *)
(* A snapshot reads two files one after the other while time passes.  Of   *)
(* the counters of /proc/stat that Total() adds up, user stands for those  *)
(* of busy and idle for those of idle cores; utime + stime of              *)
(* /proc/self/stat is self.  Only differences are used, so all of them     *)
(* count from the start of the process.                                    *)
(***************************************************************************)
EXTENDS Integers

CONSTANTS
  Cores,        \* hardware_concurrency(), and the jiffies of a tick
  Warmup,       \* opts.monitor_warmup_sec
  MonitorTime,  \* opts.monitor_time_sec
  Bits,         \* width of a counter
  MaxTime       \* bound: from then on time passes only in sleep_for

ASSUME MonitorAssumption ==
  /\ {Cores, Warmup, MonitorTime, MaxTime} \subseteq Nat
  /\ Bits \in Nat \ {0}

(* No run goes on for longer, and none is long enough for a counter of the *)
(* kernel to wrap.                                                         *)
Horizon == MaxTime + Warmup + MonitorTime + 1
ASSUME NoWrapAssumption == Cores > 0 /\ Cores * Horizon < 2^Bits

VARIABLES
  time,     \* the clock
  kernel,   \* user, idle and self, as the kernel counts them
  stage,    \* "construct", "warmup", "loop"
  pc,       \* "stat", "self" (file to read), "sleep", "report", "ended"
  wake,     \* when sleep_for returns
  prev,     \* prev_: the counters, at: when they were read
  curr,     \* curr_
  start,    \* start
  first,    \* history: curr_ at the end of the warmup
  printed   \* history: the sums of u and t over the reports

vars == <<time, kernel, stage, pc, wake, prev, curr, start, first, printed>>

Width == 2^Bits
(* The members of a CpuStats before its first snapshot.                    *)
Garbage == [user |-> Width - 1, idle |-> 1, self |-> Width - 2, at |-> 0, later |-> 0]

Init ==
  /\ time = 0
  /\ kernel = [user |-> 0, idle |-> 0, self |-> 0]
  /\ stage = "construct" /\ pc = "stat"
  /\ wake = 0 /\ start = 0
  /\ prev = Garbage /\ curr = Garbage /\ first = Garbage
  /\ printed = [u |-> 0, t |-> 0]

(* A tick of every core: busy, in part for this process, or not.           *)
Tick ==
  /\ time < MaxTime \/ (pc = "sleep" /\ time < wake)
  /\ time' = time + 1
  /\ \E user \in 0..Cores : \E self \in 0..user :
       kernel' = [user |-> kernel.user + user, idle |-> kernel.idle + Cores - user,
                  self |-> kernel.self + self]
  /\ UNCHANGED <<stage, pc, wake, prev, curr, start, first, printed>>

(* Total(): guest is not counted, user includes it.                        *)
Total(s) == s.user + s.idle

Uint(n) == n % Width

(* CpuStats::Snapshot: prev_ = curr_ and the first file.                   *)
KeepPrev == IF stage = "loop" THEN prev ELSE curr
Shift == curr
ReadStat ==
  /\ pc = "stat"
  /\ prev' = Shift
  /\ curr' = [curr EXCEPT !.user = kernel.user, !.idle = kernel.idle, !.at = time]
  /\ pc' = "self"
  /\ UNCHANGED <<time, kernel, stage, wake, start, first, printed>>

WarmupEnd == time + Warmup

(* sleep_for(1000 ms).                                                     *)
NoSleep == time
NextSecond == time + 1

(* Where CpuMonitor goes on after a snapshot: to sleep through the warmup, *)
(* to sleep for a second, or to the report.                                *)
Resume(s) ==
  CASE stage = "construct" ->
         /\ stage' = "warmup" /\ pc' = "sleep" /\ wake' = WarmupEnd
         /\ UNCHANGED <<start, first>>
    [] stage = "warmup" ->
         /\ stage' = "loop" /\ pc' = "sleep" /\ wake' = NextSecond
         /\ start' = time /\ first' = s
    [] stage = "loop" ->
         /\ pc' = "report"
         /\ UNCHANGED <<stage, wake, start, first>>

ReadSelf ==
  /\ pc = "self"
  /\ curr' = [curr EXCEPT !.self = kernel.self, !.later = time]
  /\ Resume(curr')
  /\ UNCHANGED <<time, kernel, prev, printed>>

Wake ==
  /\ pc = "sleep"
  /\ time >= wake
  /\ pc' = "stat"
  /\ UNCHANGED <<time, kernel, stage, wake, prev, curr, start, first, printed>>

(* CpuUtil, without the division and the factor core_cnt.                  *)
CpuUtilSinceBoot(p, c) == [u |-> c.self, t |-> Total(c) - Total(p)]
CpuUtil(p, c) == [u |-> Uint(c.self - p.self), t |-> Uint(Total(c) - Total(p))]

(* end - start > monitor_ms.                                               *)
Over == time - start > MonitorTime

Report ==
  /\ pc = "report"
  /\ LET r == CpuUtil(prev, curr) IN printed' = [u |-> printed.u + r.u, t |-> printed.t + r.t]
  /\ IF Over THEN pc' = "ended" /\ UNCHANGED wake
             ELSE pc' = "sleep" /\ wake' = NextSecond
  /\ UNCHANGED <<time, kernel, stage, prev, curr, start, first>>

Monitor == ReadStat \/ ReadSelf \/ Wake \/ Report
Next == Monitor \/ Tick

Spec == Init /\ [][Next]_vars

-----------------------------------------------------------------------------
(* Every variable keeps its type.                                          *)
TypeOK ==
  LET Snapshots == [user : Nat, idle : Nat, self : Nat, at : 0..time, later : 0..time]
  IN
  /\ time \in Nat /\ start \in 0..time /\ wake \in 0..(time + Warmup + 1)
  /\ kernel \in [user : Nat, idle : Nat, self : Nat]
  /\ stage \in {"construct", "warmup", "loop"}
  /\ pc \in {"stat", "self", "sleep", "report", "ended"}
  /\ {prev, curr, first} \subseteq Snapshots
  /\ printed \in [u : Nat, t : Nat]

(* The reports tile the time since the end of the warmup: nothing that     *)
(* passed is left out or counted twice, the warmup is not in it, the       *)
(* members a CpuStats starts with never are, and t is the time of all      *)
(* cores between the first and the last reading.                           *)
ReportsTile ==
  stage = "loop" /\ pc \in {"sleep", "stat", "ended"} =>
    /\ printed.u = curr.self - first.self
    /\ printed.t = Cores * (curr.at - first.at)

(* A report claims more than the whole machine only by what passed between *)
(* the reading of the two files of its own snapshot.                       *)
UtilBounded ==
  pc = "report" => LET r == CpuUtil(prev, curr) IN
                   r.u <= r.t + Cores * (curr.later - curr.at)

(* CpuUtil never divides by zero: between the two snapshots of a report    *)
(* the counters of /proc/stat have moved, however the thread is scheduled  *)
(* between its sleep and its reads, and also without a warmup.             *)
IntervalNotEmpty == pc = "report" => CpuUtil(prev, curr).t > 0

(* The snapshots hold what was read, and the reports what lies between.    *)
Tiled == TypeOK /\ ReportsTile

=============================================================================
