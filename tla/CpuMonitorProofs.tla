-------------------------- MODULE CpuMonitorProofs --------------------------
(***************************************************************************)
(* Proofs about CpuMonitor: what it prints, for any number of cores, any   *)
(* warmup and monitor time, and any interleaving of its reads with time;   *)
(* about AppMain, the main that starts it: how it takes a command line of  *)
(* any length; and about RpcBench, the process of the two.                 *)
(***************************************************************************)
EXTENDS RpcBench, FiniteSetTheorems, SequenceTheorems, TLAPS

(* The jiffies of all cores up to time t.                                  *)
Jiffies(t) == Cores * t

Snapshots ==
  [user : Nat, idle : Nat, self : Nat, at : Nat, later : Nat]

Types ==
  /\ time \in Nat /\ start \in 0..time /\ wake \in 0..(time + Warmup + 1)
  /\ kernel \in [user : Nat, idle : Nat, self : Nat]
  /\ stage \in {"construct", "warmup", "loop"}
  /\ pc \in {"stat", "self", "sleep", "report", "ended"}
  /\ prev \in Snapshots /\ curr \in Snapshots /\ first \in Snapshots
  /\ \A s \in {prev, curr, first} : s.at <= time /\ s.later <= time
  /\ printed \in [u : Nat, t : Nat]

(* Where the monitor can be, and when.                                     *)
TimeInv ==
  /\ stage = "construct" => pc \in {"stat", "self"} /\ time <= MaxTime
  /\ stage = "warmup" => /\ pc \in {"stat", "self", "sleep"}
                         /\ time <= MaxTime + Warmup /\ wake <= MaxTime + Warmup
  /\ stage = "loop" => start <= MaxTime + Warmup /\ time <= Horizon /\ wake <= Horizon

(* The kernel counts every jiffy of every core, this process's among them. *)
KernelInv ==
  /\ kernel.self <= Jiffies(time)

(* s holds what /proc/stat said at s.at.                                   *)
StatOf(s) == s.user + s.idle + Jiffies(time) = kernel.user + kernel.idle + Jiffies(s.at)

(* s holds what /proc/self/stat said at s.later.                           *)
SelfOf(s) ==
  /\ s.self <= kernel.self
  /\ kernel.self + Jiffies(s.later) <= s.self + Jiffies(time)

Full(s) == StatOf(s) /\ SelfOf(s) /\ s.at <= s.later

(* Snapshot p was taken before c.                                          *)
Ordered(p, c) ==
  /\ p.later <= c.at
  /\ p.self <= c.self
  /\ c.self + Jiffies(p.later) <= p.self + Jiffies(c.later)

(* The reports reach from the end of the warmup to snapshot s.             *)
UpTo(s) ==
  /\ first.self + printed.u = s.self
  /\ Jiffies(first.at) + printed.t = Jiffies(s.at)

SnapshotInv ==
  /\ stage # "loop" => printed.u = 0 /\ printed.t = 0
  /\ pc = "self" => StatOf(curr)
  /\ pc = "self" /\ stage # "construct" =>
       Full(prev) /\ curr.self = prev.self /\ curr.later = prev.later /\ prev.later <= curr.at
  /\ pc \in {"sleep", "report", "ended"} \/ (pc = "stat" /\ stage # "construct") => Full(curr)
  /\ pc = "report" => stage = "loop" /\ Full(prev) /\ Ordered(prev, curr)
  /\ stage = "loop" /\ pc \in {"self", "report"} => UpTo(prev)
  /\ stage = "loop" /\ pc \in {"sleep", "stat", "ended"} => UpTo(curr)

IInv == Types /\ TimeInv /\ KernelInv /\ SnapshotInv

(* A second lies between two snapshots of the loop.                        *)
SecondInv ==
  stage = "loop" =>
    /\ pc = "sleep" => curr.at < wake
    /\ pc = "stat" => curr.at < time
    /\ pc \in {"self", "report"} => prev.at < curr.at

-----------------------------------------------------------------------------
LEMMA Constants ==
  /\ Cores \in Nat /\ Warmup \in Nat /\ MonitorTime \in Nat
  /\ MaxTime \in Nat /\ Horizon \in Nat
BY MonitorAssumption DEF Horizon

LEMMA JiffiesFacts ==
  /\ \A t \in Nat : Jiffies(t) \in Nat
  /\ \A t \in Nat : Jiffies(t + 1) = Jiffies(t) + Cores
  /\ \A a, b \in Nat : a <= b => Jiffies(a) <= Jiffies(b)
  /\ \A a, b \in Nat : Cores * (a - b) = Jiffies(a) - Jiffies(b)
BY Constants DEF Jiffies

LEMMA WidthFacts ==
  /\ Width \in Nat /\ Width >= 2
  /\ Jiffies(Horizon) < Width
<1>1. Width \in Int
  BY MonitorAssumption DEF Width
<1>2. Jiffies(Horizon) < Width /\ Cores > 0
  BY NoWrapAssumption DEF Width, Jiffies
<1>3. Horizon >= 1
  BY Constants DEF Horizon
<1>4. Jiffies(Horizon) >= 1
  BY <1>2, <1>3, Constants DEF Jiffies
<1> QED BY <1>1, <1>2, <1>4, Constants, JiffiesFacts

LEMMA UintFacts == \A x \in Nat : x < Width => Uint(x) = x
<1> DEFINE W == Width
<1>1. W \in Nat /\ W >= 2
  BY WidthFacts
<1> HIDE DEF W
<1>2. \A x \in Nat : x < W => x % W = x
  BY <1>1
<1> QED BY <1>2 DEF Uint, W

(* The time of a run, and so its jiffies, are bounded.                     *)
LEMMA TimeBounded ==
  ASSUME Types, TimeInv
  PROVE  time <= Horizon /\ Jiffies(time) <= Jiffies(Horizon)
<1>1. time <= Horizon
  BY Constants DEF Types, TimeInv, Horizon
<1> QED BY <1>1, Constants, JiffiesFacts DEF Types

LEMMA GarbageType == Garbage \in Snapshots /\ Garbage.at = 0 /\ Garbage.later = 0
BY WidthFacts DEF Garbage, Snapshots

LEMMA InitInv == ASSUME Init PROVE IInv
<1>1. kernel = [user |-> 0, idle |-> 0, self |-> 0]
  BY DEF Init
<1>2. Jiffies(0) = 0
  BY Constants DEF Jiffies
<1>3. Types
  BY <1>1, Constants, GarbageType DEF Init, Types
<1>4. TimeInv
  BY Constants DEF Init, TimeInv
<1>5. KernelInv
  BY <1>1, <1>2, Constants DEF Init, KernelInv
<1>6. SnapshotInv
  BY DEF Init, SnapshotInv
<1> QED BY <1>3, <1>4, <1>5, <1>6 DEF IInv

-----------------------------------------------------------------------------
(* A tick leaves every snapshot true to what it says.                      *)
LEMMA TickInv == ASSUME IInv, Tick PROVE IInv'
<1>1. /\ Types /\ TimeInv /\ KernelInv /\ SnapshotInv
      /\ time < MaxTime \/ (pc = "sleep" /\ time < wake)
      /\ time' = time + 1
      /\ UNCHANGED <<stage, pc, wake, prev, curr, start, first, printed>>
  BY DEF IInv, Tick
<1>2. PICK user \in 0..Cores : \E self \in 0..user :
        kernel' = [user |-> kernel.user + user, idle |-> kernel.idle + Cores - user,
                   self |-> kernel.self + self]
  BY DEF Tick
<1>3. PICK self \in 0..user :
        kernel' = [user |-> kernel.user + user, idle |-> kernel.idle + Cores - user,
                   self |-> kernel.self + self]
  BY <1>2
<1>4. /\ kernel.user \in Nat /\ kernel.idle \in Nat /\ kernel.self \in Nat
      /\ user \in Nat /\ self \in Nat /\ user <= Cores /\ self <= user
      /\ time \in Nat /\ Cores \in Nat
  BY <1>1, Constants DEF Types
<1>5. /\ kernel'.user = kernel.user + user /\ kernel'.idle = kernel.idle + Cores - user
      /\ kernel'.self = kernel.self + self
  BY <1>3
<1>6. kernel' \in [user : Nat, idle : Nat, self : Nat]
  <2>1. /\ kernel.user + user \in Nat /\ kernel.idle + Cores - user \in Nat
        /\ kernel.self + self \in Nat
    BY <1>4
  <2> QED BY <1>3, <2>1
<1>7. Types'
  <2>1. /\ time' \in Nat /\ start' \in 0..time' /\ wake' \in 0..(time' + Warmup + 1)
    BY <1>1, Constants DEF Types
  <2>2. \A s \in {prev, curr, first} : s.at <= time + 1 /\ s.later <= time + 1
    BY <1>1 DEF Types, Snapshots
  <2> QED BY <1>1, <1>6, <2>1, <2>2 DEF Types
<1>8. TimeInv'
  BY <1>1, Constants DEF Types, TimeInv, Horizon
<1>9. Jiffies(time') = Jiffies(time) + Cores /\ Jiffies(time) \in Nat
  BY <1>1, <1>4, JiffiesFacts
<1>10. KernelInv'
  <2>1. \A j, x, d \in Nat : x <= j /\ d <= Cores => x + d <= j + Cores
    BY <1>4
  <2>2. self <= Cores
    BY <1>4
  <2>3. kernel'.self <= Jiffies(time) + Cores
    BY <1>1, <1>4, <1>5, <1>9, <2>1, <2>2 DEF KernelInv
  <2> QED BY <1>9, <2>3 DEF KernelInv
<1>11. ASSUME NEW s \in Snapshots
       PROVE  (StatOf(s) => StatOf(s)') /\ (SelfOf(s) => SelfOf(s)')
  <2>1. /\ s.user \in Nat /\ s.idle \in Nat /\ s.self \in Nat /\ s.at \in Nat /\ s.later \in Nat
        /\ Jiffies(s.at) \in Nat /\ Jiffies(s.later) \in Nat
    BY JiffiesFacts DEF Snapshots
  <2>2. self <= Cores
    BY <1>4
  <2>3. \A a, j, u, i, d, q \in Nat : a + j = u + i + q /\ d <= Cores =>
          a + (j + Cores) = (u + d) + (i + Cores - d) + q
    BY <1>4
  <2>4. s.user + s.idle \in Nat
    BY <2>1
  <2>5. ASSUME StatOf(s) PROVE StatOf(s)'
    <3>1. s.user + s.idle + (Jiffies(time) + Cores) = kernel'.user + kernel'.idle + Jiffies(s.at)
      BY <1>4, <1>5, <1>9, <2>1, <2>3, <2>4, <2>5 DEF StatOf
    <3> QED BY <1>9, <3>1 DEF StatOf
  <2>6. ASSUME SelfOf(s) PROVE SelfOf(s)'
    <3>1. s.self <= kernel'.self
      BY <1>4, <1>5, <2>1, <2>6 DEF SelfOf
    <3>2. \A k, q, x, j, d \in Nat : k + q <= x + j /\ d <= Cores => (k + d) + q <= x + (j + Cores)
      BY <1>4
    <3>3. kernel'.self + Jiffies(s.later) <= s.self + (Jiffies(time) + Cores)
      BY <1>4, <1>5, <1>9, <2>1, <2>2, <2>6, <3>2 DEF SelfOf
    <3> QED BY <1>9, <3>1, <3>3 DEF SelfOf
  <2> QED BY <2>5, <2>6
<1>12. SnapshotInv'
  <2>1. prev \in Snapshots /\ curr \in Snapshots
    BY <1>1 DEF Types
  <2>2. /\ StatOf(curr) => StatOf(curr)'
        /\ Full(prev) => Full(prev)'
        /\ Full(curr) => Full(curr)'
    BY <1>1, <1>11, <2>1 DEF Full, StatOf, SelfOf
  <2>3. (Ordered(prev, curr) => Ordered(prev, curr)') /\ (UpTo(prev) => UpTo(prev)')
        /\ (UpTo(curr) => UpTo(curr)')
    BY <1>1 DEF Ordered, UpTo, Jiffies
  <2> QED BY <1>1, <2>2, <2>3 DEF SnapshotInv
<1> QED BY <1>7, <1>8, <1>10, <1>12 DEF IInv

(* The first file of a snapshot.                                           *)
LEMMA ReadStatInv == ASSUME IInv, ReadStat PROVE IInv'
<1>1. /\ Types /\ TimeInv /\ KernelInv /\ SnapshotInv
      /\ pc = "stat" /\ pc' = "self" /\ prev' = curr
      /\ UNCHANGED <<time, kernel, stage, wake, start, first, printed>>
  BY DEF IInv, ReadStat, Shift
<1>2. curr' = [curr EXCEPT !.user = kernel.user, !.idle = kernel.idle, !.at = time]
  BY DEF ReadStat
<1>3. /\ kernel.user \in Nat /\ kernel.idle \in Nat /\ time \in Nat /\ curr \in Snapshots
      /\ curr.at <= time /\ curr.later <= time
  BY <1>1 DEF Types
<1>4. /\ curr' \in Snapshots /\ curr'.user = kernel.user /\ curr'.idle = kernel.idle
      /\ curr'.at = time /\ curr'.self = curr.self /\ curr'.later = curr.later
  BY <1>2, <1>3 DEF Snapshots
<1>5. Types'
  <2>1. \A s \in {curr, curr', first} : s.at <= time /\ s.later <= time
    BY <1>1, <1>3, <1>4 DEF Types
  <2> QED BY <1>1, <1>3, <1>4, <2>1 DEF Types
<1>6. TimeInv' /\ KernelInv'
  BY <1>1 DEF TimeInv, KernelInv
<1>7. StatOf(curr)'
  BY <1>1, <1>4 DEF StatOf
<1>8. stage # "construct" => Full(prev)'
  BY <1>1 DEF SnapshotInv, Full, StatOf, SelfOf
<1>9. stage = "loop" => UpTo(prev)'
  BY <1>1 DEF SnapshotInv, UpTo
<1>10. SnapshotInv'
  BY <1>1, <1>3, <1>4, <1>7, <1>8, <1>9 DEF SnapshotInv
<1> QED BY <1>5, <1>6, <1>10 DEF IInv

(* The second file, and where the monitor goes on.                         *)
LEMMA ReadSelfInv == ASSUME IInv, ReadSelf PROVE IInv'
<1>1. /\ Types /\ TimeInv /\ KernelInv /\ SnapshotInv
      /\ pc = "self" /\ Resume(curr') /\ UNCHANGED <<time, kernel, prev, printed>>
      /\ curr' = [curr EXCEPT !.self = kernel.self, !.later = time]
  BY DEF IInv, ReadSelf
<1>2. /\ kernel.self \in Nat /\ time \in Nat /\ curr \in Snapshots /\ prev \in Snapshots
      /\ curr.at <= time /\ prev.later <= time /\ Jiffies(time) \in Nat
  BY <1>1, JiffiesFacts DEF Types
<1>3. /\ curr' \in Snapshots /\ curr'.self = kernel.self /\ curr'.later = time
      /\ curr'.user = curr.user /\ curr'.idle = curr.idle
      /\ curr'.at = curr.at
  BY <1>1, <1>2 DEF Snapshots
<1>4. Full(curr)'
  <2>1. StatOf(curr)'
    BY <1>1, <1>3 DEF SnapshotInv, StatOf
  <2>2. SelfOf(curr)'
    <3>1. \A a, b \in Nat : a <= a /\ a + b <= a + b
      OBVIOUS
    <3> QED BY <1>1, <1>2, <1>3, <3>1 DEF SelfOf
  <2> QED BY <1>2, <1>3, <2>1, <2>2 DEF Full
<1>5. KernelInv' /\ curr'.at <= time' /\ curr'.later <= time'
  BY <1>1, <1>2, <1>3 DEF KernelInv
<1>6. CASE stage = "construct"
  <2>1. stage' = "warmup" /\ pc' = "sleep" /\ wake' = time + Warmup /\ UNCHANGED <<start, first>>
    BY <1>1, <1>6 DEF Resume, WarmupEnd
  <2>2. Types'
    <3>1. wake' \in 0..(time + Warmup + 1)
      BY <1>2, <2>1, Constants
    <3> QED BY <1>1, <1>3, <1>5, <2>1, <3>1 DEF Types
  <2>3. TimeInv'
    BY <1>1, <1>2, <1>6, <2>1, Constants DEF TimeInv
  <2>4. SnapshotInv'
    BY <1>1, <1>4, <1>6, <2>1 DEF SnapshotInv
  <2> QED BY <1>5, <2>2, <2>3, <2>4 DEF IInv
<1>7. CASE stage = "warmup"
  <2>1. stage' = "loop" /\ pc' = "sleep" /\ wake' = time + 1 /\ start' = time /\ first' = curr'
    BY <1>1, <1>7 DEF Resume, NextSecond
  <2>2. Types'
    <3>1. wake' \in 0..(time + Warmup + 1) /\ start' \in 0..time
      BY <1>2, <2>1, Constants
    <3> QED BY <1>1, <1>3, <1>5, <2>1, <3>1 DEF Types
  <2>3. TimeInv'
    BY <1>1, <1>2, <1>7, <2>1, Constants DEF TimeInv, Horizon
  <2>4. UpTo(curr)'
    <3>1. printed'.u = 0 /\ printed'.t = 0 /\ Jiffies(curr'.at) \in Nat /\ curr'.self \in Nat
      BY <1>1, <1>3, <1>7, JiffiesFacts DEF SnapshotInv, Snapshots
    <3>2. first'.self + printed'.u = curr'.self /\ Jiffies(first'.at) + printed'.t = Jiffies(curr'.at)
      BY <2>1, <3>1
    <3> QED BY <3>2 DEF UpTo, Jiffies
  <2>5. SnapshotInv'
    BY <1>4, <2>1, <2>4 DEF SnapshotInv
  <2> QED BY <1>5, <2>2, <2>3, <2>5 DEF IInv
<1>8. CASE stage = "loop"
  <2>1. pc' = "report" /\ UNCHANGED <<stage, wake, start, first>>
    BY <1>1, <1>8 DEF Resume
  <2>2. Types' /\ TimeInv'
    BY <1>1, <1>3, <1>5, <1>8, <2>1 DEF Types, TimeInv
  <2>3. Full(prev)' /\ UpTo(prev)'
    BY <1>1, <1>8, <2>1 DEF SnapshotInv, Full, StatOf, SelfOf, UpTo
  <2>4. Ordered(prev, curr)'
    BY <1>1, <1>3, <1>8 DEF SnapshotInv, Full, SelfOf, Ordered
  <2>5. SnapshotInv'
    BY <1>4, <1>8, <2>1, <2>3, <2>4 DEF SnapshotInv
  <2> QED BY <1>5, <2>2, <2>5 DEF IInv
<1> QED BY <1>1, <1>6, <1>7, <1>8 DEF Types

LEMMA WakeInv == ASSUME IInv, Wake PROVE IInv'
<1>1. /\ Types /\ TimeInv /\ KernelInv /\ SnapshotInv
      /\ pc = "sleep" /\ pc' = "stat"
      /\ UNCHANGED <<time, kernel, stage, wake, prev, curr, start, first, printed>>
  BY DEF IInv, Wake
<1>2. Types' /\ TimeInv' /\ KernelInv'
  BY <1>1 DEF Types, TimeInv, KernelInv
<1>3. SnapshotInv'
  BY <1>1 DEF SnapshotInv, Full, StatOf, SelfOf, UpTo
<1> QED BY <1>2, <1>3 DEF IInv

(* What CpuUtil computes in unsigned arithmetic is what passed between the *)
(* two snapshots.                                                          *)
LEMMA UtilValue ==
  ASSUME IInv, pc = "report"
  PROVE  /\ CpuUtil(prev, curr).u = curr.self - prev.self
         /\ CpuUtil(prev, curr).t = Jiffies(curr.at) - Jiffies(prev.at)
         /\ curr.self - prev.self \in Nat
         /\ Jiffies(curr.at) - Jiffies(prev.at) \in Nat
<1>1. /\ Types /\ TimeInv /\ KernelInv /\ Full(prev) /\ Full(curr) /\ Ordered(prev, curr)
  BY DEF IInv, SnapshotInv
<1>2. /\ prev.self \in Nat /\ curr.self \in Nat /\ prev.at \in Nat /\ curr.at \in Nat
      /\ prev.later \in Nat /\ kernel.self \in Nat /\ time \in Nat
      /\ prev.user \in Nat /\ prev.idle \in Nat /\ curr.user \in Nat /\ curr.idle \in Nat
      /\ kernel.user \in Nat /\ kernel.idle \in Nat /\ curr.at <= time
  BY <1>1 DEF Types, Snapshots
<1>3. /\ Jiffies(time) \in Nat /\ Jiffies(prev.at) \in Nat /\ Jiffies(curr.at) \in Nat
      /\ Jiffies(Horizon) \in Nat /\ Jiffies(curr.at) <= Jiffies(time)
  BY <1>2, JiffiesFacts, Constants
<1>4. Jiffies(time) < Width /\ Width \in Nat
  <2>1. Jiffies(time) <= Jiffies(Horizon)
    BY <1>1, TimeBounded
  <2> QED BY <1>3, <2>1, WidthFacts, Constants
<1>5. curr.self - prev.self \in Nat /\ curr.self - prev.self < Width
  <2>1. prev.self <= curr.self /\ curr.self <= kernel.self /\ kernel.self <= Jiffies(time)
    BY <1>1 DEF Ordered, Full, SelfOf, KernelInv
  <2> QED BY <1>2, <1>3, <1>4, <2>1
<1>6. Jiffies(prev.at) <= Jiffies(curr.at)
  <2>1. prev.at <= curr.at
    BY <1>1, <1>2 DEF Ordered, Full
  <2> QED BY <1>2, <2>1, JiffiesFacts
<1>7. Total(curr) - Total(prev) = Jiffies(curr.at) - Jiffies(prev.at)
  <2>1. \A p, c, j, k, a, b \in Nat : p + j = k + a /\ c + j = k + b => c - p = b - a
    OBVIOUS
  <2>2. prev.user + prev.idle \in Nat /\ curr.user + curr.idle \in Nat /\ kernel.user + kernel.idle \in Nat
    BY <1>2
  <2>3. /\ prev.user + prev.idle + Jiffies(time) = kernel.user + kernel.idle + Jiffies(prev.at)
        /\ curr.user + curr.idle + Jiffies(time) = kernel.user + kernel.idle + Jiffies(curr.at)
    BY <1>1 DEF Full, StatOf
  <2> QED BY <1>3, <2>1, <2>2, <2>3 DEF Total
<1>8. Jiffies(curr.at) - Jiffies(prev.at) \in Nat /\ Jiffies(curr.at) - Jiffies(prev.at) < Width
  BY <1>3, <1>4, <1>6
<1>9. CpuUtil(prev, curr).u = Uint(curr.self - prev.self)
      /\ CpuUtil(prev, curr).t = Uint(Jiffies(curr.at) - Jiffies(prev.at))
  BY <1>7 DEF CpuUtil
<1> QED BY <1>5, <1>8, <1>9, UintFacts

LEMMA ReportInv == ASSUME IInv, Report PROVE IInv'
<1>1. /\ Types /\ TimeInv /\ KernelInv /\ SnapshotInv
      /\ pc = "report" /\ stage = "loop"
      /\ printed' = [u |-> printed.u + CpuUtil(prev, curr).u, t |-> printed.t + CpuUtil(prev, curr).t]
      /\ UNCHANGED <<time, kernel, stage, prev, curr, start, first>>
      /\ IF Over THEN pc' = "ended" /\ UNCHANGED wake ELSE pc' = "sleep" /\ wake' = time + 1
  BY DEF IInv, Report, SnapshotInv, NextSecond
<1>2. /\ CpuUtil(prev, curr).u = curr.self - prev.self
      /\ CpuUtil(prev, curr).t = Jiffies(curr.at) - Jiffies(prev.at)
      /\ curr.self - prev.self \in Nat
      /\ Jiffies(curr.at) - Jiffies(prev.at) \in Nat
  BY <1>1, UtilValue
<1>3. /\ printed.u \in Nat /\ printed.t \in Nat /\ time \in Nat /\ start \in Nat /\ start <= time
      /\ curr.self \in Nat /\ prev.self \in Nat /\ first.self \in Nat
      /\ Jiffies(curr.at) \in Nat /\ Jiffies(prev.at) \in Nat /\ Jiffies(first.at) \in Nat
  BY <1>1, JiffiesFacts DEF Types, Snapshots
<1>4. /\ printed' \in [u : Nat, t : Nat]
      /\ printed'.u = printed.u + (curr.self - prev.self)
      /\ printed'.t = printed.t + (Jiffies(curr.at) - Jiffies(prev.at))
  BY <1>1, <1>2, <1>3
<1>5. wake' \in 0..(time + Warmup + 1) /\ wake' <= Horizon
  <2>1. CASE Over
    BY <1>1, <2>1, Constants DEF Types, TimeInv
  <2>2. CASE ~Over
    BY <1>1, <1>3, <2>2, Constants DEF TimeInv, Over, Horizon
  <2> QED BY <2>1, <2>2
<1>6. Types'
  BY <1>1, <1>4, <1>5 DEF Types
<1>7. TimeInv' /\ KernelInv'
  BY <1>1, <1>5 DEF TimeInv, KernelInv
<1>8. UpTo(curr)'
  <2>1. \A f, u, p, c \in Nat : f + u = p => f + (u + (c - p)) = c
    OBVIOUS
  <2>2. first.self + printed.u = prev.self /\ Jiffies(first.at) + printed.t = Jiffies(prev.at)
    BY <1>1 DEF SnapshotInv, UpTo
  <2>3. first.self + printed'.u = curr.self
    <3>1. first.self + (printed.u + (curr.self - prev.self)) = curr.self
      BY <1>3, <2>1, <2>2
    <3> QED BY <1>4, <3>1
  <2>4. Jiffies(first.at) + printed'.t = Jiffies(curr.at)
    <3>1. Jiffies(first.at) + (printed.t + (Jiffies(curr.at) - Jiffies(prev.at))) = Jiffies(curr.at)
      BY <1>3, <2>1, <2>2
    <3> QED BY <1>4, <3>1
  <2> QED BY <1>1, <2>3, <2>4 DEF UpTo, Jiffies
<1>9. Full(curr)'
  BY <1>1 DEF SnapshotInv, Full, StatOf, SelfOf
<1>10. SnapshotInv'
  BY <1>1, <1>8, <1>9 DEF SnapshotInv
<1> QED BY <1>6, <1>7, <1>10 DEF IInv

(* The inductive invariant of clock, counters and snapshots.               *)
THEOREM Invariance == Spec => []IInv
<1>1. IInv /\ UNCHANGED vars => IInv'
  <2> SUFFICES ASSUME IInv, UNCHANGED vars PROVE IInv'
    OBVIOUS
  <2>1. Types' /\ TimeInv' /\ KernelInv'
    BY DEF IInv, Types, TimeInv, KernelInv, vars
  <2>2. SnapshotInv'
    BY DEF IInv, SnapshotInv, Full, StatOf, SelfOf, Ordered, UpTo, vars
  <2> QED BY <2>1, <2>2 DEF IInv
<1>2. IInv /\ [Next]_vars => IInv'
  BY <1>1, TickInv, ReadStatInv, ReadSelfInv, WakeInv, ReportInv DEF Next, Monitor
<1>3. Init => IInv
  BY InitInv
<1> QED BY <1>2, <1>3, PTL DEF Spec

-----------------------------------------------------------------------------
(* What CpuMonitor has printed is the use of the process, and the time of  *)
(* all cores, from the end of the warmup to the last snapshot.             *)
THEOREM ReportsTileTheRun == Spec => []Tiled
<1>1. ASSUME IInv PROVE TypeOK
  <2>1. Types
    BY <1>1 DEF IInv
  <2>2. ASSUME NEW s \in {prev, curr, first}
        PROVE  s \in [user : Nat, idle : Nat, self : Nat, at : 0..time, later : 0..time]
    <3>1. s \in Snapshots /\ s.at <= time /\ s.later <= time /\ time \in Nat
      BY <2>1 DEF Types
    <3> QED BY <3>1 DEF Snapshots
  <2> QED BY <2>1, <2>2 DEF Types, TypeOK
<1>2. ASSUME IInv PROVE ReportsTile
  <2> SUFFICES ASSUME stage = "loop", pc \in {"sleep", "stat", "ended"}
               PROVE  /\ printed.u = curr.self - first.self
                      /\ printed.t = Cores * (curr.at - first.at)
    BY DEF ReportsTile
  <2>1. first.self + printed.u = curr.self /\ Jiffies(first.at) + printed.t = Jiffies(curr.at)
    BY <1>2 DEF IInv, SnapshotInv, UpTo
  <2>2. /\ printed.u \in Nat /\ printed.t \in Nat /\ first.self \in Nat /\ curr.self \in Nat
        /\ first.at \in Nat /\ curr.at \in Nat
    BY <1>2 DEF IInv, Types, Snapshots
  <2>3. Jiffies(first.at) \in Nat /\ Jiffies(curr.at) \in Nat
        /\ Cores * (curr.at - first.at) = Jiffies(curr.at) - Jiffies(first.at)
    BY <2>2, JiffiesFacts
  <2> QED BY <2>1, <2>2, <2>3
<1>3. IInv => Tiled
  BY <1>1, <1>2 DEF Tiled
<1> QED BY <1>3, Invariance, PTL

(* A report claims no more than the whole machine and what passed between  *)
(* the reading of the two files.                                           *)
THEOREM UtilIsBounded == Spec => []UtilBounded
<1>1. IInv => UtilBounded
  <2> SUFFICES ASSUME IInv, pc = "report"
               PROVE  CpuUtil(prev, curr).u <= CpuUtil(prev, curr).t + Cores * (curr.later - curr.at)
    BY DEF UtilBounded
  <2>1. /\ CpuUtil(prev, curr).u = curr.self - prev.self
        /\ CpuUtil(prev, curr).t = Jiffies(curr.at) - Jiffies(prev.at)
    BY UtilValue
  <2>2. /\ prev.at \in Nat /\ prev.later \in Nat /\ curr.at \in Nat /\ curr.later \in Nat
        /\ prev.self \in Nat /\ curr.self \in Nat
    BY DEF IInv, Types, Snapshots
  <2>3. /\ Jiffies(prev.at) \in Nat /\ Jiffies(prev.later) \in Nat
        /\ Jiffies(curr.at) \in Nat /\ Jiffies(curr.later) \in Nat
        /\ Cores * (curr.later - curr.at) = Jiffies(curr.later) - Jiffies(curr.at)
    BY <2>2, JiffiesFacts
  <2>4. Jiffies(prev.at) <= Jiffies(prev.later)
    <3>1. prev.at <= prev.later
      BY DEF IInv, SnapshotInv, Full
    <3> QED BY <2>2, <3>1, JiffiesFacts
  <2>5. curr.self + Jiffies(prev.later) <= prev.self + Jiffies(curr.later)
    BY DEF IInv, SnapshotInv, Ordered
  <2> QED BY <2>1, <2>2, <2>3, <2>4, <2>5
<1> QED BY <1>1, Invariance, PTL

(* CpuUtil divides by a number of jiffies that is never zero.              *)
THEOREM IntervalIsNotEmpty == Spec => []IntervalNotEmpty
<1>1. Init => SecondInv
  BY DEF Init, SecondInv
<1>2. IInv /\ SecondInv /\ [Next]_vars => SecondInv'
  <2> SUFFICES ASSUME IInv, SecondInv, [Next]_vars PROVE SecondInv'
    OBVIOUS
  <2>1. /\ time \in Nat /\ curr \in Snapshots /\ curr.at \in Nat /\ prev.at \in Nat /\ wake \in Nat
        /\ curr.at <= time
    BY DEF IInv, Types, Snapshots
  <2>2. CASE Tick
    BY <2>1, <2>2 DEF Tick, SecondInv
  <2>3. CASE ReadStat
    <3>1. curr'.at = time /\ prev' = curr /\ pc = "stat" /\ pc' = "self" /\ stage' = stage
      BY <2>1, <2>3 DEF ReadStat, Shift, Snapshots
    <3> QED BY <3>1 DEF SecondInv
  <2>4. CASE ReadSelf
    <3>1. curr'.at = curr.at /\ prev' = prev /\ pc = "self" /\ Resume(curr')
      BY <2>1, <2>4 DEF ReadSelf, Snapshots
    <3>2. CASE stage = "warmup"
      <4>1. pc' = "sleep" /\ wake' = time + 1
        BY <3>1, <3>2 DEF Resume, NextSecond
      <4> QED BY <2>1, <3>1, <4>1 DEF SecondInv
    <3>3. CASE stage = "construct"
      BY <3>1, <3>3 DEF Resume, SecondInv
    <3>4. CASE stage = "loop"
      BY <3>1, <3>4 DEF Resume, SecondInv
    <3> QED BY <3>2, <3>3, <3>4 DEF IInv, Types
  <2>5. CASE Wake
    BY <2>1, <2>5 DEF Wake, SecondInv
  <2>6. CASE Report
    BY <2>1, <2>6 DEF Report, NextSecond, SecondInv
  <2>7. CASE UNCHANGED vars
    BY <2>7 DEF vars, SecondInv
  <2> QED BY <2>2, <2>3, <2>4, <2>5, <2>6, <2>7 DEF Next, Monitor
<1>3. IInv /\ SecondInv => IntervalNotEmpty
  <2> SUFFICES ASSUME IInv, SecondInv, pc = "report" PROVE CpuUtil(prev, curr).t > 0
    BY DEF IntervalNotEmpty
  <2>1. CpuUtil(prev, curr).t = Jiffies(curr.at) - Jiffies(prev.at)
    BY UtilValue
  <2>2. prev.at \in Nat /\ curr.at \in Nat /\ prev.at < curr.at
    BY DEF IInv, Types, Snapshots, SnapshotInv, SecondInv
  <2>3. Jiffies(prev.at + 1) = Jiffies(prev.at) + Cores /\ Jiffies(prev.at + 1) <= Jiffies(curr.at)
    <3>1. prev.at + 1 \in Nat /\ prev.at + 1 <= curr.at
      BY <2>2
    <3> QED BY <2>2, <3>1, JiffiesFacts
  <2>4. Cores > 0 /\ Cores \in Nat /\ Jiffies(prev.at) \in Nat /\ Jiffies(curr.at) \in Nat
    BY <2>2, NoWrapAssumption, Constants, JiffiesFacts
  <2> QED BY <2>1, <2>3, <2>4
<1> QED BY <1>1, <1>2, <1>3, Invariance, PTL DEF Spec

-----------------------------------------------------------------------------
(* The options a word may give.                                            *)
Options == Strings \cup Numbers \cup {"persistent"}

(* v is what the words before i say of option n.                           *)
Standing(n, v, i) ==
  \/ v = Defaults[n] /\ \A k \in 1..(i - 1) : argv[k].name # n
  \/ \E k \in 1..(i - 1) : /\ argv[k].name = n /\ v = argv[k].arg
                           /\ \A j \in (k + 1)..(i - 1) : argv[j].name # n

(* The operands before i.                                                  *)
OperandsBefore(i) == {k \in 1..(i - 1) : argv[k].kind = "operand"}

(* How far the parse has come.                                             *)
ParseInv ==
  phase = "parse" =>
    /\ \A k \in 1..(optind - 1) : ~Stops(argv[k])
    /\ hosts <= optind - 1 /\ hosts = Cardinality(OperandsBefore(optind))
    /\ \A n \in Options : Standing(n, opts[n], optind)
    /\ opts["is_server"] = None

(* What StartMonitor looks at.                                             *)
AskedInv ==
  phase \notin {"parse", "help", "usage", "throw"} =>
    (opts["monitor_time_sec"] # None <=> GivenAt("monitor_time_sec") # {})

MainInv ==
  /\ MainTypeOK
  /\ opts = [n \in DOMAIN Defaults |-> opts[n]]
  /\ ParseInv /\ AskedInv /\ ParsesAsGiven

(* The options and what they begin with.                                   *)
LEMMA OptionFacts ==
  /\ DOMAIN Defaults = Options \cup {"is_server", "host"}
  /\ Options = DOMAIN Defaults \ {"is_server", "host"}
  /\ {"app", "rpc", "proto", "persistent", "monitor_time_sec"} \subseteq Options
  /\ Numbers \subseteq Options
  /\ Defaults["app"] = None /\ Defaults["rpc"] = None /\ Defaults["is_server"] = None
  /\ \A n \in Numbers : Defaults[n] \in {"default", None}
BY WordsAssumption DEF Defaults, Options, Strings

(* What a word can be.                                                     *)
LEMMA WordFacts ==
  ASSUME NEW w \in Words
  PROVE  /\ w.kind \in {"help", "unknown", "operand", "option"}
         /\ w.kind # "option" => w.name = None /\ w.arg = None
         /\ w.kind = "option" => w.name \in Options
         /\ w.name = "app" => w.arg \in Apps
         /\ w.name = "rpc" => w.arg \in Rpcs
         /\ w.name \in Numbers => w.arg \in {"number", "not a number"}
         /\ Stops(w) <=> w.kind \in {"help", "unknown"} \/ (w.kind = "option" /\ Throws(w))
BY WordsAssumption DEF Words, Options, Strings, Stops, Throws

LEMMA MainStart ==
  ASSUME MainInit
  PROVE  MainInv
<1>1. PICK n \in 0..MaxWords : argv \in [1..n -> Words]
  BY DEF MainInit
<1>2. argv \in Seq(Words) /\ Len(argv) \in Nat
  <2>1. n \in Nat
    <3>1. MaxWords \in Nat
      BY WordsAssumption
    <3> QED BY <3>1
  <2>2. argv \in Seq(Words)
    BY <1>1, <2>1, SeqDef
  <2> QED BY <2>2
<1>3. /\ optind = 1 /\ opts = Defaults /\ hosts = 0 /\ monitor = FALSE /\ phase = "parse"
  BY DEF MainInit
<1>4. monitor \in BOOLEAN
  BY <1>3
<1>5. MainTypeOK
  BY <1>2, <1>3, <1>4, OptionFacts DEF MainTypeOK
<1>6. ParseInv
  <2>1. OperandsBefore(1) = {}
    BY DEF OperandsBefore
  <2> QED BY <1>3, <2>1, OptionFacts, FS_EmptySet DEF ParseInv, Standing
<1>7. AskedInv /\ ParsesAsGiven
  BY <1>3 DEF AskedInv, ParsesAsGiven
<1>8. opts = [m \in DOMAIN Defaults |-> opts[m]]
  BY <1>3 DEF Defaults
<1> QED BY <1>5, <1>6, <1>7, <1>8 DEF MainInv

(* The least and the greatest of a set are what Min and Max choose.        *)
LEMMA MinIs ==
  ASSUME NEW S \in SUBSET Nat, NEW m \in S, \A y \in S : m <= y
  PROVE  Min(S) = m
<1>1. Min(S) \in S /\ \A y \in S : Min(S) <= y
  BY DEF Min
<1>2. Min(S) \in Nat /\ m \in Nat /\ m <= Min(S) /\ Min(S) <= m
  BY <1>1
<1> QED BY <1>2

LEMMA MaxIs ==
  ASSUME NEW S \in SUBSET Nat, NEW m \in S, \A y \in S : m >= y
  PROVE  Max(S) = m
<1>1. Max(S) \in S /\ \A y \in S : Max(S) >= y
  BY DEF Max
<1>2. Max(S) \in Nat /\ m \in Nat /\ m >= Max(S) /\ Max(S) >= m
  BY <1>1
<1> QED BY <1>2

(* One word that does not end the parse.                                   *)
LEMMA OneMoreWord ==
  ASSUME MainInv, Parse, phase' = "parse"
  PROVE  MainInv'
<1> DEFINE w == argv[optind]
<1>1. /\ argv \in Seq(Words) /\ optind \in 1..(Len(argv) + 1) /\ hosts \in 0..Len(argv)
      /\ monitor \in BOOLEAN /\ opts = [n \in DOMAIN Defaults |-> opts[n]]
  BY DEF MainInv, MainTypeOK
<1>2. phase = "parse" /\ optind <= Len(argv) /\ optind' = optind + 1 /\ UNCHANGED <<argv, monitor>>
  BY DEF Parse
<1>3. /\ \A k \in 1..(optind - 1) : ~Stops(argv[k])
      /\ hosts <= optind - 1 /\ hosts = Cardinality(OperandsBefore(optind))
      /\ \A n \in Options : Standing(n, opts[n], optind)
      /\ opts["is_server"] = None
  BY <1>2 DEF MainInv, ParseInv
<1>4. /\ w \in Words /\ optind \in Nat /\ Len(argv) \in Nat
      /\ optind' - 1 = optind
  BY <1>1, <1>2
<1>5. \/ w.kind = "operand" /\ hosts' = hosts + 1 /\ opts' = opts
      \/ w.kind = "option" /\ hosts' = hosts /\ ~Throws(w) /\ Store(w)
  BY <1>2 DEF Parse
<1> HIDE DEF w
<1>6. ~Stops(w)
  BY <1>4, <1>5, WordFacts
<1>7. IsFiniteSet(OperandsBefore(optind)) /\ optind \notin OperandsBefore(optind)
  <2>1. OperandsBefore(optind) \in SUBSET (1..(optind - 1))
    BY DEF OperandsBefore
  <2>2. 1 \in Int /\ optind - 1 \in Int /\ optind \notin 1..(optind - 1)
    BY <1>4
  <2>3. IsFiniteSet(1..(optind - 1))
    BY <2>2, FS_Interval
  <2> QED BY <2>1, <2>2, <2>3, FS_Subset
<1>15. 1..(optind' - 1) = (1..(optind - 1)) \cup {optind}
  <2>1. 1..optind = (1..(optind - 1)) \cup {optind}
    BY <1>1
  <2> QED BY <1>4, <2>1
<1>8. \A k \in 1..(optind' - 1) : ~Stops(argv[k])
  <2>1. \A k \in 1..optind : k = optind \/ k \in 1..(optind - 1)
    BY <1>4
  <2> QED BY <1>3, <1>4, <1>6, <2>1 DEF w
<1>9. hosts' <= optind' - 1 /\ hosts' = Cardinality(OperandsBefore(optind'))
  <2>1. CASE w.kind = "operand"
    <3>1. OperandsBefore(optind') = OperandsBefore(optind) \cup {optind}
      BY <1>15, <2>1 DEF OperandsBefore, w
    <3>2. Cardinality(OperandsBefore(optind')) = Cardinality(OperandsBefore(optind)) + 1
      BY <1>7, <3>1, FS_AddElement
    <3> QED BY <1>1, <1>3, <1>4, <1>5, <2>1, <3>2
  <2>2. CASE w.kind = "option"
    <3>1. OperandsBefore(optind') = OperandsBefore(optind)
      BY <1>15, <2>2 DEF OperandsBefore, w
    <3> QED BY <1>1, <1>3, <1>4, <1>5, <2>2, <3>1
  <2> QED BY <1>5, <2>1, <2>2
<1>10. /\ opts' = [n \in DOMAIN Defaults |-> opts'[n]]
       /\ opts'["is_server"] = None
       /\ \A n \in Options : opts'[n] = IF w.name = n THEN w.arg ELSE opts[n]
  <2>1. CASE w.kind = "operand"
    <3>1. \A n \in Options : w.name # n
      BY <1>4, <2>1, WordFacts, WordsAssumption DEF Options, Strings
    <3> QED BY <1>1, <1>3, <1>5, <2>1, <3>1
  <2>2. CASE w.kind = "option"
    <3>1. w.name \in Options /\ w.name \in DOMAIN Defaults /\ w.name # "is_server"
      BY <1>4, <2>2, WordFacts, OptionFacts
    <3>2. opts' = [opts EXCEPT ![w.name] = w.arg]
      BY <1>5, <2>2 DEF Store
    <3> QED BY <1>1, <1>3, <3>1, <3>2, OptionFacts
  <2> QED BY <1>5, <2>1, <2>2
<1>11. ASSUME NEW n \in Options PROVE Standing(n, opts'[n], optind')
  <2>1. \A k \in 1..(optind' - 1) : k = optind \/ k \in 1..(optind - 1)
    BY <1>4
  <2>2. CASE w.name = n
    <3>1. optind \in 1..(optind' - 1) /\ (optind + 1)..(optind' - 1) = {}
      <4>1. optind \in 1..optind /\ (optind + 1)..optind = {}
        BY <1>1, <1>2
      <4> QED BY <1>4, <4>1
    <3> QED BY <1>10, <2>2, <3>1 DEF Standing, w
  <2>3. CASE w.name # n
    <3>1. opts'[n] = opts[n] /\ Standing(n, opts[n], optind)
      BY <1>3, <1>10, <2>3
    <3>2. CASE opts[n] = Defaults[n] /\ \A k \in 1..(optind - 1) : argv[k].name # n
      BY <2>1, <2>3, <3>1, <3>2 DEF Standing, w
    <3>3. ASSUME NEW k \in 1..(optind - 1), argv[k].name = n, opts[n] = argv[k].arg,
                 \A j \in (k + 1)..(optind - 1) : argv[j].name # n
          PROVE  Standing(n, opts'[n], optind')
      <4>1. k \in 1..(optind' - 1)
        BY <1>4
      <4>2. \A j \in (k + 1)..(optind' - 1) : j = optind \/ j \in (k + 1)..(optind - 1)
        BY <1>4
      <4>3. \A j \in (k + 1)..(optind' - 1) : argv[j].name # n
        BY <2>3, <3>3, <4>2 DEF w
      <4> QED BY <3>1, <3>3, <4>1, <4>3 DEF Standing
    <3> QED BY <3>1, <3>2, <3>3 DEF Standing
  <2> QED BY <2>2, <2>3
<1>12. ParseInv'
  <2>1. ASSUME NEW n \in Options PROVE Standing(n, opts[n], optind)'
    BY <1>2, <1>11 DEF Standing
  <2>2. (OperandsBefore(optind))' = OperandsBefore(optind')
    BY <1>2 DEF OperandsBefore
  <2> QED BY <1>2, <1>8, <1>9, <1>10, <2>1, <2>2 DEF ParseInv, Stops
<1>13. MainTypeOK'
  <2>1. hosts' \in 0..Len(argv) /\ optind' \in 1..(Len(argv) + 1)
    BY <1>1, <1>2, <1>4, <1>5, <1>9
  <2>2. opts'["app"] \in Apps \cup {None} /\ opts'["rpc"] \in Rpcs \cup {None}
    BY <1>4, <1>10, WordFacts, OptionFacts DEF MainInv, MainTypeOK
  <2>3. \A n \in Numbers : opts'[n] \in {"default", "number", None}
    <3>1. w.name \in Numbers => w.arg = "number"
      <4>1. w.name \in Numbers => w.arg \in {"number", "not a number"}
        BY <1>4, WordFacts
      <4> QED BY <1>6, <4>1 DEF Stops
    <3> QED BY <1>10, <3>1, OptionFacts DEF MainInv, MainTypeOK
  <2> QED BY <1>1, <1>2, <1>10, <2>1, <2>2, <2>3 DEF MainTypeOK
<1>14. AskedInv' /\ ParsesAsGiven'
  BY DEF AskedInv, ParsesAsGiven
<1> QED BY <1>10, <1>12, <1>13, <1>14 DEF MainInv

(* A word that ends the parse: the first of its kind.                      *)
LEMMA StopWord ==
  ASSUME MainInv, Parse, phase' # "parse"
  PROVE  MainInv'
<1> DEFINE w == argv[optind]
<1>1. /\ argv \in Seq(Words) /\ optind \in 1..(Len(argv) + 1) /\ hosts \in 0..Len(argv)
      /\ opts = [n \in DOMAIN Defaults |-> opts[n]]
  BY DEF MainInv, MainTypeOK
<1>2. /\ phase = "parse" /\ optind <= Len(argv) /\ optind' = optind + 1
      /\ UNCHANGED <<argv, monitor>>
  BY DEF Parse
<1>3. w \in Words /\ optind \in 1..Len(argv) /\ Len(argv) \in Nat
  BY <1>1, <1>2
<1>4. /\ UNCHANGED <<opts, hosts>>
      /\ \/ w.kind = "help" /\ phase' = "help"
         \/ w.kind = "unknown" /\ phase' = "usage"
         \/ w.kind = "option" /\ Throws(w) /\ phase' = "throw"
  BY <1>2 DEF Parse
<1> HIDE DEF w
<1>5. Stops(w)
  BY <1>3, <1>4, WordFacts
<1>6. Min(StopsAt) = optind
  <2>1. StopsAt \in SUBSET Nat /\ optind \in StopsAt
    BY <1>3, <1>5 DEF StopsAt, w
  <2>2. ASSUME NEW k \in StopsAt PROVE optind <= k
    <3>1. \A i \in 1..(optind - 1) : ~Stops(argv[i])
      BY <1>2 DEF MainInv, ParseInv
    <3>2. k \in 1..Len(argv) /\ k \notin 1..(optind - 1)
      BY <2>2, <3>1 DEF StopsAt
    <3> QED BY <1>3, <3>2
  <2> QED BY <2>1, <2>2, MinIs
<1>7. phase' = CASE w.kind = "help" -> "help" [] w.kind = "unknown" -> "usage" [] OTHER -> "throw"
  BY <1>4
<1>8. StopsAt' = StopsAt /\ StopsAt # {} /\ Min(StopsAt)' = Min(StopsAt)
  <2>1. StopsAt' = StopsAt
    BY <1>2 DEF StopsAt, Stops
  <2> QED BY <1>3, <1>5, <2>1 DEF StopsAt, w
<1>9. ParsesAsGiven'
  BY <1>2, <1>6, <1>7, <1>8 DEF ParsesAsGiven, w
<1>10. phase' \in {"help", "usage", "throw"}
  BY <1>4
<1>11. MainTypeOK'
  <2>1. optind' \in 1..(Len(argv) + 1)
    BY <1>2, <1>3
  <2> QED BY <1>1, <1>2, <1>4, <1>10, <2>1 DEF MainInv, MainTypeOK
<1>12. ParseInv' /\ AskedInv'
  BY <1>10 DEF ParseInv, AskedInv
<1> QED BY <1>1, <1>4, <1>9, <1>11, <1>12 DEF MainInv

(* The end of the words.                                                   *)
LEMMA EndOfWords ==
  ASSUME MainInv, Operands
  PROVE  MainInv'
<1>1. /\ argv \in Seq(Words) /\ hosts \in 0..Len(argv) /\ optind \in 1..(Len(argv) + 1)
      /\ opts = [n \in DOMAIN Defaults |-> opts[n]]
  BY DEF MainInv, MainTypeOK
<1>2. phase = "parse" /\ optind = Len(argv) + 1 /\ UNCHANGED <<argv, optind, hosts, monitor>>
  BY DEF Operands
<1>3. Len(argv) \in Nat /\ optind - 1 = Len(argv)
  BY <1>1, <1>2
<1>4. /\ \A k \in 1..(optind - 1) : ~Stops(argv[k])
      /\ hosts = Cardinality(OperandsBefore(optind))
      /\ \A n \in Options : Standing(n, opts[n], optind)
  BY <1>2 DEF MainInv, ParseInv
<1>5. StopsAt = {} /\ OperandsBefore(optind) = OperandAt
  BY <1>3, <1>4 DEF StopsAt, OperandsBefore, OperandAt
<1>6. IsFiniteSet(OperandAt)
  <2>1. OperandAt \in SUBSET (1..Len(argv)) /\ IsFiniteSet(1..Len(argv))
    BY <1>3, FS_Interval DEF OperandAt
  <2> QED BY <2>1, FS_Subset
<1>7. hosts = Cardinality(OperandAt) /\ (hosts = 0 <=> OperandAt = {})
  BY <1>4, <1>5, <1>6, FS_EmptySet
<1>8. ASSUME NEW n \in Options
      PROVE  opts[n] = IF GivenAt(n) = {} THEN Defaults[n] ELSE argv[Max(GivenAt(n))].arg
  <2>1. CASE opts[n] = Defaults[n] /\ \A k \in 1..(optind - 1) : argv[k].name # n
    BY <1>3, <2>1 DEF GivenAt
  <2>2. ASSUME NEW k \in 1..(optind - 1), argv[k].name = n, opts[n] = argv[k].arg,
               \A j \in (k + 1)..(optind - 1) : argv[j].name # n
        PROVE  opts[n] = argv[Max(GivenAt(n))].arg /\ GivenAt(n) # {}
    <3>1. k \in GivenAt(n) /\ GivenAt(n) \in SUBSET Nat
      BY <1>3, <2>2 DEF GivenAt
    <3>2. ASSUME NEW j \in GivenAt(n) PROVE k >= j
      <4>1. j \in 1..Len(argv) /\ j \notin (k + 1)..Len(argv)
        BY <1>3, <2>2, <3>2 DEF GivenAt
      <4> QED BY <1>3, <4>1
    <3>3. Max(GivenAt(n)) = k
      BY <3>1, <3>2, MaxIs
    <3> QED BY <2>2, <3>1, <3>3
  <2> QED BY <1>4, <2>1, <2>2 DEF Standing
<1>9. StopsAt' = StopsAt /\ OperandAt' = OperandAt /\ \A n : GivenAt(n)' = GivenAt(n)
  BY <1>2 DEF StopsAt, OperandAt, GivenAt, Stops
<1>10. CASE hosts > 1
  <2>1. phase' = "usage" /\ opts' = opts
    BY <1>10 DEF Operands
  <2>2. Cardinality(OperandAt)' > 1 /\ StopsAt' = {}
    BY <1>5, <1>7, <1>9, <1>10
  <2>3. ParsesAsGiven'
    BY <2>1, <2>2 DEF ParsesAsGiven
  <2>4. MainTypeOK'
    BY <1>2, <2>1 DEF MainInv, MainTypeOK
  <2>5. ParseInv' /\ AskedInv'
    BY <2>1 DEF ParseInv, AskedInv
  <2> QED BY <1>1, <2>1, <2>3, <2>4, <2>5 DEF MainInv
<1>11. CASE ~(hosts > 1)
  <2>1. phase' = "monitor" /\ AssignRole
    BY <1>11 DEF Operands
  <2>2. opts' = [opts EXCEPT !["is_server"] = (hosts = 0), !["host"] = IF hosts = 0 THEN None ELSE "given"]
    BY <2>1 DEF AssignRole
  <2>3. "is_server" \in DOMAIN Defaults /\ "host" \in DOMAIN Defaults
    BY OptionFacts
  <2>4. /\ opts' = [n \in DOMAIN Defaults |-> opts'[n]]
        /\ \A n \in Options : opts'[n] = opts[n]
    <3>1. \A n \in Options : n \in DOMAIN Defaults /\ n # "is_server" /\ n # "host"
      BY OptionFacts
    <3> QED BY <1>1, <2>2, <3>1
  <2>5. opts'["is_server"] = (hosts = 0)
    BY <1>1, <2>2, <2>3
  <2>6. opts'["host"] = IF hosts = 0 THEN None ELSE "given"
    BY <1>1, <2>2, <2>3
  <2>7. opts'["host"] = IF OperandAt' = {} THEN None ELSE "given"
    BY <1>7, <1>9, <2>6
  <2>8. opts'["monitor_time_sec"] # None <=> GivenAt("monitor_time_sec") # {}
    <3> DEFINE m == "monitor_time_sec"
    <3>1. m \in Options /\ m \in Numbers /\ Defaults[m] = None /\ opts'[m] = opts[m]
      BY <2>4, OptionFacts, WordsAssumption DEF Defaults, Strings
    <3>2. CASE opts[m] = Defaults[m] /\ \A k \in 1..(optind - 1) : argv[k].name # m
      BY <1>3, <3>1, <3>2 DEF GivenAt
    <3>3. ASSUME NEW k \in 1..(optind - 1), argv[k].name = m, opts[m] = argv[k].arg
          PROVE  opts[m] # None /\ GivenAt(m) # {}
      <4>1. k \in 1..Len(argv)
        BY <1>3, <3>3
      <4>2. argv[k] \in Words /\ k \in GivenAt(m)
        BY <1>1, <3>3, <4>1 DEF GivenAt
      <4>3. argv[k].arg \in {"number", "not a number"}
        BY <3>1, <3>3, <4>2, WordFacts
      <4> QED BY <3>3, <4>2, <4>3, WordsAssumption
    <3> QED BY <1>4, <3>1, <3>2, <3>3 DEF Standing
  <2>9. opts'["is_server"] = (OperandAt' = {})
    BY <1>7, <1>9, <2>5
  <2>10. ParsesAsGiven'
    <3>1. ~(Cardinality(OperandAt)' > 1) /\ StopsAt' = {}
      BY <1>5, <1>7, <1>9, <1>11
    <3>2. ASSUME NEW n \in DOMAIN Defaults \ {"is_server", "host"}
          PROVE  (opts[n] = IF GivenAt(n) = {} THEN Defaults[n] ELSE argv[Max(GivenAt(n))].arg)'
      <4>1. n \in Options
        BY OptionFacts
      <4>2. opts'[n] = IF GivenAt(n) = {} THEN Defaults[n] ELSE argv[Max(GivenAt(n))].arg
        BY <1>8, <2>4, <4>1
      <4> QED BY <1>2, <1>9, <4>2
    <3>3. phase' \notin {"help", "usage", "throw"}
      BY <2>1
    <3> QED BY <2>1, <2>7, <2>9, <3>1, <3>2, <3>3 DEF ParsesAsGiven
  <2>11. MainTypeOK'
    <3>1. opts'["is_server"] \in {TRUE, FALSE, None}
      BY <2>5, Zenon
    <3> QED BY <1>2, <2>1, <2>4, <3>1, OptionFacts DEF MainInv, MainTypeOK
  <2>12. AskedInv'
    BY <1>9, <2>8 DEF AskedInv
  <2>13. ParseInv'
    BY <2>1 DEF ParseInv
  <2> QED BY <2>4, <2>10, <2>11, <2>12, <2>13 DEF MainInv
<1> QED BY <1>10, <1>11

(* What App::Create can return.                                            *)
LEMMA CreateType ==
  \A a, r : Create(a, r) \in {"run", "null", "check"}
BY DEF Create

(* From the parse to the end of Run.                                       *)
LEMMA MonitorAndCreate ==
  ASSUME MainInv, StartMonitor \/ CreateApp \/ Return
  PROVE  MainInv'
<1>1. UNCHANGED <<argv, optind, opts, hosts>> /\ phase \in {"monitor", "create", "run"}
  BY DEF StartMonitor, CreateApp, Return
<1>2. phase' \in {"create", "run", "null", "check", "returned"}
  BY CreateType DEF StartMonitor, CreateApp, Return
<1>3. monitor' \in BOOLEAN
  <2>1. monitor \in BOOLEAN
    BY DEF MainInv, MainTypeOK
  <2> QED BY <2>1, Zenon DEF StartMonitor, CreateApp, Return
<1>4. MainTypeOK'
  BY <1>1, <1>2, <1>3 DEF MainInv, MainTypeOK
<1>5. StopsAt' = StopsAt /\ OperandAt' = OperandAt /\ \A n : GivenAt(n)' = GivenAt(n)
  BY <1>1 DEF StopsAt, OperandAt, GivenAt, Stops
<1>6. ParseInv'
  BY <1>2 DEF ParseInv
<1>7. opts["monitor_time_sec"] # None <=> GivenAt("monitor_time_sec") # {}
  BY <1>1 DEF MainInv, AskedInv
<1>8. AskedInv'
  BY <1>1, <1>5, <1>7 DEF AskedInv
<1>9. StopsAt = {}
  <2>1. phase # "parse" /\ ParsesAsGiven /\ phase \notin {"help", "usage", "throw"}
    BY <1>1 DEF MainInv
  <2>2. ASSUME StopsAt # {} PROVE FALSE
    BY <2>1, <2>2 DEF ParsesAsGiven
  <2> QED BY <2>2
<1>10. ParsesAsGiven'
  <2>1. ~(Cardinality(OperandAt) > 1)
    BY <1>1, <1>9 DEF MainInv, ParsesAsGiven
  <2>2. ASSUME NEW n \in DOMAIN Defaults \ {"is_server", "host"}
        PROVE  (opts[n] = IF GivenAt(n) = {} THEN Defaults[n] ELSE argv[Max(GivenAt(n))].arg)'
    <3>1. opts[n] = IF GivenAt(n) = {} THEN Defaults[n] ELSE argv[Max(GivenAt(n))].arg
      BY <1>1, <1>9, <2>1 DEF MainInv, ParsesAsGiven
    <3> QED BY <1>1, <1>5, <3>1
  <2>3. /\ opts["is_server"] = (OperandAt = {})
        /\ opts["host"] = IF OperandAt = {} THEN None ELSE "given"
        /\ phase # "monitor" => (monitor <=> GivenAt("monitor_time_sec") # {})
    BY <1>1, <1>9, <2>1 DEF MainInv, ParsesAsGiven
  <2>4. opts'["is_server"] = (OperandAt' = {}) /\ opts'["host"] = IF OperandAt' = {} THEN None ELSE "given"
    BY <1>1, <1>5, <2>3
  <2>5. monitor' <=> GivenAt("monitor_time_sec")' # {}
    <3>1. CASE StartMonitor
      BY <1>5, <1>7, <3>1 DEF StartMonitor
    <3>2. CASE CreateApp \/ Return
      BY <1>5, <2>3, <3>2 DEF CreateApp, Return
    <3> QED BY <3>1, <3>2
  <2>6. phase' \notin {"help", "usage", "throw"}
    BY <1>2
  <2> QED BY <1>5, <1>9, <2>1, <2>2, <2>4, <2>5, <2>6 DEF ParsesAsGiven
<1> QED BY <1>1, <1>4, <1>6, <1>8, <1>10 DEF MainInv

LEMMA MainStutter ==
  ASSUME MainInv, UNCHANGED main
  PROVE  MainInv'
<1> USE DEF main
<1>1. MainTypeOK' /\ AskedInv'
  <2>1. GivenAt("monitor_time_sec")' = GivenAt("monitor_time_sec")
    BY DEF GivenAt
  <2>2. MainTypeOK'
    BY DEF MainInv, MainTypeOK
  <2> QED BY <2>1, <2>2 DEF MainInv, AskedInv
<1>2. ParseInv'
  <2>1. OperandsBefore(optind)' = OperandsBefore(optind)
    BY DEF OperandsBefore
  <2>2. \A n : Standing(n, opts[n], optind)' <=> Standing(n, opts[n], optind)
    BY DEF Standing
  <2> QED BY <2>1, <2>2 DEF MainInv, ParseInv, Stops
<1>3. ParsesAsGiven'
  <2>1. StopsAt' = StopsAt /\ OperandAt' = OperandAt /\ \A n : GivenAt(n)' = GivenAt(n)
    BY DEF StopsAt, OperandAt, GivenAt, Stops
  <2> QED BY <2>1 DEF MainInv, ParsesAsGiven
<1> QED BY <1>1, <1>2, <1>3 DEF MainInv

(* A command line of any length, of any words in any order, is taken as it *)
(* reads: what ParseArgument stores word by word, and what main starts, is *)
(* a function of the whole.                                                *)
THEOREM CommandLineAsGiven == MainSpec => []OutcomeAsGiven
<1>1. MainInit => MainInv
  BY MainStart
<1>2. MainInv /\ [MainNext]_main => MainInv'
  BY OneMoreWord, StopWord, EndOfWords, MonitorAndCreate, MainStutter DEF MainNext
<1>3. MainInv => OutcomeAsGiven
  BY DEF MainInv, OutcomeAsGiven
<1> QED BY <1>1, <1>2, <1>3, PTL DEF MainSpec

-----------------------------------------------------------------------------
(* The process of the two threads behaves as each of them does: what is    *)
(* proved of main and of the monitor holds of the process.                 *)
THEOREM ThreadsTogether == ProcSpec => MainSpec /\ Spec
<1>1. ProcInit => MainInit /\ Init
  BY DEF ProcInit
<1>2. [ProcNext]_<<main, vars>> => [MainNext]_main /\ [Next]_vars
  BY DEF ProcNext, MainThread, MonitorThread
<1> QED BY <1>1, <1>2, PTL DEF ProcSpec, MainSpec, Spec

=============================================================================
