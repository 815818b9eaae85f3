------------------------------ MODULE AppMain -------------------------------
(***************************************************************************)
(* main of rpc_bench.cc: ParseArgument over the words of the command line, *)
(* the monitor thread, App::Create and the virtual Run.                    *)
(*                                                                         *)
(* A word is an option with its argument, or an operand.  Numeric options  *)
(* are all alike: the argument is a number, or std::stoi throws and nobody *)
(* catches it.  getopt_long permutes the words, so operands come last.     *)
(***************************************************************************)
EXTENDS Integers, Sequences, FiniteSets, FiniteSetsExt

CONSTANTS
  Apps,      \* arguments of --app
  Rpcs,      \* arguments of --rpc
  Numbers,   \* numeric options: "port", "data_size", "monitor_time_sec", ...
  MaxWords,  \* bound on argc - 1
  None       \* std::nullopt

(* Options have names of their own, and std::nullopt is no argument.       *)
ASSUME WordsAssumption ==
  /\ MaxWords \in Nat
  /\ "monitor_time_sec" \in Numbers
  /\ Numbers \cap {"app", "rpc", "proto", "persistent", "is_server", "host"} = {}
  /\ None \notin Numbers \cup {"app", "rpc", "proto", "persistent", "is_server", "host"}
  /\ None \notin {"given", "default", "number", "not a number"}

VARIABLES
  argv,     \* the words
  optind,   \* the next word to look at
  opts,     \* CommandOpts
  hosts,    \* operands, after the permutation
  monitor,  \* the monitor thread was started
  phase     \* "parse", "monitor", "create", "run", and how the process ends:
            \* "help", "usage", "throw", "check" (CHECK or FATAL), "null",
            \* "returned"

main == <<argv, optind, opts, hosts, monitor, phase>>

Strings == {"app", "rpc", "proto"}
Words == [kind : {"help", "unknown", "operand"}, name : {None}, arg : {None}]
           \cup [kind : {"option"}, name : {"app"}, arg : Apps]
           \cup [kind : {"option"}, name : {"rpc"}, arg : Rpcs]
           \cup [kind : {"option"}, name : {"proto", "persistent"}, arg : {"given"}]
           \cup [kind : {"option"}, name : Numbers, arg : {"number", "not a number"}]

(* CommandOpts(): a default or std::nullopt.                               *)
Defaults ==
  [n \in Strings \cup Numbers \cup {"persistent", "is_server", "host"} |->
     IF n \in Strings \cup {"monitor_time_sec", "is_server", "host"} THEN None ELSE "default"]

MainInit ==
  /\ argv \in UNION {[1..n -> Words] : n \in 0..MaxWords}
  /\ optind = 1
  /\ opts = Defaults
  /\ hosts = 0
  /\ monitor = FALSE
  /\ phase = "parse"

(* std::stoi or std::stof of the argument.                                 *)
Throws(w) == w.arg = "not a number"

(* The switch of ParseArgument on an option.                               *)
StoreIfUnset(w) ==
  opts' = IF opts[w.name] = Defaults[w.name] THEN [opts EXCEPT ![w.name] = w.arg] ELSE opts
Store(w) == opts' = [opts EXCEPT ![w.name] = w.arg]

(* One getopt_long.                                                        *)
Parse ==
  /\ phase = "parse"
  /\ optind <= Len(argv)
  /\ optind' = optind + 1
  /\ LET w == argv[optind] IN
       \/ w.kind = "help" /\ phase' = "help" /\ UNCHANGED <<opts, hosts>>
       \/ w.kind = "unknown" /\ phase' = "usage" /\ UNCHANGED <<opts, hosts>>
       \/ w.kind = "operand" /\ hosts' = hosts + 1 /\ UNCHANGED <<opts, phase>>
       \/ /\ w.kind = "option"
          /\ IF Throws(w) THEN phase' = "throw" /\ UNCHANGED opts
                       ELSE Store(w) /\ UNCHANGED phase
          /\ UNCHANGED hosts
  /\ UNCHANGED <<argv, monitor>>

(* is_server and host, from the operands.                                  *)
AssignRole ==
  opts' = [opts EXCEPT !["is_server"] = (hosts = 0), !["host"] = IF hosts = 0 THEN None ELSE "given"]

Operands ==
  /\ phase = "parse"
  /\ optind = Len(argv) + 1
  /\ IF hosts > 1 THEN phase' = "usage" /\ UNCHANGED opts
                  ELSE phase' = "monitor" /\ AssignRole
  /\ UNCHANGED <<argv, optind, hosts, monitor>>

StartMonitor ==
  /\ phase = "monitor"
  /\ monitor' = (opts["monitor_time_sec"] # None)
  /\ phase' = "create"
  /\ UNCHANGED <<argv, optind, opts, hosts>>

(* What App::Create makes of (app, rpc): an App, NULL, or a fatal error.   *)
Create(app, rpc) ==
  IF app = None \/ rpc = None THEN "check" ELSE
  CASE app = "bandwidth" -> IF rpc \in {"grpc", "socket", "brpc", "zeromq"} THEN "run" ELSE "null"
    [] app \in {"latency", "throughput", "hotel_reservation"} ->
         IF rpc = "grpc" THEN "run" ELSE "check"
    [] OTHER -> "check"

(* App::Create, and app->Run() on what it returned.                        *)
CreateApp ==
  /\ phase = "create"
  /\ phase' = Create(opts["app"], opts["rpc"])
  /\ UNCHANGED <<argv, optind, opts, hosts, monitor>>

(* Run returns: a client's, or that of a brpc server told to quit.         *)
Return ==
  /\ phase = "run"
  /\ phase' = "returned"
  /\ UNCHANGED <<argv, optind, opts, hosts, monitor>>

MainNext == Parse \/ Operands \/ StartMonitor \/ CreateApp \/ Return

MainSpec == MainInit /\ [][MainNext]_main

-----------------------------------------------------------------------------
(* Every variable keeps its type.                                          *)
MainTypeOK ==
  /\ argv \in Seq(Words) /\ optind \in 1..(Len(argv) + 1)
  /\ opts["app"] \in Apps \cup {None} /\ opts["rpc"] \in Rpcs \cup {None}
  /\ \A n \in Numbers : opts[n] \in {"default", "number", None}
  /\ opts["is_server"] \in {TRUE, FALSE, None}
  /\ hosts \in 0..Len(argv) /\ monitor \in BOOLEAN
  /\ phase \in {"parse", "monitor", "create", "run", "help", "usage", "throw", "check", "null", "returned"}

(* The words that end the parse, the operands, and those that give n.      *)
Stops(w) == w.kind \in {"help", "unknown"} \/ w.arg = "not a number"
StopsAt == {k \in 1..Len(argv) : Stops(argv[k])}
OperandAt == {k \in 1..Len(argv) : argv[k].kind = "operand"}
GivenAt(n) == {k \in 1..Len(argv) : argv[k].name = n}

(* The command line means what it says whatever the order of its words:    *)
(* the first word that stops the parse decides how it ends, a second host  *)
(* is refused, of an option given twice the last counts, and nothing else  *)
(* changes a default; a client, and only a client, has the host that its   *)
(* Init takes the value() of; and the monitor thread runs when it was      *)
(* asked for.                                                              *)
ParsesAsGiven ==
  phase # "parse" =>
    IF StopsAt # {}
      THEN LET stop == argv[Min(StopsAt)] IN
           phase = CASE stop.kind = "help" -> "help" [] stop.kind = "unknown" -> "usage"
                     [] OTHER -> "throw"
      ELSE IF Cardinality(OperandAt) > 1 THEN phase = "usage"
      ELSE /\ phase \notin {"help", "usage", "throw"}
           /\ \A n \in DOMAIN Defaults \ {"is_server", "host"} :
                opts[n] = IF GivenAt(n) = {} THEN Defaults[n] ELSE argv[Max(GivenAt(n))].arg
           /\ opts["is_server"] = (OperandAt = {})
           /\ opts["host"] = IF OperandAt = {} THEN None ELSE "given"
           /\ phase # "monitor" => (monitor <=> GivenAt("monitor_time_sec") # {})

(* What a command line leads to, from its words to the call of Run.        *)
OutcomeAsGiven == MainTypeOK /\ ParsesAsGiven

(* What ShowUsage offers: any of these applications and any of these       *)
(* libraries; main runs the two or ends with an error, it does not call    *)
(* Run on a pointer that is NULL.                                          *)
UsageHolds ==
  /\ opts["app"] \in {"bandwidth", "latency", "throughput", "hotel_reservation"}
  /\ opts["rpc"] \in {"grpc", "socket", "thrift", "brpc"}
  => phase # "null"

=============================================================================
