# A TLA+ model of rpc-bench

rpc-bench measures RPC libraries. It runs small clients and servers over gRPC,
brpc, ZeroMQ and plain TCP sockets, and prints bandwidth, latency or throughput.
This directory holds TLA+ modules for the parts with logic of their own, the TLC
configurations that check them on small instances, and TLAPS proofs.

## 1. Inventory

Paths are relative to the repository's root.

| Part | State | Operations | Module |
|---|---|---|---|
| Socket server (`src/socket/socket_bw_app.cc`, `bw_server_endpoint.cc`, `buffer.h`) | one `BwServerEndpoint` per connection: `state_`, `interest_`, header and data buffers, `tx_queue_` | `OnAccepted`, `OnRecvReady` (`ReceiveMeta`, `ReceiveHeader`, `ReceiveData`, `Reply`), `OnSendReady`, `OnError` | `SocketBw` |
| Event loop and polling (`SocketBwServerApp::Run`, `poll.h`) | epoll set, edge-triggered; batch of events | `PollUntil`, `Register`, `Reregister`, `Deregister`, dispatch | `SocketBw`, `SocketAccept` |
| Socket client (`SocketBwClientApp::PushData`, `bw_app.cc`) | bytes sent and received of the current call | `SendAll`, `RecvAll`, loop until the time is up | `SocketBw` |
| Accepting and ownership (`HandleNewConnection`, `endpoints_`) | map from descriptor to endpoint, listener | `accept`, `GetPeerAddr`, store, `OnError`, `erase` | `SocketAccept` |
| Coming up (`Init` of both socket applications, `socket.h`) | listener options, the port | create, bind, listen, register; connect and retry | `SocketInit` |
| Bandwidth service as a caller sees it (`bw_app.h`) | calls and acknowledgements | push, serve, acknowledge, fail | `BwService` (abstract) |
| gRPC latency and throughput clients (`grpc_lat_app.cc`, `grpc_tput_app.cc`) | window of `AsyncClientCall`, `req_cnt`, clock | fill, completion, drain | `GrpcAsync` |
| gRPC asynchronous server (`grpc_lat_app.cc`) | `AsyncServerCall` objects, one completion queue per thread | `Proceed`, `Job` | `GrpcAsync` |
| Hotel reservation (`hotel_reservation_app.cc`) and the access control filter (`content-based-acl/src/lib.rs`) | window of calls, counts; pieces of a body held by the proxy; one listener | `GenerateWorkload`, completion, drain; header and body callbacks; `Proceed` | `HotelAcl` (addresses and tags: `GrpcAsync`) |
| tonic and volo clients (`rpc_bench_*/src/client.rs`) | `FuturesUnordered`, `scnt`, `rcnt`, histogram | `run_bench` | `RunBench` |
| gRPC and brpc bandwidth (`grpc_bw_app.cc`, `brpc_bw_app.cc`, `bw_app.cc`) | the call under way, retries; one `Meter` shared by the handler threads | `PushData` of client and server, quit | `BwRpc` |
| ZeroMQ bandwidth (`zeromq_bw_app.cc`) | parts sent and read, zero-copy buffers, state of the REQ and REP sockets | `PushDataZero`, `RunZero` | `ZmqBw` |
| `Meter` (`meter.h`) | `bytes`, `qps`, `cnt`, `tp`, `sample` | `AddBytes`, `AddQps`, constructor | `Meter` |
| CPU monitor (`rpc_bench.cc`, `cpu_stat.cc`) | two snapshots, clock | `Snapshot`, `CpuUtil`, the loop | `CpuMonitor`, `RpcBench` |
| Command line and factory (`rpc_bench.cc`, `app.cc`, `command_opts.h`) | options | `ParseArgument`, `App::Create`, `main` | `AppMain`, `RpcBench` |
| Servers of tonic and volo, scripts, protos, logging, build and proxy files | none of interest | | not modelled |

How they interact. The socket clients and the server share only TCP streams. The
server is a single thread that handles events one by one, and a handler may
make many system calls, so the clients and the kernel move between any two of them.
The gRPC clients and servers share calls through the library's completion
queues, and the tag of an operation is the address of an object that deletes itself.
The handler threads of the gRPC and brpc servers share a meter without a lock. The
CPU monitor is a detached thread that shares the process's descriptors with
everything else. The hotel client talks to its server through a proxy that sees
bodies in pieces.

What is hard: edge-triggered polling (an event not consumed is not repeated);
`ReceiveMeta`, which spins inside the only server thread; state that is read at
`PollUntil` and used after several handlers; clients that die at any byte;
descriptors that are reused in the batch in which they were closed; calls that
fail individually or all at once while a window drains; calls sent again or given
up while a handler still works on them; buffers that a library reads after the
caller has let go of them; counters in unsigned arithmetic; servers that are
killed and started again. `PROJECT.json` lists each
hazard at its line with the properties that cover it, or why none does yet.

## 2. Modules

### SocketBw: the data path

One server step is one system call with the straight-line code around it; `pc`
says which one is next and `cur` whose event is handled.

* `meta`, `header`, `data`, `reply`, `send`, `rearm` and `error` are the places
  in `OnRecvReady`, `OnSendReady` (with its `Reregister`) and `OnError`; `loop` is
  between two events. `EndRecv`, `EndWrite` and `EndEvent` are the rest of an
  iteration of `Run`: after `OnRecvReady` the loop looks at the writable bit, then
  at the error bits.
* The fall-through of the `switch` in `OnRecvReady` is `Chain`.
* Buffers are a length and a count of bytes handled. Owners only grow and views
  start at zero, as in `ReceiveMeta`; `tx_queue_` is a sequence of bytes left.
* All requests of one client are equal, so a stream is a number of bytes. What
  may go wrong with framing is exactly being at a wrong offset, and offsets are
  kept (`Offset`).
* A failed `PCHECK`, and a `SIGPIPE`, end the server process: `aborted`.

The kernel is external and modelled from its use: `inq` and `outq` are bounded
byte queues, `Revents` is what a poll reports, an edge puts a registered socket on
the ready list, `EPOLL_CTL_MOD` polls at once, and `EPOLLOUT` is raised when
the peer reads after the socket was found full (`nospace`). A socket counts as
writable when any byte fits; Linux waits for more room, which delays but does
not lose a wakeup. `recv` returns buffered bytes before it reports the end of the
stream or a reset. A killed client shuts its end down in order, or by a reset if it
had unread bytes; a reply that reaches it later is answered by a reset.

Clients are `BwClientApp::Run` over `PushData`. "The time is up" is a choice after
any call, and `MaxRpcs` bounds the calls.

### BwService: what PushData promises

A call is pushed, served and acknowledged, once; it fails only if the server is
down; the server goes down only for a client that died between served and
acknowledged. `SocketBw` implements it (`ImplementsBwService`) under the mapping
`CallOf`: pushed when the last byte has left, served once `ReceiveData` has read it.

### SocketAccept: connections, descriptors, objects

Handlers are one step here. Kept are what `SocketBw` leaves out: the listener's
edges, one `accept` per event, the lowest free descriptor, `endpoints_[fd] = ...`
(which destroys the object stored there before), and `erase(endpoint->fd())`, which
runs after `Close` has set the descriptor to -1 and therefore removes nothing.

Two threads share the descriptors: the CPU monitor opens and closes its files
(`MonitorOpen`, `MonitorClose`) between any two steps of the server, and may get the
descriptor that a connection has just left; the bound of `LeakBounded` counts it
for that reason. A connection may be reset while it waits in the
backlog; it is accepted all the same, and the `PCHECK` in `GetPeerAddr` then ends the
server.

### SocketInit: coming up, going down, coming up again

Servers with the same port go through `Init` step by step and may be killed and
started again; the client tries to connect until a server listens. The kernel's
rules for `SO_REUSEADDR` and `TIME_WAIT` are external. `family` is that of the first
address of the host, which decides whether the length passed to `connect` is
enough.

### GrpcAsync: clients with a window, servers with self-deleting objects

`kind`, a choice of the initial state, is the latency client (one call, clock read
after a success) or the throughput client (window, clock read once in `Period`
completions). Server
objects are named by address, and addresses are used again after `delete`, so that
a tag of a deleted object would be seen. The library is external: any waiting
call may meet any object that asked for one, calls may be refused (`MayFail`, the
`overlimit` the clients count), and the server may crash. A call that
failed is forgotten by the object that served it. `Addresses` bounds the
objects alive at a time: a thread that would exceed it waits for one to finish.
`AfterLoop` is `print()`: without a sample it would index an empty vector.

### RunBench: the Rust clients' loop

The options are part of the initial state, so one run covers all combinations
within the bounds. Futures are two counts (in flight, ready). A run with
`--duration` has no iteration limit in the code; `MaxReplies` bounds the replies
that arrive before the time is up. `hist.record` refuses a latency above the
histogram's maximum, 60 s, and its error is ignored: whether a latency `fits` is a free
choice, and `dropped` counts those that did not. `RateCount` is the count in the rate printed at
the end, at the width of a `usize`, and `warmupEnd` the reply at which the time it
is divided by begins.

### Meter, BwRpc: handlers that share a meter

`Meter` has a step for each load and store of a call, so that several threads in
`AddBytes` interleave as the hardware lets them. `cnt` has `IntBits` bits and wraps. The
clock may tick between any two steps, between `now` and the end of a report too.
`wanted` keeps the argument of the constructor, so that `SampleIsMask` can say of each
meter that its mask is the least for its own argument.

`BwRpc` puts the meter under the PushData handlers of the gRPC and brpc servers,
and `BwClientApp::Run` in front. A gRPC call fails with its connection; a brpc call is
sent again up to `MaxRetry` times and given up after its timeout, while a handler may
still be at work; after SIGINT the client refuses calls itself and still ends by the clock.

### ZmqBw: two parts, no copies

A request is a header and a data part that libzmq reads after `zmq_msg_send` has
returned (`out`: the clients whose memory its I/O thread still has to read). The sizes are
kept: header_size is that of a header not filled in, `EmptyHeader`. Interrupted receives
leave a part unread; the REP socket then refuses to send (EFSM) and `RunZero` tries again
for ever (`Spinning`); an interrupted client aborts. A server that is killed loses the
requests it has taken (`lost`); one that is still at the client is delivered to its
successor. The reply is built on memory that `RunZero` releases at once (line 133), but it
has header_size bytes, none in effect, so nothing is stated of that memory.

### HotelAcl: client, filter and server of the hotel benchmark

A call has what the filter reads in its body (a customer, `GenerateWorkload`'s free
choice, or nothing: a body that is absent or does not decode), a number of body pieces,
those that have come and those that went upstream. `Headers` is `on_http_request_headers`,
which lets the headers go upstream at once; `Filter` is `on_http_request_body` for each
piece, and lets through what it cannot read. `Fail` is external: the connection, the proxy
or the server may fail any call until the client has seen its answer, also one the server
is at or has answered, and the client counts every such status as overlimit. The server is
the one listening object, the object that has taken a call and has not been replaced yet,
and the objects that wait for their `Finish` to complete.

### CpuMonitor, AppMain, RpcBench

`CpuMonitor` reads the kernel's counters in two steps per snapshot while ticks of
the cores go on; arithmetic is modulo `2^Bits`. `AppMain` parses every command line of up to
`MaxWords` words, in every order, and goes on to `App::Create`, `Run` and its return.
`RpcBench` is the process: both threads, the monitor from the moment `main` has started it
until the process ends, in the middle of whatever the monitor is doing. The durations of
the monitor are constants, where the command line has words: what a number is, is data.

## 3. Runs

There is one run per component, and one for each of two disagreements of the code with its
text. A run checks safety and liveness together, so it uses the fair specification and no
symmetry, which liveness does not allow. Parts that only hold together are checked as
one property: `Ownership` (types, `NoDanglingToken`, `OpenIsOwned`), `ServerObjects` (types,
`TagsAlive`, `AlwaysListening`, `ServedOnce`), `LeavesClean` (`DrainedAtExit`, `PrintsSamples`),
`WindowSound` (types, `WindowKept`, `PanicsOnlyWithoutWindow`), `Sampling` (types,
`SampleIsMask`, `LooksRegularly`), `CallsSound` (types, `AckedWasServed`), `Counted` (types,
`MeteredOnce`), `Accounted` (types, `CountsSound`, `Drained`, `OneListener`), `Tiled` (types,
`ReportsTile`), `OutcomeAsGiven` (types, `ParsesAsGiven`), `PortHeld` (types,
`AbortsOnlyToAnother`) and `ServerProgress` (`LoopReturns`, `GoneIsClosed`).

| Run | Instance | Checks | Distinct states |
|---|---|---|---|
| `socket_bw` | 2 clients, either may be killed; sizes 2+2+1 and 2+2+0; `RcvCap` 3, `SndCap` 1; 2 calls | framing, replies, wakeups, aborts, closing; refinement of `BwService`; the loop returns, calls complete, dead clients are closed | 320k |
| `socket_accept` | 4 connections and the monitor over 2 descriptors, backlog 2, resets | tokens, ownership, bounded leak, when accepting ends the server; the head of the backlog is accepted after an edge | 847k |
| `socket_accept_edge` | 2 connections | the listener is not level-triggered: violated, see section 4 | |
| `socket_init` | 3 servers, 2 kills, both address families | a server gives up only to another; the client connects | 9k |
| `grpc_async` | latency client, or window 2; 2 server threads, 3 addresses, failures, a crash | tags, listening, draining, samples for the summary; the client ends | 132k |
| `run_bench` | concurrency up to 3, iterations up to 4, warmup up to 3 | window, exact number of iterations and of latencies, panics, printed rate, end | 54k |
| `meter` | 1 thread, 10 calls, 3-bit `cnt`, samples 0 to 2 | nothing lost or printed twice, reports tile the time, regular looks at the clock, the mask | 155k |
| `bw_rpc` | gRPC and brpc, 1 client, 2 handler threads, 1 retry | a success was served; the shared meter agrees with the client; the client ends | 1.2M |
| `zmq_bw` | 2 clients, 3 calls each, interrupts, crashes | what a call lends to libzmq stays within the call, who may get stuck, metering; who ends | 48k |
| `hotel_acl` | window 2, bodies of up to 2 pieces, failures | the filter holds, counts, draining, one listener; the client ends | 437k |
| `rpc_bench` | up to 3 words; 1 core, 4-bit counters | parsing in any order; reports tile the time, utilization, no empty interval | 4.2M |
| `rpc_bench_usage` | the same | what the usage offers is run or refused: violated, see section 4 | |

Why the bounds are enough. Two clients are needed for one to block or abort the
other, and no action relates three. A `SndCap` of 1 with a reply of 2 bytes makes
every reply meet `EAGAIN` and take the re-registration path; an `RcvCap` smaller
than a request makes every handler see partial input; two byte fields let a
`recv` end inside each of them; one client without data takes the branch of
`ReceiveData` for length zero; two calls let leftovers of one meet the next.
In `SocketAccept` four connections over two descriptors force reuse within a batch
and exhaustion, with and without the monitor's file. In `GrpcAsync` three addresses for
two threads let an object be finishing while another thread's is made, and every address
is used again. The window of two lets a refused and a served call complete in either
order; a latency client is the window of one. Ten calls wrap a 3-bit `cnt`, and six ticks give three intervals. In
`BwRpc` two calls let a late answer of one meet the other, and the second handler
thread is there for a call that was sent again. Two clients of `ZmqBw` let a reply
to one be queued while a request of the other is read. In `HotelAcl` two pieces are
the least that can be cut, and two slots let a refused, a failing and a served call
complete in either order, and a failed call be at the server while the next one waits. Three servers let two race while a third holds the port.
Three words hold an option twice and another one or a host, and an application, a library
and the monitor; a monitored client with a host takes four and is left to the proof, which
is for any length.

`CHECK_DEADLOCK FALSE` is set wherever the system may really stop: all clients
done, or the server process gone.

Fairness. `SocketBw`: weak fairness of the server thread and of each client
process, because the scheduler runs them; nothing is assumed of accepting, kills
or resets. A thread that spins in `RecvAll` takes no step, so `LoopReturns` really
depends on the client going on or its stream ending. `SocketAccept`: the server
thread only. `GrpcAsync`: threads run, time passes, and the library finishes
operations; matching a given call is strongly fair because objects that
ask for a call come and go while a call waits. `RunBench`: the thread runs, calls
return, time passes. `BwRpc`: threads and clients run and time passes; a call fails
of its own accord only for brpc (its timeout) or when the server is gone. `ZmqBw`:
processes and I/O threads run; that a killed server comes back to stay is a
hypothesis of `RunsEnd`, not fairness. `HotelAcl`: the
proxy, the server thread and the client run, and time passes; no call has to fail. `SocketInit`: processes run, and a killed server is started again; `MaxKills`
bounds the kills.

## 4. Where the code and its text disagree

Runs `socket_accept_edge` and `rpc_bench_usage` show the first two of these; for the others
a passing property states what the code does, with the exception in it.

* `ListenerLevelTriggered`: the comment at `src/socket/poll.h:89` says level-triggered polling is
  used; the next line sets `EPOLLET`. `Run` accepts one connection per event, so when
  two clients connect before a poll the second waits in the backlog until some other
  client connects. Only the head of the backlog has a guarantee (`HeadAccepted`).
* `UsageHolds`: the usage text offers `thrift` for `--rpc` (`rpc_bench.cc:33`). With
  `--app bandwidth --rpc thrift` `App::Create` returns NULL (`app.cc:63`), and `main` calls
  `Run` on it (`rpc_bench.cc:168`).
* `AclHolds`: on a body that is not complete the comment at `lib.rs:54-55` says "Returns
  Continue because there's other filters to process. Return Pause may cause problem in this
  case"; the code returns `Pause` (line 60), and the comment at lines 63-64 relies on that:
  "Since we returned "Pause" previuously, this will return the whole body". The model follows
  the code. With `Continue` the property is violated (`ContinueEarly`): the first pieces
  pass, and the rest does not decode and passes too. What problem `Pause` may cause with
  other filters is a matter of the proxy and not in the model.
* `AclHolds` is about bodies the filter can read. It fails open: no body (`lib.rs:65`) or one
  that does not decode (line 86) falls through to `Continue` (line 90), and the headers of
  every request, a refused one too, have gone upstream before (lines 30-47).
* `CountsSound`: `overlimit` of the hotel client is every status that is not OK
  (`hotel_reservation_app.cc:94-95`), so it is the number of refused calls at least, and not
  exactly.
* `JobsEnd`: the usage text says `--time` is the time to transmit for. The latency
  client looks at the clock only after a successful call (`grpc_lat_app.cc:43`) and
  never ends when its calls keep failing. The throughput client does end.
* `RunsEnd` of `ZmqBw`: the ZeroMQ client waits for ever for the reply of a server that
  was killed with its request and restarted, whatever `--time` says
  (`zeromq_bw_app.cc:81`).
* `StuckOnlyAfterInterrupt`: a signal during a receive makes the ZeroMQ server spin, and
  the client abort.
* `ClientConnects`: `connect` gets the size of a `struct sockaddr` (`socket.h:208`); a
  host whose first address is IPv6 is never reached.
* `RateOverItsTime`: with `--duration` shorter than the warmup the Rust clients print a
  rate from a count below zero.
* `ExactRun`: a latency above 60 s is not in the histogram (`client.rs:127`, `175`), and
  nothing says so in the output.
* `AcceptFailsOnlyWhenFull`: a connection reset in the backlog, or the monitor without a
  free descriptor, ends the socket server.

Read in the code, and not part of a module: `meter_` of the ZeroMQ server is never
constructed with arguments (`zeromq_bw_app.h:50`), so its fields are indeterminate;
`PushDataZero` does not fill in the copy of the request header that the contract in
`bw_app.h` names; `GetCpuInterval` compares unsigned differences, so that its correction
goes wrong when guest time overtakes user time, the case its comment (`cpu_stat.cc:63`)
describes - only `AverageIdle` calls it, and nothing calls that.

## 5. Proofs

Eight modules hold theorems. Each proves an inductive invariant (`IInv` unless another
name is given) from the initial states and the actions, one lemma per action and one
step per conjunct it can disturb, and derives from it the invariants the runs check. They
hold for every value of the constants that satisfies the named assumptions, which TLC
evaluates on the runs' instances.

| module | theorems on checked properties | what makes the invariant inductive |
|---|---|---|
| `SocketBwProofs` | the seven invariants of `socket_bw`, and `ImplementsBwService` | see below |
| `SocketAcceptProofs` | `Ownership`, `LeakBounded`, `AcceptFailsOnlyWhenFull`; `PortHeld` of `SocketInit` | keys of `endpoints_` stay below `peak`, and the listener is reported only with a backlog; `BootInv`: a server past `SetReuseAddr` has the option set |
| `GrpcAsyncProofs` | `ServerObjects`, `LeavesClean` | `ObjectInv`: status, operation under way and call of an object go together, its tag is in one place; `ListenInv`: one listener per thread; `ClientInv`: `req_cnt` is the number of calls under way |
| `RunBenchProofs` | `WindowSound`, `ExactRun`, `RateOverItsTime` | `RecordInv`: what the replies so far have left in the histogram and in `warmup_end` |
| `BwRpcProofs` | `Conserved`, `ReportsTile`, `Sampling` of `Meter`; `CallsSound`, `MetersAgree` of `BwRpc` | `SoloInv`: what the one thread in the meter owes and holds at every load and store; `RegularInv`: the calls since the last look at the clock follow `cnt` modulo `sample + 1` |
| `ZmqBwProofs` | `StuckOnlyAfterInterrupt`, `RequestWithinItsCall`, `Counted` | `PlaceInv`: a client's request is in at most one place; `ServerInv`: the parts read; `CountInv`: the most and the least each client can have had metered |
| `HotelAclProofs` | `AclHolds`, `Accounted` | `CallSound`: what the place of a call says of its pieces, its reading and its status; `TallyInv`: the calls made are those completed and those under way; `ServerInv`: of the calls at the server there is at most the one its object has taken |
| `CpuMonitorProofs` | `Tiled`, `UtilBounded`, `IntervalNotEmpty`; `OutcomeAsGiven` of `AppMain` | `StatOf`, `SelfOf`: how a snapshot relates to the kernel's counters now, however long ago it was read; `SecondInv`: a second lies between two snapshots of the loop; `MainInv`: the options stored so far are the last ones among the words before `optind` |

### SocketBw

The assumptions are those on the constants: lengths, capacities and bounds are
positive, payloads may be empty. None of the seven invariants is inductive; `IInv` has

* `LoopInv`: what each program counter implies about the connection served, and
  that `cur` is set exactly while a handler runs;
* `LifeInv(c)`: registrations, events and the ready list agree with the life of
  the connection; epoll's interests are those of the endpoint except between the
  change of `interest_` and its `Reregister`;
* `ParseInv(c)`: the offset in the request stream for every `state_`, with the bytes
  `ReceiveMeta` has already read while it is inside `RecvAll`;
* `ReplyInv(c)`: where the bytes of a reply are;
* `WakeInv(c)`: for every condition the server must react to, where its wakeup
  is: on the ready list, in the batch, or in the handler that is running. This
  is `NoLostWakeup` extended to every moment of a handler.

A lemma per action (`ReceiveHeaderInv`, ...) proves `IInv'` for the connection the step is
about; `Frame` does the others.

`SocketImplementsService` is the refinement `Spec => ImplementsBwService`. Seen from
`BwService` a step of the server is `Quiet`, `Serves(d)` or `Crashes(d)`: only
`ReceiveData` at the last byte serves, only the failing send in `OnSendReady` crashes, and
everything else is a stutter. The client's last byte sent is `Push`, the last byte of the
reply `Ack`; with the server gone its calls `Fail` or it dies. The mapping needs one fact
that `IInv` only has of live clients: no byte of a reply has reached a client whose request
the server is still reading (`FreshInv`). Without it a client killed in mid-request
might count as served before its data is read.

`NoCallFailsWhileUp` uses nothing of `SocketBw` but this refinement: a call that has
returned while the server runs was acknowledged, because `BwService` says so.

### The others

* `SocketAccept`: the conjuncts of `Ownership` need each other: an event's token is live
  because an open socket is owned by the entry of its descriptor, which needs that
  descriptors are unique, which needs that `accept` and the monitor's `fopen` take free ones.
  `AcceptedFd` is the least free descriptor because `<` is well-founded, and `LeakBounded`
  follows by counting the keys up to `peak`.
* `Meter`: the meter is not synchronised, so `Conserved` and `ReportsTile` are proved under
  the hypothesis `OneCaller`, the case the run checks and the one in which the code is meant
  to be exact; `MeterTypesHold` has any number of threads. `MeterAgreesWithAcks` is the same
  argument with a pool of threads of which one client's waiting keeps all but one out
  of the meter: the hypothesis there is part of `MetersAgree`.
* `Sampling`, also under `OneCaller`, is about bits and powers of two. The provers know
  nothing of `2^n`, so `Meter` has its own function `Pow2`, and the lemmas before
  `MeterConstants` are its theory: `Pow2` and `RoundUpPower2` are the functions their
  recursive definitions say (`PowUnfolds`, `RoundUnfolds`); the loop of `RoundUpPower2`
  never passes a power of two (`NoPowerPassed`), so it ends at the least one
  (`RoundFacts`); `(cnt & sample) == sample` is a statement on the remainder of `cnt`
  (`SampledIs`), which the wrap of `cnt` does not disturb because `sample + 1` divides
  the width (`WrapsEvenly`).
* `ZmqBw`: `RequestStaysWithinItsCall` holds for every size of the header: the call is
  still waiting when the I/O thread reads its memory, and a call that a signal ends takes its
  process with it. `RequestsAreMeteredOnce` has the hypothesis `EmptyHeader = 0`, the size of
  the header that `header_size` is taken from, and needs the set of clients finite: its bounds
  are sums over the clients (`Total`), of which it uses that a sum grows by what one summand
  grows and not otherwise.
* `SocketInit` and `AppMain` share a proofs module with `SocketAccept` and `CpuMonitor`;
  their definitions have names of their own (`BootInit`, `MainNext`, ...) so that one
  module can extend both. `PortIsHeld` is for any number of servers and kills,
  `CommandLineAsGiven` for command lines of any length; `WordsAssumption` says that the
  options and applications are different words, and that `None` is no word. It
  says nothing of what `Run` is called on: that is `UsageHolds`, which does not hold.
* `RpcBench`: `ThreadsTogether` says that a behaviour of the process is one of `main` and one
  of the monitor, each with steps in which it stands still, so that the theorems on the two
  hold in the process, which is what the run checks.
* Induction. The library's induction theorems take the statement as an operator, which
  these provers cannot instantiate. Here the statement is a set: `Induct`, `InductDown`
  (`BwRpcProofs`) and `SetInduction` (`ZmqBwProofs`) say that a set that is closed in the
  right way holds every number, or every set of clients, and follow from a least
  counterexample (`LeastElement`).
* `CpuMonitor`: `NoWrapAssumption` says that the kernel's own counters do not wrap during
  a run and that there is a core. `IntervalIsNotEmpty` adds `SecondInv` to the invariant: the
  sleep is counted from the second file of the last snapshot, the interval from the first.
* `HotelAcl`: a call may fail while the server is at it. The invariant therefore counts the
  object that has taken a call (`taken`) apart from the calls, and `count` is bounded by what
  the server has answered, not equal to it.
* `HotelAcl` assumes its slots finite and `BwRpc` its clients, because they are counted; in
  `GrpcAsync`, `BwRpc` and `ZmqBw`, `None` is no member of the sets it is the absence of.

### Only model-checked

* All liveness (`ServerProgress`, `CallsComplete`, `HeadAccepted`, `JobsEnd`, `Ends`,
  `RunsEnd`, `ClientConnects`): the prover handles neither fairness nor `ENABLED`. Every
  other property of a passing run is stated by a theorem.
* Hypotheses beyond the named assumptions are one thread in the meter (`Sampling`,
  `Conserved`, `ReportsTile`) and the empty header (`Counted`); the
  instances of the runs have both.

## 6. Not modelled, and the plan

Not modelled for good:

* scripts, proxy and build files, protobuf definitions, logging and formatting, the
  text of `/proc` files, the printed arithmetic: no control of their own;
* the tonic and volo servers (a constant reply) and the socket latency stub;
* code without a caller: `PushDataNaive` and `RunNaive`, `AverageIdle` and the
  `GetCpuInterval` it uses, `UdpSocket`,
  `CopyFrom`, the `StopServer` handlers;
* signals at the socket server's `epoll_wait`, whose `PCHECK` makes them the end of the
  process;
* the copies of `Selector` that `Poll::Create` makes and destroys before the loop starts;
* the meter's races with several clients: bytes are lost, and no text of the
  repository promises otherwise.

Left to do: proofs of the liveness properties, and of what a meter with several callers
still guarantees beyond `MeterTypesHold`.
