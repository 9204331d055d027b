# A verification of the CAN gateway

TLA+ modules that model go-ampio-server, TLC configurations that check them on
small instances, and TLAPS proofs of the safety properties for every instance.
Source lines are quoted as `path:line` relative to the repository.

## The system

The gateway joins one CAN bus, reached through a serial adapter or SocketCAN,
to any number of TCP clients that speak the cannelloni format.

```
 device --Read--> receive loop --Broadcast--> hub --Out[c]--> writer c --> conn c
                 (DecodeStream)                                              |
 device <--Write-- loop <--channel-- AsyncTx <--SendFrame-- reader c <-- Decode
```

| Part | Source | Model | Proofs |
|---|---|---|---|
| transmit funnel, TXWriters | `internal/transport/async_tx.go`, `*/txwriter.go` | `AsyncTx`, promise `FrameSink` | `AsyncTxProofs` |
| hub | `internal/hub/hub.go`, `cmd/can-server/hub_init.go` | `Hub` (one step per operation), `HubSteps` (locked and unlocked steps) | `HubStepsProofs` |
| TCP server, hello exchange | `internal/server/*.go`, `internal/cnl/handshake.go` | `Server`, which extends `Hub` | `ServerProofs` |
| cannelloni decoding | `internal/cnl/codec.go`, `internal/server/reader.go` | `ClientStream` | `ClientStreamProofs` |
| serial codec | `internal/serial/codec.go`, accumulator of `backend_serial.go` | `SerialDecoder` | `SerialDecoderProofs` |
| process: `main`, backends and receive loops, mDNS, metrics logger, readiness | `cmd/can-server/*.go`, `internal/socketcan/device.go` | `Gateway` | `GatewayProofs` |
| configuration | `cmd/can-server/config.go` | `Config` | `ConfigProofs` |
| metrics registry, logging | `metrics.go`, `logging.go`, `logger.go` | the two loss counters, in `HubSteps`, and the rejections, in `Server` | |

`InductionLemmas` holds what several of the proofs need of sequences, recursive
functions and sums.

Goroutines meet in five places, and each is a module of its own or a shared
variable of `Server` or `Gateway`: the funnel's channel and mutex, the hub's map
and the clients' `Out` and `Closed` channels, the server's `clients` map and
`wg`, the connections, which readers, writers, the accept loop and `Shutdown`
close, and the context and wait group of `main`.

## The modules

**AsyncTx.** One action is one step between points where another goroutine can
be seen: `SendFast` (the first load of `closed`), `SendLock`, `SendCheck` (the
second load), `SendPush` (the non-blocking channel send); `LoopTake`,
`LoopSend` (the device write, which may fail), `LoopExit`; `CloseSwap`,
`CloseCancel`, `CloseChannel`, `CloseWait`; `ParentCancel`. When both arms of
the worker's `select` are ready it may take either. `accepted` and `processed`
are history variables. `FrameSink` is what callers rely on, a bounded queue that
hands over in order and refuses for ever once it refuses; `ImplementsSink`
instantiates it with the in-flight frame counted as queued. A full channel calls
the `OnDrop` hook, whose error the caller gets; both writers of the program
install one, so the path without a hook, where `SendFrame` returns nil for a
frame it has dropped (`async_tx.go:114`), is left out.

**Hub, HubSteps.** `Hub` has `Add`, `Remove`, `BroadcastStart` (the
snapshot), `BroadcastTo` (one client of the snapshot: queue, drop or kick) and
`Recv`. `HubSteps` splits `Remove` where `hub.go` releases its lock
(`RemoveLocked`, `RemoveCheck`) and runs it from a client's writer and from
`Shutdown` at once. `Close` is `closeOnce.Do`: `CloseEnter` is the caller that
gets to run the function, `CloseRun` the function, `CloseAgain` a caller that
comes later; one that comes in between waits. The kick of `Broadcast` calls it
too, and `closes` counts how often the channel is closed. `Drop` and `Kick`
increment the two counters. It implements `Hub` (`ImplementsHub`),
so what `Server` assumes of the hub is what the fine-grained steps give.

**Server.** A client and its connection are one identity. The accept loop goes
through `Accept`, the two hello goroutines (`HelloWrite`, `HelloRead`, which
`Handshake` does not wait for on an error), `Reject` or `Admit`, `NewClient`,
`Register`, `StartWriter`, `StartReader`, one at a time as in `acceptOnce`.
The writer is `WriterRecv`, `WriterTick`, `WriterStop` (the three arms of its
select), `FlushOk`, `FlushError` and its deferred calls in their order;
`Shutdown` is `ShutdownBegin`, one `ShutdownClient` per registered client,
`ShutdownSwept` and `ShutdownReturns` (nil, or the caller's timeout). A peer may
stall, leave, or send a bad hello at any moment; a write to a stalled peer
blocks, because `flush` sets no write deadline. `main` stops the server by
cancelling the context and never calls `Shutdown`, which is there for embedders
and tests; the model lets both happen, in either order.

**ClientStream.** One client's byte stream, arriving in segments of any size,
with a read deadline that may expire before any `Read` and a peer that may close
anywhere. It tells the three positions of `Decode` apart (identifier, length,
payload), because they fail differently: before the payload a timeout is the
connection's own `net.Error` and `startReader` retries; inside it `Decode` has
wrapped it and the type assertion at `reader.go:49` no longer sees it, so the
reader ends. The server option for a frame filter, which the program never
sets, is left out.

**SerialDecoder.** One action per way through the loop of `DecodeStream`. The
accumulator is a `bytes.Buffer` with offset and capacity (modelled from the
standard library's growth rule and marked external), since `CompactBuffer`
copies the unread bytes to the front of the array that `data` still points
into; `Data` is what `data` reads afterwards, `Tears` says when the two overlap.
`canUARTSend` and `Encode` are the transmit direction; the lines of the
instances are built with them, so that the two directions are checked against
each other.

**Gateway.** `main` from an accepted configuration to its return, with
everything it starts. `InitBackend` opens the device or ends the process;
`Start` starts `Serve` and the mDNS goroutine; `SignalReceived`, `CloseDevice`,
`CloseTx` and `WaitGroup` are the stop order, device first. `Listen`,
`ServeFailed` and `ServeReturns` are what `main` sees of `Server`; `MdnsWait`,
`MdnsRegister` and `MdnsWithdraw` the advertisement. The receive loop is
`RxCheck`, `SerialRead` or `SocketCANRead`, `SerialFailed` or `SocketCANFailed`,
and `RxSleep`: the serial loop ends on a path error, ignores EOF and backs off
for the rest, the SocketCAN loop always backs off. The transmit worker is
reduced to idle, writing and done. A read or a write may hang in the device.

**Config.** `ParseFlags`, `ApplyEnvOverrides` and `Validate` are the three steps
of `parseFlags`, `Main` what `main` does with their result, the nil dereference
included, and `Used` what the options of the server and the hub make of a value
they do not accept. Options are told apart by kind, values by what the code can
tell apart. Package `flag` is external; a Boolean flag with its value apart
(`-mdns-enable false`) is set to true and ends the flags. `ParseError` is the
`err != nil` of numbers and durations, the only errors `applyEnvOverrides`
reports.

## What the runs check

`MC*.tla` and the `.cfg` files instantiate the modules. State counts are
distinct states.

| Run | Instance | Shows |
|---|---|---|
| `async_tx` | 2 senders, 2 sends each, 2 closers, channel of 2; 22,450 | `NoPanic`, `FifoFunnel`, `HonestResult`, `QuietAfterClose`, `SendReturns`, `CloseReturns`, `AcceptedIsProcessed`, `ImplementsSink` |
| `hub` | 2 clients, queues of 2, 4 frames, both policies; 1.2 million | `ClosedOnce`, `LossAccounted`, `ImplementsHub` |
| `server` | 2 connections, limit 1, queue 1, batch 2, 2 frames, both policies; 3.3 million | `TypeOK`, `MaxClientsRespected`, `DeliveryOrdered`, `NoOrphanInHub`, `CountersBalance`, `ShutdownComplete`, `NoLeakedConnection` |
| `server_live` | 1 connection, no limit, queue 1, batch 1, 3 frames, kick; 80,525 | `CancelStopsAll`, `KickDisconnects`, `HandshakeGoroutinesEnd`, `BroadcastReturns`, `DeadClientRemoved` |
| `client_stream` | scripts of up to 3 items, 2 expiries; 164,697 | `DecodedInOrder`, `EndReported`, `ReaderEnds` |
| `serial` | lines of up to 3 pieces, reads of 1 to 9 bytes; 488,675 | `ChunkInvariant`, `FramesDecoded`, `ResidueBounded`, `DecodeReturns` |
| `gateway` | the program's own back-off limits, 20 and 500 ms; 33,868 | `TypeOK`, `BackoffSchedule`, `ReadyHonest`, `ExitClean`, `SignalExits`, `FailureStops`, `NoStaleAdvert` |
| `config` | 10 options, one of each kind, up to 2 flags and 2 variables; 2.3 million | `RunsAsConfigured` |

What the less obvious ones say:

- `ClosedOnce`: a kick and two `Remove`s may all have found `Closed` open. One
  of them closes it, and a `Remove` returns only when it is closed.
- `LossAccounted`: under drop, the counter is the number of frames that were
  offered to a client and not queued. Under kick, a client that lost a frame is
  closed or being closed, and the counter is at least the number of such clients;
  it is that number until one of them overflows a second time.
- `CountersBalance`: an accepted connection has failed its handshake, was
  rejected, has connected, or is in the hands of `acceptOnce`; a connected one
  has disconnected or has a writer. The rejections are a metric of the hub, not a
  field of the server.
- `ShutdownComplete`: once `Shutdown` has returned nil, only the connection that
  `acceptOnce` was handling when it began (`late`) can still be alive.
- `EndReported`: a clean end means that every byte sent was decoded. An end after
  a bare identifier is left out, see below.
- `FramesDecoded`: a line of nothing but frames, the echo of `Encode` included,
  is decoded frame by frame however the reads are cut, provided that payloads
  have two bytes or more, no more than a CAN frame can carry, and no compaction
  tore the slice.
- `BackoffSchedule`: the next sleep is the minimum doubled once per failure
  since the last data, up to the maximum.
- `SignalExits`, `FailureStops`: conditional on a device that lets go of a
  blocked read or write. Closing a SocketCAN descriptor does not do that: on a
  silent bus the process waits in `wg.Wait` until the next frame.
- `RunsAsConfigured`: the precedence of README.md:70 through all layers, and no
  number that cannot be parsed is passed over. Command lines with a Boolean value
  apart from its flag are left out, see below.

Deadlock checking is off where the bounded system comes to rest: after the last
frame, connection or close nothing is left to do.

### Why the bounds are enough

- **Funnel.** A channel of two, four sends and one in-flight slot make the
  channel full, drained and closed with frames stranded in it. Two closers make
  the losing `Close`. The proofs remove these bounds.
- **Hub.** With queues of two and four frames every client can overflow twice,
  also after it was signalled. The writer's `Remove`, that of `Shutdown`
  and a kick meet in the check-then-close of `Closed`.
- **Server.** Two connections compete for one place; a batch of two is filled,
  flushed by size and by the ticker, and flushed once more at the end.
- **Liveness.** One connection suffices because the properties speak of one
  client each. The policy is kick because only it signals clients; three frames
  are one in the blocked write, one in the queue and the one that overflows.
- **ClientStream** has identifiers and payloads of two bytes, so that each can
  be cut inside, and a mask of 8 in place of 128.
- **SerialDecoder** has one identifier byte and frames of up to three bytes of
  payload, where the limits of the code admit five, with a buffer small enough to slide, grow, and be compacted with and without overlap.
  `serial_compact` divides every buffer size of the program by 64 and keeps the
  ratio of 4, so that the run is the program's own situation in small.

- **Gateway** has no bound but `MaxFailures`, beyond which the back-off does not
  change any more (`ScheduleAssumption`).
- **Config.** Two flags show a repeated flag and one that hides the next; two
  variables show an error next to a good value. Options of one kind are treated
  alike by the code. The proofs remove these bounds.

### Fairness

Goroutines that can run do run: weak fairness on every step of a goroutine that
stays enabled. `SendLock` and `CloseChannel` get strong fairness because Go's
mutex is starvation-free. `WriterStop` gets it because Go's `select` chooses
among ready arms at random, so an arm that is ready again and again is taken.
`Flush` gets it because a write proceeds whenever the peer reads. Nothing is
assumed of devices, peers, the bus, or the callers of `Shutdown` and of the
context's cancel; the device write in `AsyncTx` may block for ever, so
`CloseReturns` and `AcceptedIsProcessed` are conditional on a device that
responds, and `SendReturns` is not.
`CancelStopsAll` and `KickDisconnects` are conditional on peers that do not stop
reading for ever, and `KickClosesConnection` below shows that the condition is
needed. The handshake's deadline is real time in the code and fair here.
In `Gateway` a serial read is fair, because the port has a read timeout; a
SocketCAN read and a write are not. `TxExit` gets strong fairness for the same
reason as `WriterStop`.

## What disagrees with the documentation

Four runs are expected to fail, and each is a disagreement between what the
repository says and what its code does.

| Run | Says | Does |
|---|---|---|
| `serial_compact` | `codec.go:71` "reads from in and emits complete frames via out" | compaction moves bytes under the slice being decoded; a frame is lost and another emitted twice |
| `client_slip` | `README.md:213` "ordering is preserved within a TCP stream" | a deadline inside a header discards its bytes and the reader goes on, out of step |
| `kick_closes` | `README.md:108` "Slow client channel overflow triggers connection close" | a writer blocked in a write does not look at `Closed`, and the connection stays |
| `gateway_ready` | `README.md:247` "returns `ready` when backend + TCP listener are up" | the readiness function asks the listener and the context; a serial device that is unplugged ends the receive loop and the endpoint stays ready |

The passing runs state what does hold next to each of these: `ChunkInvariant`
while no compaction has torn the slice, `DecodedInOrder` while no deadline fell
into a header, `KickDisconnects` for peers that read, `ReadyHonest` for
everything but a lost serial device.

Seen while modelling, without a run of their own. Where a property would have to
take one side, it leaves the case out and says so:

- `hub_kicked_clients_total` is "Clients disconnected due to backpressure"
  (README.md:134, and `metrics.go:46`), but `hub.go:97` increments it at every
  overflow of a client that has not left yet. `LossAccounted` shows that it is
  never too low, and right until a client overflows twice.
- A stream that ends right after the four bytes of an identifier gives `io.EOF`
  (`cnl/codec.go:75-79`), and `startReader` ends as after a clean end. The
  comment of `Decode` promises `io.EOF` "at a clean frame boundary"
  (`cnl/codec.go:65`) and `ErrTruncatedFrame` "when the underlying reader ends
  mid-frame" (`cnl/codec.go:21`). `EndReported` leaves this place out.
- Received serial frames have no INS and FLAGS bytes, but the length limits
  count them (`serial/codec.go:88-91`). Payloads of 0 and 1 bytes are discarded,
  though `serial/codec.go:90` says "allow DLC=0", `serial/codec.go:150` "length can
  be 0..8" and `codec_malformed_test.go:17-18` calls a frame of one byte valid.
  Payloads of 9 and 10 bytes are accepted, though `serial/codec.go:91` says "allow DLC
  up to 8" and `can/types.go:14` "0..8 for classic". `FramesDecoded` keeps to 2..8.
- `-mdns-enable false` (README.md:61 gives "-mdns-enable true|false") turns the
  advertisement on: to package `flag` a Boolean flag takes no separate word, and the
  word ends the flags. The packaged unit passes the variable in just this way
  (`can-server.service:24`), so `CAN_SERVER_MDNS_ENABLE=false` in
  `/etc/default/can-server`, which README.md:99-101 and the file's own line 37
  recommend, does not disable it; `-metrics-addr` and `CAN_SERVER_EXTRA_FLAGS`,
  which come after it (lines 25 and 26), are not parsed whatever the value is.
  `RunsAsConfigured` leaves such command lines out.
- In the environment a word that is no Boolean (`config.go:240-245`) and a number
  out of range (`config.go:151-155`) are passed over without a message, and the
  process runs on the default.
- The shutdown summary (`server.go:286`) has accepted, failed, connected and
  disconnected connections, but not the rejected ones (`server.go:232`), without
  which its numbers do not add up.
- The comment on `AsyncTx` (`async_tx.go:25-29`) says that after `Close` "the
  channel is not closed; additional SendFrame calls will enqueue (or drop)". The
  code closes the channel and refuses such calls (`async_tx.go:104-106`, 126), as
  the comment on line 41 and `TestAsyncTxSendAfterClose` say. The model follows the code.
- `Shutdown` can miss the connection between `Accept` and `startWriter`, which
  then comes to life after it has returned nil; `ShutdownComplete` says that it
  is the only one.
- `hub_active_clients` is set outside the lock, and an older count can stay.
- A backend that cannot be opened ends the process with exit code 0.

## What is proved

Every theorem holds for every value of the constants that satisfies the named
assumptions of its module. Most of these only say that sizes are (positive)
natural numbers, that the clients are a finite set (`ClientsAssumption`) and that
distinguished values are not members of the sets they stand beside. The others:

- `ScheduleAssumption`: `MaxFailures`, the bound of a history variable, is not
  reached before the back-off has come to its maximum.
- `StreamAssumption`: the greatest payload is below the mask of the length byte
  (8 and 128 in the program).
- `BytesAssumption`: the two bytes of the preamble differ (0x2D and 0xD4).
- `ScriptsAssumption`, `LinesAssumption`: what may come in. A client sends frames
  as `EncodeTo` writes them, with or without the flag bit, and bytes whose length
  byte no frame has; the serial line carries frames as the adapter writes them
  and any other bytes. Nothing is assumed of their number, order or content.

| Module | Theorem | States |
|---|---|---|
| `AsyncTxProofs` | `Typing` | `TypeOK`: types, and the channel within its capacity |
| | `NeverPanics` | `NoPanic`: no send on the closed channel, no second close |
| | `ClosedIsQuiet` | `QuietAfterClose`: nothing reaches the device after the stopping `Close` has returned |
| | `FunnelIsFifo` | `FifoFunnel`: accepted frames are handed over once each, in order |
| | `ResultsAreHonest` | `HonestResult`: nil exactly for frames that entered the channel |
| | `RefinesSink` | `ImplementsSink`: the funnel implements `FrameSink` |
| `HubStepsProofs` | `ChannelsCloseOnce` | `ClosedOnce` |
| | `LossIsCounted` | `LossAccounted` |
| | `RefinesHub` | `ImplementsHub`: the steps of `hub.go` implement `Hub` |
| `ServerProofs` | `LimitHolds` | `MaxClientsRespected` |
| | `NoOrphans` | `NoOrphanInHub` |
| | `NoLeaks` | `NoLeakedConnection` |
| | `ConnectionsAccounted` | `CountersBalance` |
| | `ShutdownIsComplete` | `ShutdownComplete` |
| | `OrderOfTheBus` | `DeliveryOrdered` |
| | `Typing` | `TypeOK`: the wait group at zero or above, the queues within their capacity |
| `ClientStreamProofs` | `ClientOrderKept` | `DecodedInOrder` |
| | `EndIsHonest` | `EndReported` |
| `SerialDecoderProofs` | `ReadsDoNotMatter` | `ChunkInvariant` |
| | `FramesComeThrough` | `FramesDecoded` |
| | `ResidueStaysSmall` | `ResidueBounded` |
| | `TurnsConsume` | a turn of the loop of `DecodeStream` returns or consumes a byte |
| | `BranchesCover` | whatever it holds, the loop has a branch to take |
| `GatewayProofs` | `Typing` | `TypeOK`: the back-off within its limits |
| | `ReadinessIsHonest` | `ReadyHonest` |
| | `ShutdownIsClean` | `ExitClean` |
| | `BackoffIsExponential` | `BackoffSchedule` |
| `ConfigProofs` | `PrecedenceHolds` | `RunsAsConfigured` |

Few of these are inductive alone. The strengthenings, and why they are needed:

- **Funnel.** `TypeInv` adds that a call in progress has been counted.
  `PanicInv` adds `LockInv` (the mutex is held exactly by a sender between its
  second check and its channel operation) and `CloseInv` (one `Close` call at
  most gets past the swap, and the flag is set before anything it does):
  together they say that the channel is closed only with the mutex free and the
  flag set, so that no sender is past its check then. `CallInv` adds that the
  frame of a running call is not queued yet, which `HonestResult` needs to carry
  over from call to call. The refinement maps every action to a step of the sink
  or to a stutter.
- **Hub.** `OnceInv` adds what the state of `closeOnce` says: while it is busy one
  goroutine is inside the function and the channel is open, when it is done the
  channel is closed and nobody is inside, when it is new nobody has got past it.
  `StepsInv` is this with the types. With it a `Remove` maps to the abstract one at its locked part, and its
  unlocked steps to stutters. The losses are a sum over the clients, of which a
  step changes one term (`SumFunctionChange`).
- **Server.** `ServerInv` adds the stages of a connection (`LifeInv`: no
  goroutine before `acceptOnce` starts it, closed for good after), the room that
  the accept loop has seen and nobody else can take (`CapacityInv`), the wait
  group as the number of goroutines alive (`WgInv`, an argument about
  cardinalities), the counters with the connection under way (`Balance`), and
  that once the listener is closed the accept loop has at most the connection it had
  then, so that a `Shutdown` that waits sees every other goroutine (`ShutdownInv`).
- **Delivery.** What a client was sent, what its writer holds and what is queued
  for it are three increasing sequences, each before the next, and all of them
  up to the last frame the client can have been given (`QueueOrder`). Receiving
  moves a frame from one to the next, flushing moves a prefix, and a broadcast
  appends a frame above the bound.
- **Client stream.** `StreamInv` says where in the script a reader stands that has
  not slipped: at which item (the number of frames passed on), in which part of
  it, and that the bytes it holds are the script's bytes at that place
  (`PlaceInv`). A length byte is then the one of that item, so the frame that
  comes out is the item's. `EndInv` adds what the reader has seen when it ends.
- **Serial decoder.** What has been emitted, followed by what the reference
  decoder finds in the bytes not consumed, is what it finds in the whole line up
  to any later byte (`FoundInv`). "Any later byte" is what makes it inductive: a
  decision on an incomplete accumulator must be the one that more bytes confirm.
  Two lemmas carry this, that a longer string shows the same complete frame
  (`FrameSame`) and that bytes before the first preamble are noise (`Skips`).
  Nothing of it is claimed once a compaction has torn the slice; the bound on the
  residue, the progress and the branches are claimed there too.
- **Gateway.** What `main` has done decides what the device and the goroutines
  can be doing (`MainInv`, `ExitInv`); a stopped `Serve` means a done context
  (`ServeInv`).
- **Config.** After the environment has been applied the fields are what was
  given, and a variable that cannot be parsed belongs to a flag (`ConfigInv`).

Several of these need induction: a recursive definition (the back-off, the reference
decoder) or a fold over a sequence or a set (`FlattenSeq`, `SumFunction`). The
library's induction theorems take a predicate, which the provers cannot
instantiate. `InductionLemmas` replaces the predicate by a set of naturals (a
non-empty one has a least element, `Least`; one that holds 0 and each successor
up to n holds 0..n, `UpTo`, and the same downwards, `DownFrom`), and derives from
it, for the definitions at hand, that a recursive function satisfies its
equation, where each element of a flattened sequence lies, and how a sum changes.

Every invariant and both refinements that the passing runs check are proved. Only
model-checked are the liveness properties (`SendReturns`, `CloseReturns`,
`AcceptedIsProcessed`, `CancelStopsAll`, `KickDisconnects`,
`HandshakeGoroutinesEnd`, `BroadcastReturns`, `DeadClientRemoved`, `ReaderEnds`,
`DecodeReturns`, `SignalExits`, `FailureStops`, `NoStaleAdvert`), since the prover
has no rule for fairness. `TurnsConsume` and `BranchesCover` are the two facts that
`DecodeReturns` rests on, without the fairness that joins them.

## Not modelled

- Logging and the Prometheus registry hand lines and numbers to libraries. The
  gauges, queue-depth sampling included, are left out.
- In the server, `lastErr` and `errCh`, which nothing in the program reads, and the
  frame filter, which the program never sets. `mapErrToMetric` chooses a label.
- The HTTP endpoint is represented by the readiness function only; its
  `Shutdown` after `wg.Wait` is left out. A signal that arrives before
  `signal.Notify` ends the process at once and is not an action.
- Time: intervals, deadlines and sleeps are steps that happen at some point.
- The byte layout of a SocketCAN frame in `device.go`, a fixed sequence of loads
  and stores with no state, is abstracted to the frame it carries.
