------------------------------ MODULE Gateway ------------------------------
(***************************************************************************)
(* The process cmd/can-server: main, the backend it opens (a serial port or *)
(* a SocketCAN device, with its receive loop and its transmit worker), the  *)
(* goroutines of Serve, the mDNS advertisement, the metrics logger and the  *)
(* readiness endpoint.  They share one context.  The inside of Serve is     *)
(* module Server, that of the transmit worker module AsyncTx, that of the   *)
(* decoder module SerialDecoder; here each is a goroutine that is started,  *)
(* may hang in the device and has to end.                                   *)
(***************************************************************************)
EXTENDS Integers

CONSTANTS rxBackoffMin, rxBackoffMax, \* milliseconds
          MaxFailures                 \* bound of the history variable failures

ASSUME BackoffAssumption ==
    /\ rxBackoffMin \in Nat \ {0} /\ rxBackoffMax \in Nat
    /\ rxBackoffMin <= rxBackoffMax
ASSUME MaxFailuresAssumption == MaxFailures \in Nat

\* The first sleep, doubled n times without a limit.
Grown[n \in 0..MaxFailures] == IF n = 0 THEN rxBackoffMin ELSE 2 * Grown[n - 1]

\* Beyond the bound the back-off does not change.
ASSUME ScheduleAssumption == Grown[MaxFailures] >= rxBackoffMax

VARIABLES
    backend,  \* cfg.backend
    main,     \* where main is
    signalled,\* SIGINT or SIGTERM is in sigCh
    ctxDone,  \* cancel() has been called
    serve,    \* the goroutine of srv.Serve
    ready,    \* srv.Ready() is closed
    mdns,     \* the advertisement and the goroutines that look after it
    dev,      \* the device: "none", "open" or "closed"
    rx,       \* the receive loop
    backoff,  \* its back-off
    failures, \* history: sleeps since the last data, at most MaxFailures
    tx,       \* the transmit worker
    logger    \* the metrics logger

vars == <<backend, main, signalled, ctxDone, serve, ready, mdns, dev, rx,
          backoff, failures, tx, logger>>
mainVars == <<main, signalled, serve, ready, mdns, logger>>
deviceVars == <<backend, dev, rx, backoff, failures, tx>>

\* parseFlags has accepted a configuration (module Config).  Its backend, its
\* mdnsEnable and its logMetricsEvery decide what there is to run.
Init ==
    /\ backend \in {"serial", "socketcan"}
    /\ main = "init"
    /\ signalled = FALSE /\ ctxDone = FALSE
    /\ serve = "off" /\ ready = FALSE
    /\ mdns \in {"off", "wait"}
    /\ dev = "none" /\ rx = "off" /\ tx = "off"
    /\ backoff = rxBackoffMin /\ failures = 0
    /\ logger \in {"off", "run"}

-----------------------------------------------------------------------------
(***************************************************************************)
(* main                                                                     *)
(***************************************************************************)
Goto(here, there) == main = here /\ main' = there

\* The device opens or not; a failing step of Open closes what it had opened.
Open == dev' \in {"open", "none"}

\* With an open device the transmit worker and the receive loop start.
StartBackend ==
    /\ rx' = IF dev' = "open" THEN "check" ELSE "off"
    /\ tx' = IF dev' = "open" THEN "idle" ELSE "off"

\* Without a backend main returns.
InitBackend ==
    /\ Open /\ StartBackend
    /\ Goto("init", IF dev' = "open" THEN "start" ELSE "exited")
    /\ UNCHANGED <<backend, signalled, ctxDone, serve, ready, mdns, backoff,
                   failures, logger>>

\* main starts Serve and the mDNS goroutine, sets the readiness function and
\* opens the metrics endpoint.
Start ==
    /\ Goto("start", "wait")
    /\ serve' = "listen"
    /\ UNCHANGED <<deviceVars, signalled, ctxDone, ready, mdns, logger>>

\* The operator or the service manager asks the process to stop.
Signal ==
    /\ main = "wait" /\ ~signalled
    /\ signalled' = TRUE
    /\ UNCHANGED <<deviceVars, main, ctxDone, serve, ready, mdns, logger>>

SignalReceived ==
    /\ signalled
    /\ Goto("wait", "close")
    /\ ctxDone' = TRUE
    /\ UNCHANGED <<deviceVars, signalled, serve, ready, mdns, logger>>

\* cleanup: first the device ...
CloseDevice ==
    /\ Goto("close", "closeTx")
    /\ dev' = "closed"
    /\ UNCHANGED <<backend, signalled, ctxDone, serve, ready, mdns, rx, backoff,
                   failures, tx, logger>>

\* ... then the transmit worker, whose Close waits for it.
CloseTx ==
    /\ tx = "done"
    /\ Goto("closeTx", "waitGroup")
    /\ UNCHANGED <<deviceVars, signalled, ctxDone, serve, ready, mdns, logger>>

RxEnded == rx \in {"done", "lost"}

\* Faulty variant: the receive loop is not in the wait group.
LoggerEnded == logger # "run"

\* What the wait group counts: the receive loop and the metrics logger.
WgDone == RxEnded /\ logger # "run"

WaitGroup ==
    /\ WgDone
    /\ Goto("waitGroup", "exited")
    /\ UNCHANGED <<deviceVars, signalled, ctxDone, serve, ready, mdns, logger>>

-----------------------------------------------------------------------------
(***************************************************************************)
(* The goroutine of Serve.  A TCP listener gives no other fatal error than   *)
(* a failing Listen.                                                        *)
(***************************************************************************)
serveRest == <<deviceVars, main, signalled, mdns, logger>>

Listen ==
    /\ serve = "listen"
    /\ \/ serve' = "serving" /\ ready' = TRUE
       \/ serve' = "failed" /\ UNCHANGED ready
    /\ UNCHANGED <<serveRest, ctxDone>>

\* Faulty variant: the error is only logged.
ServeFailedLogs ==
    /\ serve = "failed"
    /\ serve' = "stopped"
    /\ UNCHANGED <<serveRest, ready, ctxDone>>

\* main's goroutine logs the error and cancels the context.
ServeFailed ==
    /\ serve = "failed"
    /\ serve' = "stopped"
    /\ ctxDone' = TRUE
    /\ UNCHANGED <<serveRest, ready>>

ServeReturns ==
    /\ serve = "serving" /\ ctxDone
    /\ serve' = "stopped"
    /\ UNCHANGED <<serveRest, ready, ctxDone>>

\* Faulty variant: the context is not looked at.
ListenerReady == ready

\* The readiness function, as the /ready handler asks it.
IsReady == ready /\ ~ctxDone

-----------------------------------------------------------------------------
(***************************************************************************)
(* The mDNS goroutine, and the one that withdraws the service.              *)
(***************************************************************************)
mdnsRest == <<deviceVars, main, signalled, ctxDone, serve, ready, logger>>

\* Faulty variant: the goroutine waits for the listener only.
MdnsWaitReady ==
    /\ mdns = "wait" /\ ready
    /\ mdns' = "register"
    /\ UNCHANGED mdnsRest

\* The select takes either case when both are ready.
MdnsWait ==
    /\ mdns = "wait"
    /\ \/ ready /\ mdns' = "register"
       \/ ctxDone /\ mdns' = "off"
    /\ UNCHANGED mdnsRest

MdnsRegister ==
    /\ mdns = "register"
    /\ mdns' \in {"on", "off"}
    /\ UNCHANGED mdnsRest

MdnsWithdraw ==
    /\ mdns = "on" /\ ctxDone
    /\ mdns' = "withdrawn"
    /\ UNCHANGED mdnsRest

LoggerReturns ==
    /\ logger = "run" /\ ctxDone
    /\ logger' = "done"
    /\ UNCHANGED <<deviceVars, main, signalled, ctxDone, serve, ready, mdns>>

-----------------------------------------------------------------------------
(***************************************************************************)
(* The receive loop                                                         *)
(***************************************************************************)
rxRest == <<mainVars, backend, ctxDone, dev, tx>>

RxGoto(here, there) == rx = here /\ rx' = there

\* Faulty variant: the loop does not look at the context.
RxCheckBlind ==
    /\ RxGoto("check", "read")
    /\ UNCHANGED <<rxRest, backoff, failures>>

RxCheck ==
    /\ RxGoto("check", IF ctxDone THEN "done" ELSE "read")
    /\ UNCHANGED <<rxRest, backoff, failures>>

\* Faulty variant: data leave the back-off as it is.
GotNothing == UNCHANGED backoff /\ failures' = 0

\* Data have come, are decoded and broadcast.
GotData == backoff' = rxBackoffMin /\ failures' = 0

\* sp.Read returns data, an error, or both.
SerialRead ==
    /\ backend = "serial"
    /\ \/ RxGoto("read", "check") /\ GotData
       \/ RxGoto("read", "failed") /\ GotData
       \/ RxGoto("read", "failed") /\ UNCHANGED <<backoff, failures>>
    /\ UNCHANGED rxRest

\* ReadFrame returns a frame, or the error of read(2) or of a short read.
SocketCANRead ==
    /\ backend = "socketcan"
    /\ \/ RxGoto("read", "check") /\ GotData
       \/ RxGoto("read", "failed") /\ UNCHANGED <<backoff, failures>>
    /\ UNCHANGED rxRest

\* The serial loop sorts its errors: during a shutdown it returns; an
\* *os.PathError ends it; an EOF, which is what a read timeout gives, is
\* ignored; for the rest it backs off.
SerialFailed ==
    /\ backend = "serial"
    /\ \/ ctxDone /\ RxGoto("failed", "done")
       \/ ~ctxDone /\ \E next \in {"lost", "check", "sleep"} : RxGoto("failed", next)
    /\ UNCHANGED <<rxRest, backoff, failures>>

\* The SocketCAN loop backs off whatever the error is.
SocketCANFailed ==
    /\ backend = "socketcan"
    /\ RxGoto("failed", IF ctxDone THEN "done" ELSE "sleep")
    /\ UNCHANGED <<rxRest, backoff, failures>>

\* Faulty variant: no upper limit.
DoubledWithoutLimit == backoff * 2

Doubled == IF backoff * 2 > rxBackoffMax THEN rxBackoffMax ELSE backoff * 2

RxSleep ==
    /\ RxGoto("sleep", "check")
    /\ backoff' = Doubled
    /\ failures' = IF failures < MaxFailures THEN failures + 1 ELSE failures
    /\ UNCHANGED rxRest

-----------------------------------------------------------------------------
(***************************************************************************)
(* The transmit worker: frames come from the clients at any time.           *)
(***************************************************************************)
TxGoto(here, there) ==
    /\ tx = here /\ tx' = there
    /\ UNCHANGED <<mainVars, backend, ctxDone, dev, rx, backoff, failures>>

TxTake == TxGoto("idle", "write")
TxWritten == TxGoto("write", "idle")
TxExit == ctxDone /\ TxGoto("idle", "done")

-----------------------------------------------------------------------------
Main == \/ InitBackend \/ Start \/ SignalReceived \/ CloseDevice \/ CloseTx
        \/ WaitGroup
Serve == Listen \/ ServeFailed \/ ServeReturns
Mdns == MdnsWait \/ MdnsRegister \/ MdnsWithdraw
RxRead == SerialRead \/ SocketCANRead
RxStep == RxCheck \/ SerialFailed \/ SocketCANFailed \/ RxSleep

Exited == main = "exited"

\* When main returns the process ends, and every goroutine with it.
Running == Signal \/ Main \/ Serve \/ Mdns \/ LoggerReturns \/ RxRead \/ RxStep
           \/ TxTake \/ TxWritten \/ TxExit
Next == \/ ~Exited /\ Running
        \/ Exited /\ UNCHANGED vars

\* Goroutines that can run do run.  A serial read returns, if only with its
\* timeout; nothing makes a SocketCAN read or a write return.  The worker's
\* select, which chooses at random, does not overlook a done context for ever.
Fairness ==
    /\ WF_vars(~Exited /\ Main) /\ WF_vars(~Exited /\ Serve)
    /\ WF_vars(~Exited /\ Mdns) /\ WF_vars(~Exited /\ LoggerReturns)
    /\ WF_vars(~Exited /\ RxStep)
    /\ WF_vars(~Exited /\ SerialRead)
    /\ SF_vars(~Exited /\ TxExit)

Spec == Init /\ [][Next]_vars /\ Fairness

-----------------------------------------------------------------------------
(***************************************************************************)
(* Properties                                                               *)
(***************************************************************************)

TypeOK ==
    /\ backend \in {"serial", "socketcan"}
    /\ main \in {"init", "start", "wait", "close", "closeTx", "waitGroup", "exited"}
    /\ signalled \in BOOLEAN /\ ctxDone \in BOOLEAN /\ ready \in BOOLEAN
    /\ serve \in {"off", "listen", "serving", "failed", "stopped"}
    /\ mdns \in {"off", "wait", "register", "on", "withdrawn"}
    /\ dev \in {"none", "open", "closed"}
    /\ rx \in {"off", "check", "read", "failed", "sleep", "done", "lost"}
    /\ backoff \in rxBackoffMin..rxBackoffMax
    /\ failures \in 0..MaxFailures
    /\ tx \in {"off", "idle", "write", "done"}
    /\ logger \in {"off", "run", "done"}

\* The next sleep of the receive loop is the minimum doubled once for every
\* failure since data last came, up to the maximum: timeouts in between
\* neither lengthen nor reset it, and data always do.
BackoffSchedule ==
    backoff = IF Grown[failures] < rxBackoffMax THEN Grown[failures] ELSE rxBackoffMax

\* Whoever is told "ready" finds a bound listener, an open device and a
\* receive loop that has not ended, unless it gave a serial device up; the
\* answer never outlives the cancellation of any part.
ReadyHonest ==
    IsReady => serve = "serving" /\ dev = "open" /\ rx \notin {"off", "done"}

\* A process that ends after a signal leaves nothing undone: the receive loop
\* and the metrics logger have returned, the worker has written its last frame,
\* the device is closed.
ExitClean ==
    Exited /\ signalled =>
        RxEnded /\ tx = "done" /\ dev = "closed" /\ logger # "run"

\* The device lets go of whoever is inside it: bus traffic for a SocketCAN
\* read, progress for a write.  Closing the device is not enough: the raw
\* close of Device.Close does not wake a blocked read.
DeviceReturns ==
    /\ rx = "read" ~> rx # "read"
    /\ tx = "write" ~> tx # "write"

\* A signal ends the process, whatever the goroutines were doing, provided
\* that the device lets go of them.
SignalExits == DeviceReturns => (signalled ~> Exited)

\* When Serve cannot listen, everything else stops and the process reports not
\* ready, though main goes on waiting for a signal.
FailureStops ==
    DeviceReturns =>
        (serve = "failed" ~> \/ Exited
                             \/ /\ RxEnded /\ tx = "done" /\ logger # "run"
                                /\ mdns # "on" /\ ~IsReady)

\* After the context is cancelled the advertisement does not stay and nobody
\* waits to publish it, even if the listener became ready at the same moment;
\* only the end of the process can come first.
NoStaleAdvert == ctxDone ~> mdns \in {"off", "withdrawn"} \/ Exited

-----------------------------------------------------------------------------
\* README.md: the readiness endpoint "returns `ready` when backend + TCP
\* listener are up"; the code asks the listener and the context only.
ReadyMeansBackendUp == IsReady => ~RxEnded
=============================================================================
