--------------------------- MODULE GatewayProofs ---------------------------
(***************************************************************************)
(* For any back-off limits: the states of the process fit together, in      *)
(* whatever order its goroutines run, and the receive loop keeps to its     *)
(* back-off schedule.  The liveness properties need fairness: they are      *)
(* model-checked only.                                                      *)
(***************************************************************************)
EXTENDS Gateway, InductionLemmas

\* What main has done so far decides what the device and the goroutines of the
\* backend can be doing.
MainInv ==
    /\ main \in {"init", "start"} => ~signalled /\ ~ctxDone /\ serve = "off"
    /\ main = "init" => dev = "none" /\ rx = "off" /\ tx = "off"
    /\ main \in {"start", "wait", "close"} => dev = "open"
    /\ main \in {"closeTx", "waitGroup"} => dev = "closed"
    /\ main \in {"start", "wait", "close", "closeTx", "waitGroup"} => rx # "off"
    /\ main \in {"close", "closeTx", "waitGroup"} => ctxDone /\ signalled
    /\ main = "waitGroup" => tx = "done"

\* main has returned for want of a backend, or at the end of a shutdown.
ExitInv ==
    main = "exited" =>
        \/ dev = "none" /\ ~signalled /\ serve = "off"
        \/ ctxDone /\ RxEnded /\ tx = "done" /\ dev = "closed" /\ logger # "run"

\* ready is closed by Listen and never opened again: it outlives Serve, so the
\* readiness function needs the context as well.
ServeInv ==
    /\ ready => serve \in {"serving", "stopped"}
    /\ serve = "stopped" => ctxDone
    /\ rx = "done" => ctxDone

GatewayInv == TypeOK /\ MainInv /\ ExitInv /\ ServeInv

\* main starts with no device, no listener and no goroutine.
LEMMA GatewayInit == Init => GatewayInv
<1> SUFFICES ASSUME Init PROVE GatewayInv
  OBVIOUS
<1>1. signalled \in BOOLEAN /\ ctxDone \in BOOLEAN /\ ready \in BOOLEAN
  BY Zenon DEF Init
<1>2. backoff \in rxBackoffMin..rxBackoffMax /\ failures \in 0..MaxFailures
  BY BackoffAssumption, MaxFailuresAssumption DEF Init
<1>3. TypeOK
  BY <1>1, <1>2 DEF Init, TypeOK
<1>4. MainInv /\ ExitInv /\ ServeInv
  BY DEF Init, MainInv, ExitInv, ServeInv
<1> QED
  BY <1>3, <1>4 DEF GatewayInv

\* Every step keeps the types, the back-off within its limits included.
LEMMA TypeStep == GatewayInv /\ [Next]_vars => TypeOK'
<1> SUFFICES ASSUME GatewayInv, [Next]_vars PROVE TypeOK'
  OBVIOUS
<1>1. CASE Signal
  BY <1>1 DEF GatewayInv, Signal, TypeOK, deviceVars
<1>2. CASE Main
  BY <1>2 DEF GatewayInv, Main, InitBackend, Open, StartBackend, Start,
              SignalReceived, CloseDevice, CloseTx, WaitGroup, Goto, TypeOK,
              deviceVars
<1>3. CASE Serve
  BY <1>3 DEF GatewayInv, Serve, Listen, ServeFailed, ServeReturns, serveRest,
              TypeOK, deviceVars
<1>4. CASE Mdns \/ LoggerReturns
  BY <1>4 DEF GatewayInv, Mdns, MdnsWait, MdnsRegister, MdnsWithdraw, mdnsRest,
              LoggerReturns, TypeOK, deviceVars
<1>5. CASE RxRead
  BY <1>5, BackoffAssumption, MaxFailuresAssumption
     DEF GatewayInv, RxRead, SerialRead, SocketCANRead, GotData, RxGoto, rxRest,
         mainVars, TypeOK
<1>6. CASE RxStep
  BY <1>6, BackoffAssumption, MaxFailuresAssumption
     DEF GatewayInv, RxStep, RxCheck, SerialFailed, SocketCANFailed, RxSleep,
         Doubled, RxGoto, rxRest, mainVars, TypeOK
<1>7. CASE TxTake \/ TxWritten \/ TxExit
  BY <1>7 DEF GatewayInv, TxTake, TxWritten, TxExit, TxGoto, mainVars, TypeOK
<1>8. CASE UNCHANGED vars
  BY <1>8 DEF GatewayInv, vars, TypeOK
<1> QED
  BY <1>1, <1>2, <1>3, <1>4, <1>5, <1>6, <1>7, <1>8 DEF Next, Running

\* Every step keeps what the place in main says of its goroutines.
LEMMA GatewayStep == GatewayInv /\ [Next]_vars => GatewayInv'
<1> SUFFICES ASSUME GatewayInv, [Next]_vars PROVE MainInv' /\ ExitInv' /\ ServeInv'
  BY TypeStep DEF GatewayInv
<1> USE DEF GatewayInv, MainInv, ExitInv, ServeInv
<1>1. CASE ~Exited /\ Signal
  BY <1>1 DEF Exited, Signal, RxEnded, deviceVars
<1>2. CASE Main
  BY <1>2 DEF Main, InitBackend, Open, StartBackend, Start, SignalReceived,
              CloseDevice, CloseTx, WaitGroup, WgDone, Goto, RxEnded, TypeOK,
              deviceVars
<1>3. CASE ~Exited /\ Serve
  BY <1>3 DEF Exited, Serve, Listen, ServeFailed, ServeReturns, serveRest,
              deviceVars
<1>4. CASE ~Exited /\ (Mdns \/ LoggerReturns)
  BY <1>4 DEF Exited, Mdns, MdnsWait, MdnsRegister, MdnsWithdraw, mdnsRest,
              LoggerReturns, deviceVars
<1>5. CASE ~Exited /\ RxRead
  BY <1>5 DEF Exited, RxRead, SerialRead, SocketCANRead, RxGoto, rxRest, mainVars
<1>6. CASE ~Exited /\ RxStep
  BY <1>6 DEF Exited, RxStep, RxCheck, SerialFailed, SocketCANFailed, RxSleep,
              RxGoto, rxRest, mainVars
<1>7. CASE ~Exited /\ (TxTake \/ TxWritten \/ TxExit)
  BY <1>7 DEF Exited, TxTake, TxWritten, TxExit, TxGoto, mainVars
<1>8. CASE UNCHANGED vars
  BY <1>8 DEF vars, RxEnded
<1> QED
  BY <1>1, <1>2, <1>3, <1>4, <1>5, <1>6, <1>7, <1>8 DEF Next, Running

\* The states of main, of the device and of the goroutines keep their types;
\* the back-off stays between its limits whatever the receive loop meets.
THEOREM Typing == Spec => []TypeOK
  BY GatewayInit, GatewayStep, PTL DEF Spec, GatewayInv

\* The answer of the /ready handler: a listener, an open device, a receive loop.
THEOREM ReadinessIsHonest == Spec => []ReadyHonest
<1>1. GatewayInv => ReadyHonest
  BY DEF GatewayInv, TypeOK, MainInv, ExitInv, ServeInv, ReadyHonest, IsReady
<1> QED
  BY <1>1, GatewayInit, GatewayStep, PTL DEF Spec

\* The order of main's shutdown (cancel, cleanup, wg.Wait) leaves no goroutine
\* of the backend running and the device closed.
THEOREM ShutdownIsClean == Spec => []ExitClean
<1>1. GatewayInv => ExitClean
  BY DEF GatewayInv, ExitInv, ExitClean, Exited
<1> QED
  BY <1>1, GatewayInit, GatewayStep, PTL DEF Spec

-----------------------------------------------------------------------------
(***************************************************************************)
(* The back-off: doubling with a limit at every failure is doubling without *)
(* one, cut off at the end.                                                 *)
(***************************************************************************)

\* Grown is what its recursion says.
LEMMA GrownIs ==
    /\ \A n \in 0..MaxFailures : Grown[n] \in Nat
    /\ Grown[0] = rxBackoffMin
    /\ \A n \in 1..MaxFailures : Grown[n] = 2 * Grown[n - 1]
<1> DEFINE M == MaxFailures
           F == [n \in 1..M |-> [v \in Nat |-> 2 * v]]
           value(g, n) == IF n = 0 THEN rxBackoffMin ELSE 2 * g[n - 1]
           isGrown(g) == g = [n \in 0..M |-> value(g, n)]
<1>1. M \in Nat /\ rxBackoffMin \in Nat /\ F \in [1..M -> [Nat -> Nat]]
  BY BackoffAssumption, MaxFailuresAssumption
<1>2. PICK g : Recursive(g, M, Nat, rxBackoffMin, F)
  <2> HIDE DEF F, M
  <2> QED
    BY <1>1, RecursionExists
<1>3. \A n \in 0..M : g[n] = value(g, n)
  <2> TAKE n \in 0..M
  <2>1. CASE n = 0
    BY <1>2, <2>1 DEF Recursive
  <2>2. CASE n # 0
    <3>1. n \in 1..M /\ n - 1 \in 0..M
      BY <1>1, <2>2
    <3>2. g[n - 1] \in Nat /\ g[n] = F[n][g[n - 1]]
      BY <1>2, <3>1 DEF Recursive
    <3> QED
      BY <2>2, <3>1, <3>2
  <2> QED
    BY <2>1, <2>2
<1>4. isGrown(g)
  BY <1>2, <1>3 DEF Recursive
<1>5. isGrown(Grown)
  <2>1. Grown = CHOOSE h : isGrown(h)
    BY DEF Grown
  <2> HIDE DEF isGrown
  <2> QED
    BY <1>4, <2>1
<1>6. \A n \in 0..M : Grown[n] = value(Grown, n)
  BY <1>5
<1> DEFINE S == {n \in 0..M : Grown[n] \in Nat}
<1>7. 0 \in S
  BY <1>1, <1>6
<1>8. ASSUME NEW n \in 0..(M - 1), n \in S PROVE n + 1 \in S
  BY <1>1, <1>6, <1>8
<1>9. \A n \in 0..M : n \in S
  <2> HIDE DEF S, M
  <2> QED
    BY <1>1, <1>7, <1>8, UpTo
<1> QED
  BY <1>1, <1>6, <1>9

\* A failure is one step along the schedule, data start it again, and no other
\* step touches it.
LEMMA ScheduleStep == GatewayInv /\ BackoffSchedule /\ [Next]_vars => BackoffSchedule'
<1> SUFFICES ASSUME GatewayInv, BackoffSchedule, [Next]_vars PROVE BackoffSchedule'
  OBVIOUS
<1>1. CASE UNCHANGED <<backoff, failures>>
  BY <1>1 DEF BackoffSchedule
<1>2. CASE GotData
  BY <1>2, GrownIs, BackoffAssumption DEF GotData, BackoffSchedule
<1>3. CASE RxSleep
  <2>1. failures \in 0..MaxFailures /\ backoff' = Doubled
    BY <1>3 DEF GatewayInv, TypeOK, RxSleep
  <2>2. Grown[failures] \in Nat
    BY <2>1, GrownIs
  <2>3. CASE failures < MaxFailures
    <3>1. failures' = failures + 1 /\ failures + 1 \in 1..MaxFailures
      BY <1>3, <2>1, <2>3, MaxFailuresAssumption DEF RxSleep
    <3>2. Grown[failures'] = 2 * Grown[failures]
      BY <2>1, <3>1, GrownIs
    <3> QED
      BY <2>1, <2>2, <3>2, BackoffAssumption DEF BackoffSchedule, Doubled
  <2>4. CASE ~(failures < MaxFailures)
    <3>1. failures' = failures /\ failures = MaxFailures
      BY <1>3, <2>1, <2>4, MaxFailuresAssumption DEF RxSleep
    <3>2. backoff = rxBackoffMax
      BY <2>2, <3>1, ScheduleAssumption, BackoffAssumption DEF BackoffSchedule
    <3>3. backoff' = rxBackoffMax
      BY <2>1, <3>2, BackoffAssumption DEF Doubled
    <3> QED
      BY <2>2, <3>1, <3>3, ScheduleAssumption, BackoffAssumption DEF BackoffSchedule
  <2> QED
    BY <2>3, <2>4
<1>4. CASE Signal \/ Main \/ Serve \/ Mdns \/ LoggerReturns
  <2>1. UNCHANGED <<backoff, failures>>
    BY <1>4 DEF Signal, Main, InitBackend, Start, SignalReceived, CloseDevice,
                CloseTx, WaitGroup, Serve, Listen, ServeFailed, ServeReturns,
                serveRest, Mdns, MdnsWait, MdnsRegister, MdnsWithdraw, mdnsRest,
                LoggerReturns, deviceVars
  <2> QED
    BY <1>1, <2>1
<1>5. CASE RxRead \/ RxCheck \/ SerialFailed \/ SocketCANFailed
  <2>1. GotData \/ UNCHANGED <<backoff, failures>>
    BY <1>5 DEF RxRead, SerialRead, SocketCANRead, RxCheck, SerialFailed,
                SocketCANFailed
  <2> QED
    BY <1>1, <1>2, <2>1
<1>6. CASE TxTake \/ TxWritten \/ TxExit \/ UNCHANGED vars
  <2>1. UNCHANGED <<backoff, failures>>
    BY <1>6 DEF TxTake, TxWritten, TxExit, TxGoto, vars
  <2> QED
    BY <1>1, <2>1
<1> QED
  BY <1>3, <1>4, <1>5, <1>6 DEF Next, Running, RxStep

\* The receive loop sleeps as long as the failures since the last data say:
\* the minimum, doubled once for each, up to the maximum.
THEOREM BackoffIsExponential == Spec => []BackoffSchedule
<1>1. Init => BackoffSchedule
  BY GrownIs, BackoffAssumption DEF Init, BackoffSchedule
<1> QED
  BY <1>1, GatewayInit, GatewayStep, ScheduleStep, PTL DEF Spec
=============================================================================
