------------------------------ MODULE AsyncTx ------------------------------
(***************************************************************************)
(* transport.AsyncTx: the funnel through which the readers of all clients   *)
(* send CAN frames to one device.  Any number of goroutines call SendFrame, *)
(* one worker goroutine (loop) hands frames to the device, and Close may be *)
(* called by several goroutines at once.  serial.TXWriter and               *)
(* socketcan.TXWriter are this type with a device write as send and hooks   *)
(* that count; of the hooks only OnDrop's error return is visible here.     *)
(*                                                                          *)
(* One action is one step between two points where another goroutine can    *)
(* be seen: an atomic load, a lock acquisition, a channel operation, the    *)
(* device write.  A frame is <<s, n>>, the n-th frame of sender s.          *)
(***************************************************************************)
EXTENDS Naturals, Sequences

CONSTANTS Senders,      \* goroutines that call SendFrame, one call at a time
          Closers,      \* goroutines that call Close, once each
          Buf,          \* capacity of the channel (txQueueSize)
          MaxSends,     \* bound: SendFrame calls of one sender
          NoOne         \* the mutex is free

ASSUME BufAssumption == Buf \in Nat \ {0}
ASSUME MaxSendsAssumption == MaxSends \in Nat
ASSUME NoOneAssumption == NoOne \notin Senders

VARIABLES
    ch,         \* a.ch: frames in the buffered channel
    chClosed,   \* close(a.ch) has been executed
    ctxDone,    \* a.ctx.Done() is ready: Close cancelled, or the parent did
    closed,     \* a.closed
    mu,         \* a.mu: the sender that holds it, or NoOne
    sendPc,     \* sendPc[s]: where sender s is in SendFrame
    calls,      \* calls[s]: SendFrame calls s has started
    result,     \* result[s]: what the last finished call of s returned
    loop,       \* where the worker is: "select", "sending" or "done"
    cur,        \* the frame the worker passed to a.send, <<>> or <<f>>
    closePc,    \* closePc[k]: where closer k is in Close
    accepted,   \* history: frames put into the channel, in order
    processed   \* history: frames for which a.send returned, in order

chanVars == <<ch, chClosed>>
sendVars == <<sendPc, calls, result>>
loopVars == <<loop, cur>>
history  == <<accepted, processed>>
vars == <<ch, chClosed, ctxDone, closed, mu, sendPc, calls, result,
          loop, cur, closePc, accepted, processed>>

Frame == Senders \X (1..MaxSends)

SendPcs  == {"idle", "lock", "check", "push"}
ClosePcs == {"idle", "cancel", "lock", "wait", "returned", "already"}
Results  == {"none", "nil", "overflow", "closed"}

\* NewAsyncTx: an empty channel, a live context and a started worker.
Init ==
    /\ ch = <<>> /\ chClosed = FALSE
    /\ ctxDone = FALSE
    /\ closed = FALSE
    /\ mu = NoOne
    /\ sendPc = [s \in Senders |-> "idle"]
    /\ calls = [s \in Senders |-> 0]
    /\ result = [s \in Senders |-> "none"]
    /\ loop = "select" /\ cur = <<>>
    /\ closePc = [k \in Closers |-> "idle"]
    /\ accepted = <<>> /\ processed = <<>>

-----------------------------------------------------------------------------
(***************************************************************************)
(* SendFrame                                                                *)
(***************************************************************************)

\* The call returns r to its caller.
Return(s, r) ==
    /\ sendPc' = [sendPc EXCEPT ![s] = "idle"]
    /\ result' = [result EXCEPT ![s] = r]

\* The load of a.closed without the lock.
SendFast(s) ==
    /\ sendPc[s] = "idle"
    /\ calls[s] < MaxSends
    /\ calls' = [calls EXCEPT ![s] = @ + 1]
    /\ \/ closed /\ Return(s, "closed")
       \/ /\ ~closed
          /\ sendPc' = [sendPc EXCEPT ![s] = "lock"]
          /\ UNCHANGED result
    /\ UNCHANGED <<chanVars, ctxDone, closed, mu, loopVars, closePc, history>>

SendLock(s) ==
    /\ sendPc[s] = "lock"
    /\ mu = NoOne
    /\ mu' = s
    /\ sendPc' = [sendPc EXCEPT ![s] = "check"]
    /\ UNCHANGED <<chanVars, ctxDone, closed, calls, result, loopVars,
                   closePc, history>>

\* Faulty variant: the flag is not loaded again under the lock.
SendCheckOnlyOnce(s) ==
    /\ sendPc[s] = "check"
    /\ sendPc' = [sendPc EXCEPT ![s] = "push"]
    /\ UNCHANGED <<chanVars, ctxDone, closed, mu, calls, result, loopVars,
                   closePc, history>>

\* The second load of a.closed, under the lock.
SendCheck(s) ==
    /\ sendPc[s] = "check"
    /\ \/ closed /\ Return(s, "closed") /\ mu' = NoOne
       \/ /\ ~closed
          /\ sendPc' = [sendPc EXCEPT ![s] = "push"]
          /\ UNCHANGED <<result, mu>>
    /\ UNCHANGED <<chanVars, ctxDone, closed, calls, loopVars, closePc, history>>

\* Faulty variant: room for one frame more than the channel was made for.
FullOffByOne == Len(ch) > Buf

Full == Len(ch) >= Buf

\* Faulty variants: a full channel is reported as success; the call waits.
OverflowSilent(s) == Return(s, "nil")
OverflowWaits(s) == FALSE

\* Both writers install an OnDrop hook that returns their overflow error.
Overflow(s) == Return(s, "overflow")

\* The non-blocking send on the channel, then the deferred unlock.
SendPush(s) ==
    LET f == <<s, calls[s]>>
    IN  /\ sendPc[s] = "push"
        /\ \/ /\ ~Full
              /\ ch' = Append(ch, f) /\ accepted' = Append(accepted, f)
              /\ Return(s, "nil")
           \/ /\ Full /\ Overflow(s)
              /\ UNCHANGED <<ch, accepted>>
        /\ mu' = NoOne
        /\ UNCHANGED <<chClosed, ctxDone, closed, calls, loopVars, closePc,
                       processed>>

-----------------------------------------------------------------------------
(***************************************************************************)
(* loop: select picks any ready case, so a pending frame and a cancelled    *)
(* context race.                                                            *)
(***************************************************************************)

\* Faulty variant: the newest frame of the channel is taken first.
LoopTakeNewest ==
    /\ loop = "select" /\ ch # <<>>
    /\ cur' = <<ch[Len(ch)]>>
    /\ ch' = SubSeq(ch, 1, Len(ch) - 1)
    /\ loop' = "sending"
    /\ UNCHANGED <<chClosed, ctxDone, closed, mu, sendVars, closePc, history>>

LoopTake ==
    /\ loop = "select" /\ ch # <<>>
    /\ cur' = <<Head(ch)>>
    /\ ch' = Tail(ch)
    /\ loop' = "sending"
    /\ UNCHANGED <<chClosed, ctxDone, closed, mu, sendVars, closePc, history>>

\* Faulty variant: the worker gives up when the device write fails.
LoopSendStops ==
    /\ loop = "sending"
    /\ processed' = processed \o cur
    /\ cur' = <<>>
    /\ loop' \in {"select", "done"}
    /\ UNCHANGED <<chanVars, ctxDone, closed, mu, sendVars, closePc, accepted>>

\* a.send returns, with or without an error: the hooks differ, the frame is
\* spent either way and the worker goes on.
LoopSend ==
    /\ loop = "sending"
    /\ processed' = processed \o cur
    /\ cur' = <<>>
    /\ loop' = "select"
    /\ UNCHANGED <<chanVars, ctxDone, closed, mu, sendVars, closePc, accepted>>

\* Receive on the closed and empty channel, or ctx.Done().
LoopExit ==
    /\ loop = "select"
    /\ \/ chClosed /\ ch = <<>>
       \/ ctxDone
    /\ loop' = "done"
    /\ UNCHANGED <<chanVars, ctxDone, closed, mu, sendVars, cur, closePc, history>>

-----------------------------------------------------------------------------
(***************************************************************************)
(* Close                                                                    *)
(***************************************************************************)

\* a.closed.Swap(true): only one caller goes on, the others return at once.
CloseSwap(k) ==
    /\ closePc[k] = "idle"
    /\ closed' = TRUE
    /\ closePc' = [closePc EXCEPT ![k] = IF closed THEN "already" ELSE "cancel"]
    /\ UNCHANGED <<chanVars, ctxDone, mu, sendVars, loopVars, history>>

CloseCancel(k) ==
    /\ closePc[k] = "cancel"
    /\ ctxDone' = TRUE
    /\ closePc' = [closePc EXCEPT ![k] = "lock"]
    /\ UNCHANGED <<chanVars, closed, mu, sendVars, loopVars, history>>

\* Faulty variant: the channel is closed without taking the lock.
CloseChannelUnlocked(k) ==
    /\ closePc[k] = "lock"
    /\ chClosed' = TRUE
    /\ closePc' = [closePc EXCEPT ![k] = "wait"]
    /\ UNCHANGED <<ch, ctxDone, closed, mu, sendVars, loopVars, history>>

\* Lock, close(a.ch), unlock: no other goroutine can act in between.
CloseChannel(k) ==
    /\ closePc[k] = "lock"
    /\ mu = NoOne
    /\ chClosed' = TRUE
    /\ closePc' = [closePc EXCEPT ![k] = "wait"]
    /\ UNCHANGED <<ch, ctxDone, closed, mu, sendVars, loopVars, history>>

\* Faulty variant: Close does not wait for the worker.
CloseNoWait(k) ==
    /\ closePc[k] = "wait"
    /\ closePc' = [closePc EXCEPT ![k] = "returned"]
    /\ UNCHANGED <<chanVars, ctxDone, closed, mu, sendVars, loopVars, history>>

\* a.wg.Wait().
CloseWait(k) ==
    /\ closePc[k] = "wait"
    /\ loop = "done"
    /\ closePc' = [closePc EXCEPT ![k] = "returned"]
    /\ UNCHANGED <<chanVars, ctxDone, closed, mu, sendVars, loopVars, history>>

\* The parent context is cancelled (main cancels it before it calls Close).
ParentCancel ==
    /\ ~ctxDone
    /\ ctxDone' = TRUE
    /\ UNCHANGED <<chanVars, closed, mu, sendVars, loopVars, closePc, history>>

-----------------------------------------------------------------------------
Next ==
    \/ \E s \in Senders : \/ SendFast(s) \/ SendLock(s)
                          \/ SendCheck(s) \/ SendPush(s)
    \/ LoopTake \/ LoopSend \/ LoopExit
    \/ \E k \in Closers : \/ CloseSwap(k) \/ CloseCancel(k)
                          \/ CloseChannel(k) \/ CloseWait(k)
    \/ ParentCancel

(***************************************************************************)
(* A goroutine that has started a call keeps running, and the mutex is      *)
(* starvation-free (strong fairness).  Nothing is assumed of LoopSend: the  *)
(* device may hold a write for ever.                                        *)
(***************************************************************************)
Fairness ==
    /\ \A s \in Senders : /\ SF_vars(SendLock(s))
                          /\ WF_vars(SendCheck(s) \/ SendPush(s))
    /\ WF_vars(LoopTake \/ LoopExit)
    /\ \A k \in Closers : /\ WF_vars(CloseCancel(k) \/ CloseWait(k))
                          /\ SF_vars(CloseChannel(k))

Spec == Init /\ [][Next]_vars /\ Fairness

-----------------------------------------------------------------------------
(***************************************************************************)
(* Properties                                                               *)
(***************************************************************************)

TypeOK ==
    /\ ch \in Seq(Frame) /\ Len(ch) <= Buf
    /\ chClosed \in BOOLEAN /\ ctxDone \in BOOLEAN /\ closed \in BOOLEAN
    /\ mu \in Senders \cup {NoOne}
    /\ sendPc \in [Senders -> SendPcs]
    /\ calls \in [Senders -> 0..MaxSends]
    /\ result \in [Senders -> Results]
    /\ loop \in {"select", "sending", "done"}
    /\ cur \in Seq(Frame) /\ Len(cur) = (IF loop = "sending" THEN 1 ELSE 0)
    /\ closePc \in [Closers -> ClosePcs]
    /\ accepted \in Seq(Frame) /\ processed \in Seq(Frame)

Holds(seq, f) == \E i \in DOMAIN seq : seq[i] = f

\* A goroutine about to send on a.ch never meets a closed channel, and Close
\* never closes it twice: in Go either would panic and end the gateway.  This
\* is what the lock around close(a.ch) and the second load of a.closed in
\* SendFrame are for.
NoPanic ==
    /\ \A s \in Senders : sendPc[s] = "push" => ~chClosed
    /\ \A k \in Closers : closePc[k] \in {"cancel", "lock"} => ~chClosed

\* No accepted frame is lost, duplicated or reordered inside the funnel: what
\* entered the channel is what the device was given, then the frame it is
\* being given, then what the channel holds.
FifoFunnel == accepted = processed \o cur \o ch

\* The error SendFrame returns tells the truth: nil exactly when the frame of
\* that call entered the channel (reader.go counts overflows by this error).
HonestResult ==
    \A s \in Senders :
        sendPc[s] = "idle" /\ calls[s] > 0 =>
            (result[s] = "nil" <=>
                Holds(accepted, <<s, calls[s]>>))

\* Once the Close call that stops the worker has returned, no frame reaches
\* the device any more and the worker is gone: a frame accepted but not yet
\* written is dropped, never written late.
QuietAfterClose ==
    [][(\E k \in Closers : closePc[k] = "returned")
          => UNCHANGED <<processed, loop>>]_vars

\* SendFrame never waits for the device: a call returns even if the worker
\* hangs in a write for ever ("keeps producers from blocking behind a slow or
\* wedged device").
SendReturns == \A s \in Senders : sendPc[s] # "idle" ~> sendPc[s] = "idle"

DeviceResponds == loop = "sending" ~> loop # "sending"

\* Every Close returns, whatever senders and other closers do, as long as the
\* device write that may be in progress returns.
CloseReturns ==
    DeviceResponds =>
        \A k \in Closers :
            closePc[k] # "idle" ~> closePc[k] \in {"returned", "already"}

\* A frame for which SendFrame returned nil is handed to the device unless the
\* funnel is being stopped: failed writes do not end the worker.
AcceptedIsProcessed ==
    DeviceResponds =>
        \A f \in Frame : Holds(accepted, f) ~> (Holds(processed, f) \/ ctxDone)

-----------------------------------------------------------------------------
\* The funnel implements the bounded queue its callers rely on: the device
\* write in progress is the head of the abstract queue.
Sink == INSTANCE FrameSink
          WITH Capacity  <- Buf + 1,
               queue     <- cur \o ch,
               handed    <- processed,
               accepting <- ~chClosed,
               running   <- (loop # "done")

\* Every step of the funnel is a step of the abstract sink or leaves it alone:
\* acceptance in order, one hand-over per accepted frame, at most Buf + 1
\* frames waiting, and nothing taken or handed over after the stop.
ImplementsSink == Sink!Spec
=============================================================================
