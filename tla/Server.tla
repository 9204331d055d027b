------------------------------- MODULE Server -------------------------------
(***************************************************************************)
(* server.Server: the accept loop (Serve, acceptOnce), the hello exchange   *)
(* (cnl.Handshake), the reader and the writer goroutine of every client,    *)
(* Shutdown, and cancellation of the serving context, on top of the hub.    *)
(* A client and its TCP connection are one identity: Serve creates one      *)
(* hub.Client per connection.                                               *)
(*                                                                          *)
(* The frames readers pass to the backend are modelled by AsyncTx, error    *)
(* reporting (setError, the metrics) and logging are left out.  A write     *)
(* to a peer that does not read blocks: flush sets no write deadline.       *)
(***************************************************************************)
EXTENDS Hub

CONSTANTS MaxClients,   \* s.maxClients; 0 means unlimited
          BatchSize,    \* s.batchSize
          NoConn        \* the accept loop handles no connection

ASSUME ClientsAssumption == IsFiniteSet(Clients)
ASSUME MaxClientsAssumption == MaxClients \in Nat
ASSUME BatchSizeAssumption == BatchSize \in Nat \ {0}
ASSUME NoConnAssumption == NoConn \notin Clients

VARIABLES
    ctxDone,    \* the context given to Serve is cancelled
    lnOpen,     \* the listener is open
    accept,     \* where Serve's goroutine is
    cur,        \* the connection acceptOnce handles
    peer,       \* peer[c]: "away", "reading", "stalled" or "gone"
    hello,      \* hello[c]: what the peer sent first, "none", "good" or "bad"
    conn,       \* conn[c]: "none", "backlog", "open" or "closed" by the server
    hsW, hsR,   \* hsW[c], hsR[c]: the two goroutines of Handshake
    registered, \* s.clients
    writer,     \* writer[c]: where startWriter's goroutine is
    batch,      \* batch[c]: frames taken from Out and not yet written
    wire,       \* wire[c]: frames written to the connection
    reader,     \* reader[c]: where startReader's goroutine is
    wg,         \* s.wg
    shutdown,   \* where Shutdown is
    late,       \* history: the connection acceptOnce handled when Shutdown began
    total       \* the counters of the shutdown summary, and the metric of rejections

srvVars == <<ctxDone, lnOpen, accept, cur, peer, hello, conn, hsW, hsR,
             registered, writer, batch, wire, reader, wg, shutdown, late, total>>
vars == <<hubVars, srvVars>>

\* The fields totalAccepted, totalHandshakeFail, ... of the server, which Shutdown
\* logs; a rejection is counted by a metric only.
Summary == {"accepted", "handshakeFail", "connected", "disconnected"}
Counters == Summary \cup {"rejected"}

AcceptPcs == {"accept", "sleep", "handshake", "admit", "add", "register",
              "startWriter", "startReader", "returned"}

Count1(k) == total' = [total EXCEPT ![k] = @ + 1]

\* After Serve has opened its listener and closed readyCh.
Init ==
    /\ HubInit
    /\ ctxDone = FALSE /\ lnOpen = TRUE
    /\ accept = "accept" /\ cur = NoConn
    /\ peer = [c \in Clients |-> "away"]
    /\ hello = [c \in Clients |-> "none"]
    /\ conn = [c \in Clients |-> "none"]
    /\ hsW = [c \in Clients |-> "off"] /\ hsR = [c \in Clients |-> "off"]
    /\ registered = {}
    /\ writer = [c \in Clients |-> "off"] /\ reader = [c \in Clients |-> "off"]
    /\ batch = [c \in Clients |-> <<>>] /\ wire = [c \in Clients |-> <<>>]
    /\ wg = 0
    /\ shutdown = "idle" /\ late = NoConn
    /\ total = [k \in Counters |-> 0]

-----------------------------------------------------------------------------
(***************************************************************************)
(* The peers.                                                               *)
(***************************************************************************)
peerRest == <<hubVars, ctxDone, lnOpen, accept, cur, hsW, hsR, registered,
              writer, batch, wire, reader, wg, shutdown, late, total>>

\* A peer connects.  Its hello is fixed here ("none": it will not send one);
\* when it arrives is up to HelloRead.
PeerDial(c) ==
    /\ peer[c] = "away" /\ lnOpen
    /\ peer' = [peer EXCEPT ![c] = "reading"]
    /\ \E h \in {"none", "good", "bad"} : hello' = [hello EXCEPT ![c] = h]
    /\ conn' = [conn EXCEPT ![c] = "backlog"]
    /\ UNCHANGED peerRest

\* The peer of an open connection stops or resumes reading, or closes its end.
PeerChange(c) ==
    /\ conn[c] = "open"
    /\ \E to \in {"reading", "stalled", "gone"} :
          /\ peer[c] \in {"reading", "stalled"} \ {to}
          /\ peer' = [peer EXCEPT ![c] = to]
    /\ UNCHANGED <<peerRest, hello, conn>>

\* The caller of Serve cancels its context.
Cancel ==
    /\ ~ctxDone
    /\ ctxDone' = TRUE
    /\ UNCHANGED <<hubVars, lnOpen, accept, cur, peer, hello, conn, hsW, hsR, registered,
                   writer, batch, wire, reader, wg, shutdown, late, total>>

\* The goroutine of Serve that closes the listener when the context is done.
CloseListener ==
    /\ ctxDone /\ lnOpen
    /\ lnOpen' = FALSE
    /\ UNCHANGED <<hubVars, ctxDone, accept, cur, peer, hello, conn, hsW, hsR, registered,
                   writer, batch, wire, reader, wg, shutdown, late, total>>

-----------------------------------------------------------------------------
(***************************************************************************)
(* Serve and acceptOnce: one connection at a time.                          *)
(***************************************************************************)
acceptRest == <<ctxDone, lnOpen, peer, hello, batch, wire, shutdown, late>>

Goto(here, there) == accept = here /\ accept' = there

Accept(c) ==
    /\ lnOpen /\ conn[c] = "backlog"
    /\ Goto("accept", "handshake")
    /\ cur' = c
    /\ conn' = [conn EXCEPT ![c] = "open"]
    /\ hsW' = [hsW EXCEPT ![c] = "run"] /\ hsR' = [hsR EXCEPT ![c] = "run"]
    /\ Count1("accepted")
    /\ UNCHANGED <<hubVars, acceptRest, registered, writer, reader, wg>>

\* Accept fails, on a closed listener or for want of resources.  Every error
\* of a TCP listener is a net.Error, so unless the context is done the loop
\* sleeps and tries again.
AcceptError ==
    /\ Goto("accept", IF ctxDone THEN "returned" ELSE "sleep")
    /\ UNCHANGED <<hubVars, acceptRest, cur, conn, hsW, hsR, registered, writer,
                   reader, wg, total>>

AcceptRetry ==
    /\ Goto("sleep", "accept")
    /\ UNCHANGED <<hubVars, acceptRest, cur, conn, hsW, hsR, registered, writer,
                   reader, wg, total>>

\* Handshake is running: its deadline is armed and it receives from errCh.
InHandshake(c) == accept = "handshake" /\ cur = c

\* A goroutine of Handshake ends with result r; errCh has room for both, so
\* it ends even when nobody receives any more.
Report(c, r) == IF InHandshake(c) THEN r ELSE "off"

handshakeRest == <<hubVars, ctxDone, lnOpen, peer, batch, wire, shutdown, late,
                   accept, cur, conn, registered, writer, reader, wg, total>>

\* The writing goroutine: the hello fits any send buffer.
HelloWrite(c) ==
    /\ hsW[c] = "run"
    /\ \E r \in {"ok", "err"} :
          /\ r = "ok" => conn[c] = "open"
          /\ r = "err" => conn[c] = "closed" \/ peer[c] = "gone"
          /\ hsW' = [hsW EXCEPT ![c] = Report(c, r)]
    /\ UNCHANGED <<handshakeRest, hsR, hello>>

\* The reading goroutine: the right hello, or a wrong one, the end of the
\* stream, the deadline, or a Close on this side.
HelloRead(c) ==
    /\ hsR[c] = "run"
    /\ \E r \in {"ok", "err"} :
          /\ r = "ok" => conn[c] = "open" /\ hello[c] = "good"
          /\ r = "err" => \/ conn[c] = "closed" \/ hello[c] = "bad" \/ InHandshake(c)
                          \/ peer[c] = "gone" /\ hello[c] = "none"
          /\ hsR' = [hsR EXCEPT ![c] = Report(c, r)]
    /\ hello' = [hello EXCEPT ![c] = "none"]
    /\ UNCHANGED <<handshakeRest, hsW>>

\* Handshake returns: a goroutine still running is left behind, and the
\* deferred SetDeadline takes its deadline away.
HandshakeReturns(c, there) ==
    /\ cur = c
    /\ Goto("handshake", there)
    /\ hsW' = [hsW EXCEPT ![c] = IF @ = "run" THEN @ ELSE "off"]
    /\ hsR' = [hsR EXCEPT ![c] = IF @ = "run" THEN @ ELSE "off"]

HandshakeOk(c) ==
    /\ hsW[c] = "ok" /\ hsR[c] = "ok"
    /\ HandshakeReturns(c, "admit")
    /\ UNCHANGED <<hubVars, acceptRest, cur, conn, registered, writer, reader, wg,
                   total>>

\* Faulty variant: the connection is left open.
Forget(c) == cur' = NoConn /\ UNCHANGED conn

\* acceptOnce closes a connection it does not keep.
Refuse(c) == cur' = NoConn /\ conn' = [conn EXCEPT ![c] = "closed"]

\* Handshake returns the first error, or ctx.Err(); acceptOnce counts it and
\* closes the connection.
HandshakeFail(c) ==
    /\ ctxDone \/ hsW[c] = "err" \/ hsR[c] = "err"
    /\ HandshakeReturns(c, "accept")
    /\ Refuse(c)
    /\ Count1("handshakeFail")
    /\ UNCHANGED <<hubVars, acceptRest, registered, writer, reader, wg>>

\* Faulty variant: one client more than the limit is admitted.
FullOffByOne == MaxClients > 0 /\ Count > MaxClients

Full == MaxClients > 0 /\ Count >= MaxClients

\* metrics.IncHubReject
IncHubReject == Count1("rejected")

Reject(c) ==
    /\ cur = c /\ Full
    /\ Goto("admit", "accept")
    /\ Refuse(c)
    /\ IncHubReject
    /\ UNCHANGED <<hubVars, acceptRest, hsW, hsR, registered, writer, reader, wg>>

Admit(c) ==
    /\ cur = c /\ ~Full
    /\ Goto("admit", "add")
    /\ UNCHANGED <<hubVars, acceptRest, cur, conn, hsW, hsR, registered, writer,
                   reader, wg, total>>

NewClient(c) ==
    /\ cur = c
    /\ Goto("add", "register")
    /\ Add(c)
    /\ UNCHANGED <<acceptRest, cur, conn, hsW, hsR, registered, writer, reader,
                   wg, total>>

\* s.clients[client] = conn, under clientsMu, which Shutdown holds in its sweep.
Register(c) ==
    /\ cur = c /\ shutdown # "sweep"
    /\ Goto("register", "startWriter")
    /\ registered' = registered \cup {c}
    /\ Count1("connected")
    /\ UNCHANGED <<hubVars, acceptRest, cur, conn, hsW, hsR, writer, reader, wg>>

\* Faulty variant: wg.Add is forgotten.
WgSame == UNCHANGED wg

WgAdd == wg' = wg + 1

StartWriter(c) ==
    /\ cur = c
    /\ Goto("startWriter", "startReader")
    /\ WgAdd
    /\ writer' = [writer EXCEPT ![c] = "select"]
    /\ UNCHANGED <<hubVars, acceptRest, cur, conn, hsW, hsR, registered, reader, total>>

StartReader(c) ==
    /\ cur = c
    /\ Goto("startReader", "accept")
    /\ cur' = NoConn
    /\ WgAdd
    /\ reader' = [reader EXCEPT ![c] = "read"]
    /\ UNCHANGED <<hubVars, acceptRest, conn, hsW, hsR, registered, writer, total>>

-----------------------------------------------------------------------------
(***************************************************************************)
(* The writer goroutine: select over Out, the ticker, Closed and ctxDone.   *)
(***************************************************************************)
writerRest == <<ctxDone, lnOpen, accept, cur, peer, hello, hsW, hsR, registered,
                reader, shutdown, late>>

WGoto(c, here, there) ==
    writer[c] = here /\ writer' = [writer EXCEPT ![c] = there]

WriterRecv(c) ==
    /\ WGoto(c, "select", IF Len(batch[c]) + 1 >= BatchSize THEN "flush" ELSE "select")
    /\ Recv(c)
    /\ batch' = [batch EXCEPT ![c] = Append(@, Head(out[c]))]
    /\ UNCHANGED <<writerRest, conn, wire, wg, total>>

\* A tick with an empty batch changes nothing.
WriterTick(c) ==
    /\ batch[c] # <<>>
    /\ WGoto(c, "select", "flush")
    /\ UNCHANGED <<hubVars, writerRest, conn, batch, wire, wg, total>>

\* Faulty variants: the writer watches only one of the two.
CtxIsDone(c) == ctxDone
IsClosed(c) == c \in closed

Stopping(c) == c \in closed \/ ctxDone

\* Closed or ctxDone: a last flush if there is something to write.
WriterStop(c) ==
    /\ Stopping(c)
    /\ WGoto(c, "select", IF batch[c] = <<>> THEN "close" ELSE "last")
    /\ UNCHANGED <<hubVars, writerRest, conn, batch, wire, wg, total>>

\* Faulty variant: the batch is kept.
KeepBatch(c) == UNCHANGED batch

\* batch = batch[:0], after a write and after a failed one.
ClearBatch(c) == batch' = [batch EXCEPT ![c] = <<>>]

\* Back to the select, or on to the deferred calls after the last flush.
Flushed(c) ==
    writer' = [writer EXCEPT ![c] = IF @ = "flush" THEN "select" ELSE "close"]

\* A failed write ends the writer.
FlushFailed(c) == writer' = [writer EXCEPT ![c] = "close"]

\* flush: the whole batch reaches the connection, whose peer drains it.
FlushOk(c) ==
    /\ writer[c] \in {"flush", "last"}
    /\ conn[c] = "open" /\ peer[c] # "stalled"
    /\ wire' = [wire EXCEPT ![c] = @ \o batch[c]]
    /\ ClearBatch(c)
    /\ Flushed(c)
    /\ UNCHANGED <<hubVars, writerRest, conn, wg, total>>

\* flush: a write fails after k frames, because the connection has been closed
\* on this side or reset by the peer.
FlushError(c) ==
    /\ writer[c] \in {"flush", "last"}
    /\ conn[c] = "closed" \/ peer[c] = "gone"
    /\ \E k \in 0..(Len(batch[c]) - 1) :
          wire' = [wire EXCEPT ![c] = @ \o SubSeq(batch[c], 1, k)]
    /\ ClearBatch(c)
    /\ FlushFailed(c)
    /\ UNCHANGED <<hubVars, writerRest, conn, wg, total>>

\* The deferred calls: conn.Close, ...
WriterClose(c) ==
    /\ WGoto(c, "close", "remove")
    /\ conn' = [conn EXCEPT ![c] = "closed"]
    /\ UNCHANGED <<hubVars, writerRest, batch, wire, wg, total>>

\* Faulty variants: the client stays in the hub; the end is not counted.
StayInHub(c) == UNCHANGED hubVars
Uncounted == UNCHANGED total

LeaveHub(c) == Remove(c)
CountDisconnected == Count1("disconnected")

\* ... Hub.Remove, the counter, wg.Done.
WriterExit(c) ==
    /\ WGoto(c, "remove", "done")
    /\ LeaveHub(c)
    /\ CountDisconnected
    /\ wg' = wg - 1
    /\ UNCHANGED <<writerRest, conn, batch, wire>>

-----------------------------------------------------------------------------
(***************************************************************************)
(* The reader goroutine.  A read timeout makes it start over, frames go to  *)
(* the backend; the context is looked at only after sixteen frames.         *)
(***************************************************************************)

\* The deferred conn.Close and wg.Done.
ReaderReturns(c) ==
    /\ reader' = [reader EXCEPT ![c] = "done"]
    /\ conn' = [conn EXCEPT ![c] = "closed"]
    /\ wg' = wg - 1
    /\ UNCHANGED <<hubVars, ctxDone, lnOpen, accept, cur, peer, hello, hsW, hsR,
                   registered, writer, batch, wire, shutdown, late, total>>

\* io.EOF from the peer, or net.ErrClosed after a Close on this side.
ReaderEnd(c) ==
    /\ reader[c] = "read"
    /\ peer[c] = "gone" \/ conn[c] = "closed"
    /\ ReaderReturns(c)

\* What the peer sends: a malformed frame ends the connection, and so does a
\* sixteenth frame after the context is done.
ReaderStop(c) ==
    /\ reader[c] = "read"
    /\ peer[c] \in {"reading", "stalled"} /\ conn[c] = "open"
    /\ ReaderReturns(c)

-----------------------------------------------------------------------------
(***************************************************************************)
(* Shutdown                                                                 *)
(***************************************************************************)
shutdownRest == <<ctxDone, accept, cur, peer, hello, hsW, hsR, writer, batch,
                  wire, reader, wg, total>>

\* Close the listener and take clientsMu.  What acceptOnce does between the two
\* does not depend on the listener, so it is as if it came before both.
ShutdownBegin ==
    /\ shutdown = "idle"
    /\ shutdown' = "sweep"
    /\ lnOpen' = FALSE
    /\ late' = cur
    /\ UNCHANGED <<hubVars, shutdownRest, conn, registered>>

\* One turn of the sweep: conn.Close, Hub.Remove, delete from s.clients.
ShutdownClient(c) ==
    /\ shutdown = "sweep" /\ c \in registered
    /\ conn' = [conn EXCEPT ![c] = "closed"]
    /\ Remove(c)
    /\ registered' = registered \ {c}
    /\ UNCHANGED <<shutdownRest, lnOpen, shutdown, late>>

ShutdownSwept ==
    /\ shutdown = "sweep" /\ registered = {}
    /\ shutdown' = "wait"
    /\ UNCHANGED <<hubVars, shutdownRest, lnOpen, conn, registered, late>>

\* Faulty variant: Shutdown does not wait.
AnyWg == wg >= 0

WgWait == wg = 0

\* s.wg.Wait(), or the timeout of Shutdown's own context.
ShutdownReturns ==
    /\ shutdown = "wait"
    /\ \/ WgWait /\ shutdown' = "nil"
       \/ shutdown' = "timeout"
    /\ UNCHANGED <<hubVars, shutdownRest, lnOpen, conn, registered, late>>

-----------------------------------------------------------------------------
Broadcast ==
    /\ BroadcastStart \/ \E c \in Clients : BroadcastTo(c)
    /\ UNCHANGED srvVars

Handshake(c) == HelloWrite(c) \/ HelloRead(c)
AcceptStep(c) == \/ HandshakeOk(c) \/ HandshakeFail(c) \/ Reject(c) \/ Admit(c)
                 \/ NewClient(c) \/ Register(c) \/ StartWriter(c) \/ StartReader(c)
Flush(c) == FlushOk(c) \/ FlushError(c)
WriterDefers(c) == WriterClose(c) \/ WriterExit(c)

Next ==
    \/ \E c \in Clients :
          \/ PeerDial(c) \/ PeerChange(c)
          \/ Accept(c) \/ Handshake(c) \/ AcceptStep(c)
          \/ WriterRecv(c) \/ WriterTick(c) \/ WriterStop(c)
          \/ Flush(c) \/ WriterDefers(c)
          \/ ReaderEnd(c) \/ ReaderStop(c)
          \/ ShutdownClient(c)
    \/ Cancel \/ CloseListener \/ AcceptError \/ AcceptRetry
    \/ ShutdownBegin \/ ShutdownSwept \/ ShutdownReturns
    \/ Broadcast

(***************************************************************************)
(* Goroutines that can run do run; the deadline of a handshake fires; a     *)
(* select that stays able to take Closed or ctxDone takes it in the end.    *)
(* Nothing is assumed of peers, of the bus, or of the callers of Cancel     *)
(* and Shutdown, but a Shutdown that sweeps finishes its sweep.  A flush is *)
(* fair only when it can proceed: a peer that stalls for ever blocks it for *)
(* ever.                                                                    *)
(***************************************************************************)
Fairness ==
    /\ WF_vars(CloseListener)
    /\ WF_vars(AcceptError /\ ~lnOpen) /\ WF_vars(AcceptRetry)
    /\ WF_vars(\E c \in Clients : BroadcastTo(c) /\ UNCHANGED srvVars)
    /\ WF_vars(ShutdownSwept \/ \E c \in Clients : ShutdownClient(c))
    /\ \A c \in Clients :
          /\ WF_vars(HelloWrite(c)) /\ WF_vars(HelloRead(c))
          /\ WF_vars(AcceptStep(c))
          /\ SF_vars(WriterStop(c))
          /\ WF_vars(WriterRecv(c) \/ WriterTick(c))
          /\ SF_vars(Flush(c)) /\ WF_vars(WriterDefers(c))
          /\ WF_vars(ReaderEnd(c))

Spec == Init /\ [][Next]_vars /\ Fairness

-----------------------------------------------------------------------------
(***************************************************************************)
(* Safety                                                                   *)
(***************************************************************************)

TypeOK ==
    /\ HubTypeOK
    /\ ctxDone \in BOOLEAN /\ lnOpen \in BOOLEAN
    /\ accept \in AcceptPcs
    /\ cur \in Clients \cup {NoConn} /\ late \in Clients \cup {NoConn}
    /\ peer \in [Clients -> {"away", "reading", "stalled", "gone"}]
    /\ hello \in [Clients -> {"none", "good", "bad"}]
    /\ conn \in [Clients -> {"none", "backlog", "open", "closed"}]
    /\ hsW \in [Clients -> {"off", "run", "ok", "err"}]
    /\ hsR \in [Clients -> {"off", "run", "ok", "err"}]
    /\ registered \subseteq Clients
    /\ writer \in [Clients -> {"off", "select", "flush", "last", "close",
                               "remove", "done"}]
    /\ reader \in [Clients -> {"off", "read", "done"}]
    /\ batch \in [Clients -> Seq(1..MaxFrames)]
    /\ wire \in [Clients -> Seq(1..MaxFrames)]
    /\ wg \in Nat
    /\ shutdown \in {"idle", "sweep", "wait", "nil", "timeout"}
    /\ total \in [Counters -> Nat]

WriterAlive(c) == writer[c] \notin {"off", "done"}
ReaderAlive(c) == reader[c] = "read"

\* The hub never holds more clients than -max-clients, though the count is
\* read before the client is added and clients leave in between: acceptOnce
\* is the only place that adds.
MaxClientsRespected == MaxClients > 0 => Count <= MaxClients

\* What a client has been sent, is about to be sent and has queued are, in
\* this order, frames in the order of the bus without repetition, across
\* batching, ticker, failing writes and the last flush.
DeliveryOrdered ==
    \A c \in Clients : StrictlyIncreasing(wire[c] \o batch[c] \o out[c])

\* Every client in the hub has a goroutine that will take it out: the accept
\* loop on its way to start the writer, or the writer itself.  No path, be it
\* kick, reader exit, cancellation or Shutdown, leaves an orphan behind.
NoOrphanInHub ==
    \A c \in clients :
        \/ WriterAlive(c)
        \/ cur = c /\ accept \in {"register", "startWriter"}

\* Every accepted connection is accounted for at every moment: it failed its
\* handshake, was rejected, connected, or is being handled; and the connected
\* ones that have not disconnected have a writer.  The shutdown summary alone
\* does not balance, it takes the metric of rejected clients as well.
CountersBalance ==
    /\ total["accepted"] = total["handshakeFail"] + total["rejected"] + total["connected"]
          + (IF accept \in {"handshake", "admit", "add", "register"} THEN 1 ELSE 0)
    /\ total["connected"] = total["disconnected"]
          + Cardinality({c \in Clients : WriterAlive(c)})
          + (IF accept = "startWriter" THEN 1 ELSE 0)

Ended(c) ==
    c \notin clients /\ ~WriterAlive(c) /\ ~ReaderAlive(c) /\ conn[c] # "open"

\* When Shutdown returns nil, every connection is closed, every reader and
\* writer has ended and the hub is empty, with at most one exception: the
\* connection acceptOnce had in hand when Shutdown began.  The sweep may miss
\* that one and wg.Wait may return before its goroutines are added, but it
\* takes no other connection with it.
ShutdownComplete ==
    shutdown = "nil" => \A c \in Clients \ {late} : Ended(c)

\* A connection that did not become a client is closed: failed handshakes and
\* rejections do not leak the socket.
NoLeakedConnection ==
    \A c \in Clients :
        conn[c] = "open" => cur = c \/ WriterAlive(c) \/ ReaderAlive(c)

-----------------------------------------------------------------------------
(***************************************************************************)
(* Liveness                                                                 *)
(***************************************************************************)

Blocked(c) == peer[c] = "stalled" /\ conn[c] = "open"
PeersKeepReading == \A c \in Clients : Blocked(c) ~> ~Blocked(c)

AllStopped ==
    /\ accept = "returned"
    /\ \A c \in Clients : /\ ~WriterAlive(c) /\ ~ReaderAlive(c)
                          /\ hsW[c] # "run" /\ hsR[c] # "run"

\* After the context is cancelled Serve returns and every goroutine of the
\* server ends, unless a peer stops reading for ever: a reader never looks at
\* the context while it waits, the writer's Close releases it.
CancelStopsAll == PeersKeepReading => (ctxDone ~> AllStopped)

\* A client that was signalled (kicked or removed) is disconnected, if its
\* peer does not stop reading for ever.
KickDisconnects ==
    PeersKeepReading =>
        \A c \in Clients : c \in closed /\ WriterAlive(c) ~> c \notin clients

\* The goroutines of Handshake end although Handshake does not wait for them
\* on an error and clears the deadline they rely on: acceptOnce closes the
\* connection.
HandshakeGoroutinesEnd ==
    \A c \in Clients : hsR[c] = "run" \/ hsW[c] = "run"
                           ~> hsR[c] # "run" /\ hsW[c] # "run"

\* A client whose reader has ended (the peer left, or sent a malformed frame)
\* leaves the hub as soon as there is a frame for it: the reader has closed
\* the connection, so the writer's next flush fails.  Until the bus carries a
\* frame nothing takes it out, and it counts against -max-clients.
DeadClientRemoved ==
    \A c \in Clients : reader[c] = "done" /\ out[c] # <<>> ~> c \notin clients

\* Broadcast returns although writers are stuck and queues are full: a slow
\* client holds up neither the receive loop nor the other clients.
BroadcastReturns == todo # {} ~> todo = {}

-----------------------------------------------------------------------------
(***************************************************************************)
(* What the documentation promises and the code breaks.                     *)
(***************************************************************************)

\* "Slow client channel overflow triggers connection close" (kick).
KickClosesConnection ==
    \A c \in Clients : policy = "kick" /\ c \in closed ~> conn[c] = "closed"
=============================================================================
