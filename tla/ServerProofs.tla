---------------------------- MODULE ServerProofs ----------------------------
(***************************************************************************)
(* For any finite set of clients, any limit, policy, queue and batch size:  *)
(* the limit on clients holds, no client is orphaned in the hub, no         *)
(* connection leaks, the counters account for every connection, and a       *)
(* Shutdown that returns nil left at most one connection running.  One      *)
(* inductive invariant carries all five: the stages a connection goes       *)
(* through (LifeInv), the wait group as the number of goroutines alive      *)
(* (WgInv), the balance of the counters with what is still under way        *)
(* (Balance), and what a closed listener means for acceptOnce               *)
(* (ShutdownInv).  A second one (QueueInv) carries the order of the frames  *)
(* from the hub's queues to each client.                                    *)
(***************************************************************************)
EXTENDS Server, FiniteSetTheorems, SequenceTheorems, TLAPS

\* The types, without the bounds that take an invariant of their own: wg is
\* an integer here, and nothing is said of the contents of the queues.
Types ==
    /\ clients \subseteq Clients /\ closed \subseteq Clients /\ todo \subseteq Clients
    /\ registered \subseteq Clients
    /\ policy \in Policies /\ frame \in 0..MaxFrames
    /\ ctxDone \in BOOLEAN /\ lnOpen \in BOOLEAN
    /\ accept \in AcceptPcs
    /\ cur \in Clients \cup {NoConn} /\ late \in Clients \cup {NoConn}
    /\ peer \in [Clients -> {"away", "reading", "stalled", "gone"}]
    /\ hello \in [Clients -> {"none", "good", "bad"}]
    /\ conn \in [Clients -> {"none", "backlog", "open", "closed"}]
    /\ hsW \in [Clients -> {"off", "run", "ok", "err"}]
    /\ hsR \in [Clients -> {"off", "run", "ok", "err"}]
    /\ writer \in [Clients -> {"off", "select", "flush", "last", "close",
                               "remove", "done"}]
    /\ reader \in [Clients -> {"off", "read", "done"}]
    /\ wg \in Int
    /\ shutdown \in {"idle", "sweep", "wait", "nil", "timeout"}
    /\ total \in [Counters -> Nat]

\* NewServer starts well typed.
LEMMA TypesInit == Init => Types
<1> SUFFICES ASSUME Init PROVE Types
  OBVIOUS
<1>1. ctxDone \in BOOLEAN /\ lnOpen \in BOOLEAN
  BY Zenon DEF Init
<1>2. /\ clients \subseteq Clients /\ closed \subseteq Clients /\ todo \subseteq Clients
      /\ policy \in Policies /\ frame \in 0..MaxFrames
  BY MaxFramesAssumption DEF Init, HubInit
<1>3. total \in [Counters -> Nat] /\ wg \in Int
  BY DEF Init
<1> QED
  BY <1>1, <1>2, <1>3 DEF Init, Types, AcceptPcs

\* A turn of the writer's select, whatever is in its batch, moves the writer and
\* leaves alone all that the types below speak of.
LEMMA WriterMoves ==
    ASSUME NEW c \in Clients, WriterRecv(c) \/ WriterTick(c) \/ WriterStop(c)
    PROVE  /\ writer[c] = "select"
           /\ \E to \in {"select", "flush", "last", "close"} :
                 writer' = [writer EXCEPT ![c] = to]
           /\ UNCHANGED <<clients, policy, closed, frame, todo, writerRest, conn, wg,
                          total>>
<1>1. CASE WriterRecv(c)
  BY <1>1 DEF WriterRecv, Recv, WGoto
<1>2. CASE WriterTick(c)
  BY <1>2 DEF WriterTick, hubVars, WGoto
<1>3. CASE WriterStop(c)
  BY <1>3 DEF WriterStop, hubVars, WGoto
<1> QED
  BY <1>1, <1>2, <1>3

\* A flush, whatever reaches the wire, moves the writer and nothing else.
LEMMA FlushMoves ==
    ASSUME Types, NEW c \in Clients, Flush(c)
    PROVE  /\ writer[c] \in {"flush", "last"}
           /\ \E to \in {"select", "close"} : writer' = [writer EXCEPT ![c] = to]
           /\ UNCHANGED <<hubVars, writerRest, conn, wg, total>>
<1>1. CASE FlushOk(c)
  <2>1. writer[c] \in {"flush", "last"} /\ Flushed(c)
    BY <1>1 DEF FlushOk
  <2>2. writer' = [writer EXCEPT ![c] = IF writer[c] = "flush" THEN "select" ELSE "close"]
    BY <2>1 DEF Flushed, Types
  <2> QED
    BY <1>1, <2>1, <2>2 DEF FlushOk
<1>2. CASE FlushError(c)
  BY <1>2 DEF FlushError, FlushFailed
<1> QED
  BY <1>1, <1>2 DEF Flush

\* The counters and metrics there are.
LEMMA CounterNames ==
    /\ "accepted" \in Counters /\ "handshakeFail" \in Counters
    /\ "rejected" \in Counters /\ "connected" \in Counters
    /\ "disconnected" \in Counters
  BY DEF Counters, Summary

\* Counting one more leaves natural numbers.
LEMMA CountTypes ==
    ASSUME total \in [Counters -> Nat], NEW k \in Counters, Count1(k)
    PROVE  total' \in [Counters -> Nat]
  BY DEF Count1

\* Every step keeps the types.
LEMMA TypesStep == Types /\ [Next]_vars => Types'
<1> SUFFICES ASSUME Types, [Next]_vars PROVE Types'
  OBVIOUS
<1> USE DEF Types
<1>1. ASSUME NEW c \in Clients, PeerDial(c) \/ PeerChange(c) PROVE Types'
  BY <1>1 DEF PeerDial, PeerChange, peerRest, hubVars
<1>2. ASSUME NEW c \in Clients, Accept(c) PROVE Types'
  <2>1. total' \in [Counters -> Nat]
    BY <1>2, CounterNames, CountTypes DEF Accept
  <2> QED
    BY <1>2, <2>1 DEF Accept, acceptRest, hubVars, Goto, AcceptPcs
<1>3. ASSUME NEW c \in Clients, Handshake(c) PROVE Types'
  BY <1>3 DEF Handshake, HelloWrite, HelloRead, Report, handshakeRest, hubVars
<1>4. ASSUME NEW c \in Clients, HandshakeOk(c) \/ HandshakeFail(c) PROVE Types'
  <2>1. total' \in [Counters -> Nat]
    BY <1>4, CounterNames, CountTypes DEF HandshakeOk, HandshakeFail, acceptRest
  <2> QED
    BY <1>4, <2>1 DEF HandshakeOk, HandshakeFail, HandshakeReturns, Refuse, acceptRest,
                      hubVars, Goto, AcceptPcs
<1>5. ASSUME NEW c \in Clients,
             Reject(c) \/ Admit(c) \/ NewClient(c) \/ Register(c)
      PROVE  Types'
  <2>1. total' \in [Counters -> Nat]
    BY <1>5, CounterNames, CountTypes
    DEF Reject, IncHubReject, Admit, NewClient, Register, acceptRest
  <2> QED
    BY <1>5, <2>1 DEF Reject, Admit, NewClient, Register, Refuse, Add, acceptRest,
                      hubVars, Goto, AcceptPcs
<1>6. ASSUME NEW c \in Clients, StartWriter(c) \/ StartReader(c) PROVE Types'
  BY <1>6 DEF StartWriter, StartReader, WgAdd, acceptRest, hubVars, Goto, AcceptPcs
<1>7. ASSUME NEW c \in Clients, WriterRecv(c) \/ WriterTick(c) \/ WriterStop(c)
      PROVE  Types'
  <2>1. \E to \in {"select", "flush", "last", "close"} :
          writer' = [writer EXCEPT ![c] = to]
    BY <1>7, WriterMoves
  <2>2. UNCHANGED <<clients, policy, closed, frame, todo, writerRest, conn, wg, total>>
    BY <1>7, WriterMoves
  <2> QED
    BY <2>1, <2>2 DEF writerRest
<1>8. ASSUME NEW c \in Clients, Flush(c) PROVE Types'
  <2>1. \E to \in {"select", "close"} : writer' = [writer EXCEPT ![c] = to]
    BY <1>8, FlushMoves
  <2>2. UNCHANGED <<hubVars, writerRest, conn, wg, total>>
    BY <1>8, FlushMoves
  <2> QED
    BY <2>1, <2>2 DEF writerRest, hubVars
<1>9. ASSUME NEW c \in Clients, WriterDefers(c) PROVE Types'
  <2>1. total' \in [Counters -> Nat]
    BY <1>9, CounterNames, CountTypes
    DEF WriterDefers, WriterClose, WriterExit, CountDisconnected
  <2> QED
    BY <1>9, <2>1 DEF WriterDefers, WriterClose, WriterExit, LeaveHub, Remove,
                      writerRest, hubVars, WGoto
<1>10. ASSUME NEW c \in Clients, ReaderEnd(c) \/ ReaderStop(c) PROVE Types'
  BY <1>10 DEF ReaderEnd, ReaderStop, ReaderReturns, hubVars
<1>11. ASSUME NEW c \in Clients, ShutdownClient(c) PROVE Types'
  BY <1>11 DEF ShutdownClient, Remove, shutdownRest
<1>12. CASE Cancel \/ CloseListener
  <2>1. CASE Cancel
    <3>1. ctxDone' \in BOOLEAN
      BY <2>1 DEF Cancel
    <3> QED
      BY <2>1, <3>1 DEF Cancel, hubVars
  <2>2. CASE CloseListener
    <3>1. lnOpen' \in BOOLEAN
      BY <2>2 DEF CloseListener
    <3> QED
      BY <2>2, <3>1 DEF CloseListener, hubVars
  <2> QED
    BY <1>12, <2>1, <2>2
<1>13. CASE AcceptError \/ AcceptRetry
  <2>1. accept' \in AcceptPcs
    BY <1>13 DEF AcceptError, AcceptRetry, Goto, AcceptPcs
  <2>2. UNCHANGED <<hubVars, acceptRest, cur, conn, hsW, hsR, registered, writer,
                    reader, wg, total>>
    BY <1>13 DEF AcceptError, AcceptRetry
  <2> QED
    BY <2>1, <2>2 DEF acceptRest, hubVars
<1>14. CASE ShutdownBegin \/ ShutdownSwept \/ ShutdownReturns
  <2>2. CASE ShutdownBegin
    <3>1. lnOpen' \in BOOLEAN /\ shutdown' = "sweep" /\ late' = cur
      BY <2>2 DEF ShutdownBegin
    <3>2. UNCHANGED <<hubVars, shutdownRest, conn, registered>>
      BY <2>2 DEF ShutdownBegin
    <3> QED
      BY <3>1, <3>2 DEF shutdownRest, hubVars
  <2>3. CASE ShutdownSwept \/ ShutdownReturns
    <3>1. shutdown' \in {"wait", "nil", "timeout"}
      BY <2>3 DEF ShutdownSwept, ShutdownReturns
    <3>2. UNCHANGED <<hubVars, shutdownRest, lnOpen, conn, registered, late>>
      BY <2>3 DEF ShutdownSwept, ShutdownReturns
    <3> QED
      BY <3>1, <3>2 DEF shutdownRest, hubVars
  <2> QED
    BY <1>14, <2>2, <2>3
<1>15. CASE Broadcast
  BY <1>15, MaxFramesAssumption
  DEF Broadcast, BroadcastStart, BroadcastTo, Refused, srvVars
<1>16. CASE UNCHANGED vars
  BY <1>16 DEF vars, hubVars, srvVars
<1> QED
  BY <1>1, <1>2, <1>3, <1>4, <1>5, <1>6, <1>7, <1>8, <1>9, <1>10, <1>11, <1>12,
     <1>13, <1>14, <1>15, <1>16
  DEF Next, AcceptStep

-----------------------------------------------------------------------------
(***************************************************************************)
(* The life of a connection.                                                *)
(***************************************************************************)

Idle == accept \in {"accept", "sleep", "returned"}

\* Between two connections the accept loop holds none.  A connection has no
\* goroutines before acceptOnce starts them, and those that are past their
\* conn.Close have left it closed for good: nobody dials or accepts it again.
LifeInv ==
    /\ Idle => cur = NoConn
    /\ \A c \in Clients :
          /\ peer[c] = "away" => conn[c] = "none"
          /\ conn[c] \in {"none", "backlog"} =>
                /\ writer[c] = "off" /\ reader[c] = "off"
                /\ cur # c /\ c \notin registered
          /\ cur = c => reader[c] = "off"
          /\ cur = c /\ accept # "startReader" => writer[c] = "off"
          /\ writer[c] \in {"remove", "done"} => conn[c] = "closed"
          /\ reader[c] = "done" => conn[c] = "closed"

lifeVars == <<accept, cur, peer, conn, writer, reader, registered>>

\* A new server has no connection.
LEMMA LifeInit == Init => LifeInv
  BY NoConnAssumption DEF Init, LifeInv

\* Every step keeps the stages of a connection in order.
LEMMA LifeStep == Types /\ LifeInv /\ [Next]_vars => LifeInv'
<1> SUFFICES ASSUME Types, LifeInv, [Next]_vars PROVE LifeInv'
  OBVIOUS
<1> USE NoConnAssumption DEF LifeInv, Idle
<1>1. ASSUME NEW c \in Clients, PeerDial(c) \/ PeerChange(c) PROVE LifeInv'
  BY <1>1 DEF PeerDial, PeerChange, peerRest, Types
<1>2. ASSUME NEW c \in Clients, Accept(c) PROVE LifeInv'
  BY <1>2 DEF Accept, acceptRest, Goto, Types
<1>3. ASSUME NEW c \in Clients, HandshakeOk(c) \/ HandshakeFail(c) PROVE LifeInv'
  BY <1>3 DEF HandshakeOk, HandshakeFail, HandshakeReturns, Refuse, acceptRest,
              Goto, Types
<1>4. ASSUME NEW c \in Clients,
             Reject(c) \/ Admit(c) \/ NewClient(c) \/ Register(c)
      PROVE  LifeInv'
  BY <1>4 DEF Reject, Admit, NewClient, Register, Refuse, acceptRest, Goto, Types
<1>5. ASSUME NEW c \in Clients, StartWriter(c) \/ StartReader(c) PROVE LifeInv'
  BY <1>5 DEF StartWriter, StartReader, acceptRest, Goto, Types
<1>6. ASSUME NEW c \in Clients, WriterRecv(c) \/ WriterTick(c) \/ WriterStop(c)
      PROVE  LifeInv'
  <2>1. /\ writer[c] = "select" /\ UNCHANGED <<writerRest, conn>>
        /\ \E to \in {"select", "flush", "last", "close"} :
              writer' = [writer EXCEPT ![c] = to]
    BY <1>6, WriterMoves
  <2> QED
    BY <2>1 DEF writerRest, Types
<1>7. ASSUME NEW c \in Clients, Flush(c) PROVE LifeInv'
  BY <1>7, FlushMoves DEF writerRest, Types
<1>8. ASSUME NEW c \in Clients, WriterDefers(c) PROVE LifeInv'
  BY <1>8 DEF WriterDefers, WriterClose, WriterExit, writerRest, WGoto, Types
<1>9. ASSUME NEW c \in Clients, ReaderEnd(c) \/ ReaderStop(c) PROVE LifeInv'
  BY <1>9 DEF ReaderEnd, ReaderStop, ReaderReturns, Types
<1>10. ASSUME NEW c \in Clients, ShutdownClient(c) PROVE LifeInv'
  BY <1>10 DEF ShutdownClient, shutdownRest, Types
<1>11. CASE AcceptError \/ AcceptRetry
  BY <1>11 DEF AcceptError, AcceptRetry, acceptRest, Goto
<1>12. CASE UNCHANGED lifeVars
  BY <1>12 DEF lifeVars
<1>13. ASSUME NEW c \in Clients, Handshake(c) PROVE UNCHANGED lifeVars
  BY <1>13 DEF Handshake, HelloWrite, HelloRead, handshakeRest, lifeVars
<1>14. ASSUME \/ Cancel \/ CloseListener \/ Broadcast
              \/ ShutdownBegin \/ ShutdownSwept \/ ShutdownReturns
              \/ UNCHANGED vars
       PROVE  UNCHANGED lifeVars
  BY <1>14 DEF Cancel, CloseListener, Broadcast, ShutdownBegin, ShutdownSwept,
               ShutdownReturns, shutdownRest, vars, srvVars, lifeVars
<1> QED
  BY <1>1, <1>2, <1>3, <1>4, <1>5, <1>6, <1>7, <1>8, <1>9, <1>10, <1>11, <1>12,
     <1>13, <1>14
  DEF Next, AcceptStep

-----------------------------------------------------------------------------
\* No step leaves a client in the hub with no goroutine to remove it.
LEMMA OrphanStep == Types /\ NoOrphanInHub /\ [Next]_vars => NoOrphanInHub'
<1> SUFFICES ASSUME Types, NoOrphanInHub, [Next]_vars PROVE NoOrphanInHub'
  OBVIOUS
<1> USE DEF NoOrphanInHub, WriterAlive
<1>1. ASSUME NEW c \in Clients, Accept(c) \/ HandshakeOk(c) \/ HandshakeFail(c)
      PROVE  NoOrphanInHub'
  BY <1>1 DEF Accept, HandshakeOk, HandshakeFail, HandshakeReturns, Refuse, Goto,
              hubVars
<1>2. ASSUME NEW c \in Clients,
             Reject(c) \/ Admit(c) \/ NewClient(c) \/ Register(c)
      PROVE  NoOrphanInHub'
  BY <1>2 DEF Reject, Admit, NewClient, Register, Refuse, Add, Goto, hubVars
<1>3. ASSUME NEW c \in Clients, StartWriter(c) \/ StartReader(c)
      PROVE  NoOrphanInHub'
  BY <1>3 DEF StartWriter, StartReader, Goto, hubVars, Types
<1>4. ASSUME NEW c \in Clients, WriterRecv(c) \/ WriterTick(c) \/ WriterStop(c)
      PROVE  NoOrphanInHub'
  BY <1>4 DEF WriterRecv, WriterTick, WriterStop, Recv, WGoto, writerRest, hubVars,
              Types
<1>5. ASSUME NEW c \in Clients, Flush(c) PROVE NoOrphanInHub'
  BY <1>5, FlushMoves DEF writerRest, hubVars, Types
<1>6. ASSUME NEW c \in Clients, WriterDefers(c) PROVE NoOrphanInHub'
  BY <1>6 DEF WriterDefers, WriterClose, WriterExit, LeaveHub, Remove, WGoto,
              writerRest, hubVars, Types
<1>7. ASSUME NEW c \in Clients, ShutdownClient(c) PROVE NoOrphanInHub'
  BY <1>7 DEF ShutdownClient, Remove, shutdownRest
<1>8. CASE AcceptError \/ AcceptRetry
  BY <1>8 DEF AcceptError, AcceptRetry, Goto, hubVars
<1>9. CASE UNCHANGED <<clients, writer, accept, cur>>
  BY <1>9
<1>10. ASSUME NEW c \in Clients,
              \/ PeerDial(c) \/ PeerChange(c) \/ Handshake(c)
              \/ ReaderEnd(c) \/ ReaderStop(c)
       PROVE  UNCHANGED <<clients, writer, accept, cur>>
  BY <1>10 DEF PeerDial, PeerChange, peerRest, Handshake, HelloWrite, HelloRead,
               handshakeRest, ReaderEnd, ReaderStop, ReaderReturns, hubVars
<1>11. ASSUME \/ Cancel \/ CloseListener \/ Broadcast
              \/ ShutdownBegin \/ ShutdownSwept \/ ShutdownReturns
              \/ UNCHANGED vars
       PROVE  UNCHANGED <<clients, writer, accept, cur>>
  BY <1>11 DEF Cancel, CloseListener, Broadcast, BroadcastStart, BroadcastTo,
               ShutdownBegin, ShutdownSwept, ShutdownReturns, shutdownRest, vars,
               srvVars, hubVars
<1> QED
  BY <1>1, <1>2, <1>3, <1>4, <1>5, <1>6, <1>7, <1>8, <1>9, <1>10, <1>11
  DEF Next, AcceptStep

\* No step leaves an open connection with nobody to close it.
LEMMA LeakStep ==
    Types /\ LifeInv /\ NoLeakedConnection /\ [Next]_vars => NoLeakedConnection'
<1> SUFFICES ASSUME Types, LifeInv, NoLeakedConnection, [Next]_vars
             PROVE  NoLeakedConnection'
  OBVIOUS
<1> USE DEF NoLeakedConnection, WriterAlive, ReaderAlive
<1>1. ASSUME NEW c \in Clients, PeerDial(c) \/ PeerChange(c)
      PROVE  NoLeakedConnection'
  BY <1>1 DEF PeerDial, PeerChange, peerRest, Types
<1>2. ASSUME NEW c \in Clients, Accept(c) PROVE NoLeakedConnection'
  BY <1>2, NoConnAssumption DEF Accept, Goto, LifeInv, Idle, Types
<1>3. ASSUME NEW c \in Clients, HandshakeOk(c) \/ HandshakeFail(c) \/ Reject(c)
      PROVE  NoLeakedConnection'
  BY <1>3 DEF HandshakeOk, HandshakeFail, HandshakeReturns, Reject, Refuse, Types
<1>4. ASSUME NEW c \in Clients, Admit(c) \/ NewClient(c) \/ Register(c)
      PROVE  NoLeakedConnection'
  BY <1>4 DEF Admit, NewClient, Register
<1>5. ASSUME NEW c \in Clients, StartWriter(c) \/ StartReader(c)
      PROVE  NoLeakedConnection'
  BY <1>5 DEF StartWriter, StartReader, Types
<1>6. ASSUME NEW c \in Clients, WriterRecv(c) \/ WriterTick(c) \/ WriterStop(c)
      PROVE  NoLeakedConnection'
  BY <1>6 DEF WriterRecv, WriterTick, WriterStop, WGoto, writerRest, Types
<1>7. ASSUME NEW c \in Clients, Flush(c) PROVE NoLeakedConnection'
  BY <1>7, FlushMoves DEF writerRest, Types
<1>8. ASSUME NEW c \in Clients, WriterDefers(c) PROVE NoLeakedConnection'
  BY <1>8 DEF WriterDefers, WriterClose, WriterExit, WGoto, writerRest, LifeInv, Types
<1>9. ASSUME NEW c \in Clients, ReaderEnd(c) \/ ReaderStop(c)
      PROVE  NoLeakedConnection'
  BY <1>9 DEF ReaderEnd, ReaderStop, ReaderReturns, Types
<1>10. ASSUME NEW c \in Clients, ShutdownClient(c) PROVE NoLeakedConnection'
  BY <1>10 DEF ShutdownClient, shutdownRest, Types
<1>11. CASE AcceptError \/ AcceptRetry
  BY <1>11 DEF AcceptError, AcceptRetry
<1>12. CASE UNCHANGED lifeVars
  BY <1>12 DEF lifeVars
<1>13. ASSUME NEW c \in Clients, Handshake(c) PROVE UNCHANGED lifeVars
  BY <1>13 DEF Handshake, HelloWrite, HelloRead, handshakeRest, lifeVars
<1>14. ASSUME \/ Cancel \/ CloseListener \/ Broadcast
              \/ ShutdownBegin \/ ShutdownSwept \/ ShutdownReturns
              \/ UNCHANGED vars
       PROVE  UNCHANGED lifeVars
  BY <1>14 DEF Cancel, CloseListener, Broadcast, ShutdownBegin, ShutdownSwept,
               ShutdownReturns, shutdownRest, vars, srvVars, lifeVars
<1> QED
  BY <1>1, <1>2, <1>3, <1>4, <1>5, <1>6, <1>7, <1>8, <1>9, <1>10, <1>11, <1>12,
     <1>13, <1>14
  DEF Next, AcceptStep
-----------------------------------------------------------------------------
(***************************************************************************)
(* Counting: the hub's clients, the goroutines in the wait group.           *)
(***************************************************************************)

\* Sets of clients are finite, and one client more or less counts as one.
LEMMA SubsetCounts ==
    ASSUME NEW S \in SUBSET Clients
    PROVE  /\ IsFiniteSet(S) /\ Cardinality(S) \in Nat
           /\ Cardinality(S) = 0 => S = {}
           /\ \A c \in Clients \ S : Cardinality(S \cup {c}) = Cardinality(S) + 1
           /\ \A c \in S : Cardinality(S \ {c}) = Cardinality(S) - 1
<1>1. IsFiniteSet(S)
  BY ClientsAssumption, FS_Subset
<1>2. Cardinality(S) \in Nat /\ (Cardinality(S) = 0 => S = {})
  BY <1>1, FS_CardinalityType, FS_EmptySet
<1>3. \A c \in Clients \ S : Cardinality(S \cup {c}) = Cardinality(S) + 1
  BY <1>1, FS_AddElement
<1>4. \A c \in S : Cardinality(S \ {c}) = Cardinality(S) - 1
  BY <1>1, FS_RemoveElement
<1> QED
  BY <1>1, <1>2, <1>3, <1>4

\* Whoever passes the check of the limit finds room, and keeps it until Add.
CapacityInv ==
    MaxClients > 0 =>
        /\ Count <= MaxClients
        /\ accept = "add" => Count < MaxClients

\* acceptOnce is the only place that adds a client.
LEMMA OnlyAcceptAdds ==
    ASSUME Types, [Next]_vars
    PROVE  \/ \E c \in Clients : NewClient(c)
           \/ /\ clients' \subseteq clients
              /\ accept' = "add" => accept = "add" \/ ~Full
<1> DEFINE P == /\ clients' \subseteq clients
                /\ accept' = "add" => accept = "add" \/ ~Full
<1>1. ASSUME NEW c \in Clients,
             \/ Accept(c) \/ HandshakeOk(c) \/ HandshakeFail(c) \/ Reject(c)
             \/ Admit(c) \/ Register(c) \/ StartWriter(c) \/ StartReader(c)
      PROVE  P
  BY <1>1 DEF Accept, HandshakeOk, HandshakeFail, HandshakeReturns, Reject, Admit,
              Register, StartWriter, StartReader, Goto, hubVars
<1>2. ASSUME NEW c \in Clients,
             \/ WriterRecv(c) \/ WriterTick(c) \/ WriterStop(c) \/ WriterDefers(c)
             \/ ShutdownClient(c)
      PROVE  P
  BY <1>2 DEF WriterRecv, WriterTick, WriterStop, WriterDefers, WriterClose,
              WriterExit, LeaveHub, Remove, Recv, ShutdownClient, shutdownRest,
              writerRest, hubVars
<1>3. ASSUME NEW c \in Clients, Flush(c) PROVE P
  BY <1>3, FlushMoves DEF writerRest, hubVars
<1>4. ASSUME NEW c \in Clients,
             \/ PeerDial(c) \/ PeerChange(c) \/ Handshake(c)
             \/ ReaderEnd(c) \/ ReaderStop(c)
      PROVE  P
  BY <1>4 DEF PeerDial, PeerChange, peerRest, Handshake, HelloWrite, HelloRead,
              handshakeRest, ReaderEnd, ReaderStop, ReaderReturns, hubVars
<1>5. CASE \/ AcceptError \/ AcceptRetry \/ Cancel \/ CloseListener \/ Broadcast
           \/ ShutdownBegin \/ ShutdownSwept \/ ShutdownReturns
           \/ UNCHANGED vars
  <2>1. P
    BY <1>5 DEF AcceptError, AcceptRetry, Goto, Cancel, CloseListener, Broadcast,
                BroadcastStart, BroadcastTo, ShutdownBegin, ShutdownSwept,
                ShutdownReturns, shutdownRest, vars, srvVars, hubVars
  <2> QED
    BY <2>1
<1> QED
  BY <1>1, <1>2, <1>3, <1>4, <1>5 DEF Next, AcceptStep

\* No step takes the hub past the limit.
LEMMA CapacityStep == Types /\ CapacityInv /\ [Next]_vars => CapacityInv'
<1> SUFFICES ASSUME Types, CapacityInv, [Next]_vars, MaxClients > 0
             PROVE  CapacityInv'
  BY DEF CapacityInv
<1>1. Count \in Nat
  BY SubsetCounts DEF Types, Count
<1>2. ASSUME NEW c \in Clients, NewClient(c) PROVE CapacityInv'
  <2>1. accept = "add" /\ accept' = "register" /\ clients' = clients \cup {c}
    BY <1>2 DEF NewClient, Goto, Add
  <2>2. Count' <= Count + 1
    <3>1. CASE c \in clients
      <4>1. clients' = clients
        BY <2>1, <3>1
      <4> QED
        BY <1>1, <4>1 DEF Count
    <3>2. CASE c \notin clients
      BY <1>1, <2>1, <3>2, SubsetCounts DEF Count, Types
    <3> QED
      BY <3>1, <3>2
  <2>3. Count' \in Nat
    BY <2>1, SubsetCounts DEF Types, Count
  <2> QED
    BY <1>1, <2>1, <2>2, <2>3, MaxClientsAssumption DEF CapacityInv
<1>3. CASE /\ clients' \subseteq clients
           /\ accept' = "add" => accept = "add" \/ ~Full
  <2>1. Count' \in Nat /\ Count' <= Count
    <3>1. clients \in SUBSET Clients /\ clients' \in SUBSET clients
      BY <1>3 DEF Types
    <3>2. IsFiniteSet(clients)
      BY <3>1, SubsetCounts
    <3> QED
      BY <3>1, <3>2, FS_Subset, SubsetCounts DEF Count
  <2> QED
    BY <1>1, <1>3, <2>1, MaxClientsAssumption DEF CapacityInv, Full
<1> QED
  BY <1>2, <1>3, OnlyAcceptAdds

-----------------------------------------------------------------------------
Writers == {c \in Clients : WriterAlive(c)}
Readers == {c \in Clients : ReaderAlive(c)}

\* The wait group counts the goroutines that are alive.
WgInv == wg = Cardinality(Writers) + Cardinality(Readers)

Same == UNCHANGED wg /\ Writers' = Writers /\ Readers' = Readers

\* A goroutine is started by acceptOnce, once, and ends once.
LEMMA GoroutinesStep ==
    ASSUME Types, LifeInv, [Next]_vars
    PROVE  \/ Same
           \/ \E c \in Clients \ Writers :
                 /\ StartWriter(c) /\ wg' = wg + 1
                 /\ Writers' = Writers \cup {c} /\ Readers' = Readers
           \/ \E c \in Writers :
                 /\ WriterExit(c) /\ wg' = wg - 1
                 /\ Writers' = Writers \ {c} /\ Readers' = Readers
           \/ \E c \in Clients \ Readers :
                 /\ StartReader(c) /\ wg' = wg + 1
                 /\ Writers' = Writers /\ Readers' = Readers \cup {c}
           \/ \E c \in Readers :
                 /\ ReaderReturns(c) /\ wg' = wg - 1
                 /\ Writers' = Writers /\ Readers' = Readers \ {c}
<1> USE DEF Writers, Readers, WriterAlive, ReaderAlive, Types
<1>1. ASSUME NEW c \in Clients, StartWriter(c)
      PROVE  /\ c \notin Writers /\ wg' = wg + 1
             /\ Writers' = Writers \cup {c} /\ Readers' = Readers
  BY <1>1 DEF StartWriter, WgAdd, Goto, LifeInv
<1>2. ASSUME NEW c \in Clients, WriterExit(c)
      PROVE  /\ c \in Writers /\ wg' = wg - 1
             /\ Writers' = Writers \ {c} /\ Readers' = Readers
  BY <1>2 DEF WriterExit, WGoto, writerRest
<1>3. ASSUME NEW c \in Clients, StartReader(c)
      PROVE  /\ c \notin Readers /\ wg' = wg + 1
             /\ Writers' = Writers /\ Readers' = Readers \cup {c}
  BY <1>3 DEF StartReader, WgAdd, Goto, LifeInv
<1>4. ASSUME NEW c \in Clients, ReaderEnd(c) \/ ReaderStop(c)
      PROVE  /\ c \in Readers /\ ReaderReturns(c) /\ wg' = wg - 1
             /\ Writers' = Writers /\ Readers' = Readers \ {c}
  <2>1. reader[c] = "read" /\ ReaderReturns(c)
    BY <1>4 DEF ReaderEnd, ReaderStop
  <2>2. reader' = [reader EXCEPT ![c] = "done"] /\ wg' = wg - 1 /\ UNCHANGED writer
    BY <2>1 DEF ReaderReturns
  <2> QED
    BY <2>1, <2>2
<1>5. ASSUME NEW c \in Clients,
             \/ WriterRecv(c) \/ WriterTick(c) \/ WriterStop(c) \/ WriterClose(c)
      PROVE  Same
  <2>1. CASE WriterClose(c)
    BY <2>1 DEF WriterClose, WGoto, writerRest, Same
  <2>2. CASE WriterRecv(c) \/ WriterTick(c) \/ WriterStop(c)
    BY <2>2, WriterMoves DEF writerRest, Same
  <2> QED
    BY <1>5, <2>1, <2>2
<1>6. ASSUME NEW c \in Clients, Flush(c) PROVE Same
  BY <1>6, FlushMoves DEF writerRest, Same
<1>7. ASSUME UNCHANGED <<wg, writer, reader>> PROVE Same
  BY <1>7 DEF Same
<1>8. ASSUME NEW c \in Clients,
             \/ PeerDial(c) \/ PeerChange(c) \/ Handshake(c) \/ ShutdownClient(c)
      PROVE  UNCHANGED <<wg, writer, reader>>
  BY <1>8 DEF PeerDial, PeerChange, peerRest, Handshake, HelloWrite, HelloRead,
              handshakeRest, ShutdownClient, shutdownRest
<1>9. ASSUME NEW c \in Clients,
             \/ Accept(c) \/ HandshakeOk(c) \/ HandshakeFail(c) \/ Reject(c)
             \/ Admit(c) \/ NewClient(c) \/ Register(c)
      PROVE  UNCHANGED <<wg, writer, reader>>
  BY <1>9 DEF Accept, HandshakeOk, HandshakeFail, Reject, Admit, NewClient, Register
<1>10. ASSUME \/ AcceptError \/ AcceptRetry \/ Cancel \/ CloseListener \/ Broadcast
              \/ ShutdownBegin \/ ShutdownSwept \/ ShutdownReturns
              \/ UNCHANGED vars
       PROVE  UNCHANGED <<wg, writer, reader>>
  BY <1>10 DEF AcceptError, AcceptRetry, Cancel, CloseListener, Broadcast,
               ShutdownBegin, ShutdownSwept, ShutdownReturns, shutdownRest, vars,
               srvVars
<1> HIDE DEF Writers, Readers, WriterAlive, ReaderAlive, Types
<1>11. Writers \subseteq Clients /\ Readers \subseteq Clients
  BY DEF Writers, Readers
<1> QED
  BY <1>1, <1>2, <1>3, <1>4, <1>5, <1>6, <1>7, <1>8, <1>9, <1>10, <1>11
  DEF Next, AcceptStep, WriterDefers

\* The goroutines can be counted.
LEMMA GoroutinesCount ==
    /\ Writers \in SUBSET Clients /\ Readers \in SUBSET Clients
    /\ Cardinality(Writers) \in Nat /\ Cardinality(Readers) \in Nat
  BY SubsetCounts DEF Writers, Readers

\* Every step keeps the wait group at the number of goroutines.
LEMMA WgStep == Types /\ LifeInv /\ WgInv /\ [Next]_vars => WgInv'
<1> SUFFICES ASSUME Types, LifeInv, WgInv, [Next]_vars PROVE WgInv'
  OBVIOUS
<1>1. CASE Same
  BY <1>1 DEF Same, WgInv
<1>2. ASSUME NEW c \in Clients \ Writers, wg' = wg + 1,
             Writers' = Writers \cup {c}, Readers' = Readers
      PROVE  WgInv'
  BY <1>2, GoroutinesCount, SubsetCounts DEF WgInv
<1>3. ASSUME NEW c \in Writers, wg' = wg - 1,
             Writers' = Writers \ {c}, Readers' = Readers
      PROVE  WgInv'
  BY <1>3, GoroutinesCount, SubsetCounts DEF WgInv
<1>4. ASSUME NEW c \in Clients \ Readers, wg' = wg + 1,
             Writers' = Writers, Readers' = Readers \cup {c}
      PROVE  WgInv'
  BY <1>4, GoroutinesCount, SubsetCounts DEF WgInv
<1>5. ASSUME NEW c \in Readers, wg' = wg - 1,
             Writers' = Writers, Readers' = Readers \ {c}
      PROVE  WgInv'
  BY <1>5, GoroutinesCount, SubsetCounts DEF WgInv
<1> QED
  BY <1>1, <1>2, <1>3, <1>4, <1>5, GoroutinesStep

-----------------------------------------------------------------------------
(***************************************************************************)
(* The counters of the shutdown summary and the metric of rejections.       *)
(***************************************************************************)
Pending == IF accept \in {"handshake", "admit", "add", "register"} THEN 1 ELSE 0
Starting == IF accept = "startWriter" THEN 1 ELSE 0

Balance ==
    /\ total["accepted"] = total["handshakeFail"] + total["rejected"]
                             + total["connected"] + Pending
    /\ total["connected"] = total["disconnected"] + Cardinality(Writers) + Starting

\* One counter is one higher.
Plus(k) ==
    /\ total'[k] = total[k] + 1
    /\ \A j \in Counters \ {k} : total'[j] = total[j]

\* An increment changes one counter.
LEMMA CountOnce ==
    ASSUME Types, NEW k \in Counters, Count1(k) PROVE Plus(k)
  BY DEF Types, Count1, Plus

\* Every step keeps the counters balanced.
LEMMA BalanceStep == Types /\ LifeInv /\ Balance /\ [Next]_vars => Balance'
<1> SUFFICES ASSUME Types, LifeInv, Balance, [Next]_vars PROVE Balance'
  OBVIOUS
<1>0. /\ \A k \in Counters : total[k] \in Nat
      /\ {"accepted", "handshakeFail", "rejected", "connected", "disconnected"}
            = Counters
      /\ Cardinality(Writers) \in Nat
  BY GoroutinesCount DEF Types, Counters, Summary
<1>1. ASSUME UNCHANGED total, Pending' = Pending, Starting' = Starting,
             Writers' = Writers
      PROVE  Balance'
  BY <1>1 DEF Balance
<1>2. ASSUME UNCHANGED writer PROVE Writers' = Writers
  BY <1>2 DEF Writers, WriterAlive
<1>3. ASSUME NEW c \in Clients, Accept(c) PROVE Balance'
  <2>1. Plus("accepted") /\ Pending = 0 /\ Pending' = 1 /\ Starting = 0 /\ Starting' = 0
    BY <1>0, <1>3, CountOnce DEF Accept, Goto, Pending, Starting
  <2>2. Writers' = Writers
    BY <1>2, <1>3 DEF Accept
  <2> QED
    BY <1>0, <2>1, <2>2 DEF Balance, Plus
<1>4. ASSUME NEW c \in Clients, NEW k \in {"handshakeFail", "rejected"}, Count1(k),
             UNCHANGED writer, accept \in {"handshake", "admit"}, accept' = "accept"
      PROVE  Balance'
  <2>1. Plus(k) /\ Pending = 1 /\ Pending' = 0 /\ Starting = 0 /\ Starting' = 0
    BY <1>0, <1>4, CountOnce DEF Pending, Starting
  <2> QED
    BY <1>0, <1>2, <1>4, <2>1 DEF Balance, Plus
<1>5. ASSUME NEW c \in Clients, HandshakeFail(c) \/ Reject(c) PROVE Balance'
  BY <1>4, <1>5 DEF HandshakeFail, HandshakeReturns, Reject, IncHubReject, Goto
<1>6. ASSUME NEW c \in Clients, Register(c) PROVE Balance'
  <2>1. Plus("connected") /\ Pending = 1 /\ Pending' = 0 /\ Starting = 0 /\ Starting' = 1
    BY <1>0, <1>6, CountOnce DEF Register, Goto, Pending, Starting
  <2>2. Writers' = Writers
    BY <1>2, <1>6 DEF Register
  <2> QED
    BY <1>0, <2>1, <2>2 DEF Balance, Plus
<1>7. ASSUME NEW c \in Clients \ Writers, StartWriter(c), Writers' = Writers \cup {c}
      PROVE  Balance'
  <2>1. UNCHANGED total /\ Pending = 0 /\ Pending' = 0 /\ Starting = 1 /\ Starting' = 0
    BY <1>7 DEF StartWriter, Goto, Pending, Starting
  <2>2. Cardinality(Writers') = Cardinality(Writers) + 1
    BY <1>7, GoroutinesCount, SubsetCounts
  <2> QED
    BY <1>0, <2>1, <2>2 DEF Balance
<1>8. ASSUME NEW c \in Writers, WriterExit(c), Writers' = Writers \ {c}
      PROVE  Balance'
  <2>1. Plus("disconnected") /\ Pending' = Pending /\ Starting' = Starting
    BY <1>0, <1>8, CountOnce
    DEF WriterExit, CountDisconnected, writerRest, Pending, Starting
  <2>2. Cardinality(Writers') = Cardinality(Writers) - 1
    BY <1>8, GoroutinesCount, SubsetCounts
  <2>3. Starting \in Nat /\ Pending \in Nat
    BY DEF Starting, Pending
  <2> QED
    BY <1>0, <2>1, <2>2, <2>3 DEF Balance, Plus
<1>9. ASSUME NEW c \in Clients,
             HandshakeOk(c) \/ Admit(c) \/ NewClient(c) \/ StartReader(c)
      PROVE  Balance'
  BY <1>1, <1>2, <1>9 DEF HandshakeOk, HandshakeReturns, Admit, NewClient,
                          StartReader, Goto, Pending, Starting
<1>10. CASE AcceptError \/ AcceptRetry
  BY <1>1, <1>2, <1>10 DEF AcceptError, AcceptRetry, Goto, Pending, Starting
<1>11. ASSUME UNCHANGED <<total, accept>>, Writers' = Writers PROVE Balance'
  BY <1>1, <1>11 DEF Pending, Starting
<1>12. ASSUME NEW c \in Clients,
              \/ WriterRecv(c) \/ WriterTick(c) \/ WriterStop(c) \/ WriterClose(c)
       PROVE  UNCHANGED <<total, accept>> /\ Writers' = Writers
  <2>1. CASE WriterClose(c)
    BY <2>1 DEF WriterClose, WGoto, writerRest, Writers, WriterAlive, Types
  <2>2. CASE WriterRecv(c) \/ WriterTick(c) \/ WriterStop(c)
    <3>1. /\ writer[c] = "select" /\ UNCHANGED <<writerRest, total>>
          /\ \E to \in {"select", "flush", "last", "close"} :
                writer' = [writer EXCEPT ![c] = to]
      BY <2>2, WriterMoves
    <3>2. Writers' = Writers
      BY <3>1 DEF Writers, WriterAlive, Types
    <3> QED
      BY <3>1, <3>2 DEF writerRest
  <2> QED
    BY <1>12, <2>1, <2>2
<1>13. ASSUME NEW c \in Clients, Flush(c)
       PROVE  UNCHANGED <<total, accept>> /\ Writers' = Writers
  <2>1. /\ writer[c] \in {"flush", "last"} /\ UNCHANGED <<writerRest, total>>
        /\ \E to \in {"select", "close"} : writer' = [writer EXCEPT ![c] = to]
    BY <1>13, FlushMoves
  <2>2. PICK to \in {"select", "close"} : writer' = [writer EXCEPT ![c] = to]
    BY <2>1
  <2>3. Writers' = Writers
    BY <2>1, <2>2 DEF Writers, WriterAlive, Types
  <2> QED
    BY <2>1, <2>3 DEF writerRest
<1>14. ASSUME NEW c \in Clients,
              \/ PeerDial(c) \/ PeerChange(c) \/ Handshake(c)
              \/ ReaderEnd(c) \/ ReaderStop(c) \/ ShutdownClient(c)
       PROVE  UNCHANGED <<total, accept, writer>>
  BY <1>14 DEF PeerDial, PeerChange, peerRest, Handshake, HelloWrite, HelloRead,
               handshakeRest, ReaderEnd, ReaderStop, ReaderReturns, ShutdownClient,
               shutdownRest
<1>15. ASSUME \/ Cancel \/ CloseListener \/ Broadcast
              \/ ShutdownBegin \/ ShutdownSwept \/ ShutdownReturns
              \/ UNCHANGED vars
       PROVE  UNCHANGED <<total, accept, writer>>
  BY <1>15 DEF Cancel, CloseListener, Broadcast, ShutdownBegin, ShutdownSwept,
               ShutdownReturns, shutdownRest, vars, srvVars
<1>16. ASSUME NEW c \in Clients, StartWriter(c)
       PROVE  c \notin Writers /\ Writers' = Writers \cup {c}
  <2>1. writer[c] = "off" /\ writer' = [writer EXCEPT ![c] = "select"]
    BY <1>16 DEF StartWriter, Goto, LifeInv
  <2> QED
    BY <2>1 DEF Writers, WriterAlive, Types
<1>17. ASSUME NEW c \in Clients, WriterExit(c)
       PROVE  c \in Writers /\ Writers' = Writers \ {c}
  BY <1>17 DEF WriterExit, WGoto, Writers, WriterAlive, Types
<1> QED
  BY <1>2, <1>3, <1>5, <1>6, <1>7, <1>8, <1>9, <1>10, <1>11, <1>12, <1>13, <1>14,
     <1>15, <1>16, <1>17
  DEF Next, AcceptStep, WriterDefers

-----------------------------------------------------------------------------
(***************************************************************************)
(* Shutdown: nothing is accepted after it has closed the listener, so       *)
(* acceptOnce can only finish the connection it had in hand then, and the   *)
(* goroutines of no other connection are started.                           *)
(***************************************************************************)
ShutdownInv ==
    /\ shutdown # "idle" => ~lnOpen
    /\ shutdown # "idle" => cur \in {late, NoConn}
    /\ shutdown = "nil" => Writers \subseteq {late} /\ Readers \subseteq {late}

\* Every step keeps what Shutdown relies on.
LEMMA ShutdownStep ==
    Types /\ LifeInv /\ WgInv /\ ShutdownInv /\ [Next]_vars => ShutdownInv'
<1> SUFFICES ASSUME Types, LifeInv, WgInv, ShutdownInv, [Next]_vars
             PROVE  ShutdownInv'
  OBVIOUS
<1>1. CASE UNCHANGED <<shutdown, late>>
  <2>1. lnOpen' => lnOpen
    <3>1. ASSUME NEW c \in Clients,
                 \/ PeerDial(c) \/ PeerChange(c) \/ Accept(c) \/ Handshake(c)
                 \/ AcceptStep(c)
          PROVE  UNCHANGED lnOpen
      BY <3>1 DEF PeerDial, PeerChange, peerRest, Accept, Handshake, HelloWrite,
                  HelloRead, handshakeRest, AcceptStep, HandshakeOk, HandshakeFail,
                  Reject, Admit, NewClient, Register, StartWriter, StartReader,
                  acceptRest
    <3>2. ASSUME NEW c \in Clients,
                 \/ WriterRecv(c) \/ WriterTick(c) \/ WriterStop(c)
                 \/ WriterDefers(c) \/ ReaderEnd(c) \/ ReaderStop(c)
                 \/ ShutdownClient(c)
          PROVE  UNCHANGED lnOpen
      BY <3>2 DEF WriterRecv, WriterTick, WriterStop, WriterDefers, WriterClose,
                  WriterExit, writerRest, ReaderEnd, ReaderStop, ReaderReturns,
                  ShutdownClient
    <3>3. ASSUME NEW c \in Clients, Flush(c) PROVE UNCHANGED lnOpen
      BY <3>3, FlushMoves DEF writerRest
    <3>4. ASSUME \/ Cancel \/ AcceptError \/ AcceptRetry \/ Broadcast
                 \/ ShutdownSwept \/ ShutdownReturns \/ UNCHANGED vars
          PROVE  UNCHANGED lnOpen
      BY <3>4 DEF Cancel, AcceptError, AcceptRetry, acceptRest, Broadcast,
                  ShutdownSwept, ShutdownReturns, vars, srvVars
    <3>5. CloseListener \/ ShutdownBegin => ~lnOpen'
      BY DEF CloseListener, ShutdownBegin
    <3> QED
      BY <3>1, <3>2, <3>3, <3>4, <3>5 DEF Next
  <2>2. ASSUME ~lnOpen, cur \in {late, NoConn} PROVE cur' \in {late, NoConn}
    <3>1. ASSUME NEW c \in Clients, Accept(c) PROVE FALSE
      BY <2>2, <3>1 DEF Accept
    <3>2. ASSUME NEW c \in Clients, AcceptStep(c) PROVE cur' \in {cur, NoConn}
      BY <3>2 DEF AcceptStep, HandshakeOk, HandshakeFail, Refuse, Reject, Admit,
                  NewClient, Register, StartWriter, StartReader
    <3>3. ASSUME NEW c \in Clients,
                 \/ PeerDial(c) \/ PeerChange(c) \/ Handshake(c)
                 \/ WriterRecv(c) \/ WriterTick(c) \/ WriterStop(c)
                 \/ WriterDefers(c) \/ ReaderEnd(c) \/ ReaderStop(c)
                 \/ ShutdownClient(c)
          PROVE  UNCHANGED cur
      BY <3>3 DEF PeerDial, PeerChange, peerRest, Handshake, HelloWrite, HelloRead,
                  handshakeRest, WriterRecv, WriterTick, WriterStop, WriterDefers,
                  WriterClose, WriterExit, writerRest, ReaderEnd, ReaderStop,
                  ReaderReturns, ShutdownClient, shutdownRest
    <3>4. ASSUME NEW c \in Clients, Flush(c) PROVE UNCHANGED cur
      BY <3>4, FlushMoves DEF writerRest
    <3>5. ASSUME \/ Cancel \/ CloseListener \/ AcceptError \/ AcceptRetry \/ Broadcast
                 \/ ShutdownBegin \/ ShutdownSwept \/ ShutdownReturns
                 \/ UNCHANGED vars
          PROVE  UNCHANGED cur
      BY <3>5 DEF Cancel, CloseListener, AcceptError, AcceptRetry, Broadcast,
                  ShutdownBegin, ShutdownSwept, ShutdownReturns, shutdownRest, vars,
                  srvVars
    <3> QED
      BY <2>2, <3>1, <3>2, <3>3, <3>4, <3>5 DEF Next
  <2>3. ASSUME cur \in {late, NoConn}, Writers \subseteq {late}, Readers \subseteq {late}
        PROVE  Writers' \subseteq {late} /\ Readers' \subseteq {late}
    <3>1. ASSUME NEW c \in Clients, StartWriter(c) \/ StartReader(c) PROVE c = late
      BY <2>3, <3>1, NoConnAssumption DEF StartWriter, StartReader
    <3> QED
      BY <2>3, <3>1, GoroutinesStep DEF Same
  <2> QED
    BY <1>1, <2>1, <2>2, <2>3 DEF ShutdownInv
<1>2. CASE ShutdownBegin
  BY <1>2 DEF ShutdownBegin, shutdownRest, ShutdownInv
<1>3. CASE ShutdownSwept
  BY <1>3 DEF ShutdownSwept, shutdownRest, ShutdownInv
<1>4. CASE ShutdownReturns
  <2>1. UNCHANGED <<lnOpen, late, cur, writer, reader>>
        /\ shutdown = "wait" /\ (wg = 0 \/ shutdown' = "timeout")
    BY <1>4 DEF ShutdownReturns, shutdownRest, WgWait
  <2>2. wg = 0 => Writers = {} /\ Readers = {}
    BY GoroutinesCount, SubsetCounts DEF WgInv
  <2>3. Writers' = Writers /\ Readers' = Readers
    BY <2>1 DEF Writers, Readers, WriterAlive, ReaderAlive
  <2> QED
    BY <2>1, <2>2, <2>3 DEF ShutdownInv
<1>5. ASSUME NEW c \in Clients,
             \/ PeerDial(c) \/ PeerChange(c) \/ Accept(c) \/ Handshake(c)
             \/ AcceptStep(c)
      PROVE  UNCHANGED <<shutdown, late>>
  BY <1>5 DEF PeerDial, PeerChange, peerRest, Accept, Handshake, HelloWrite,
              HelloRead, handshakeRest, AcceptStep, HandshakeOk, HandshakeFail,
              Reject, Admit, NewClient, Register, StartWriter, StartReader,
              acceptRest
<1>6. ASSUME NEW c \in Clients,
             \/ WriterRecv(c) \/ WriterTick(c) \/ WriterStop(c)
             \/ WriterDefers(c) \/ ReaderEnd(c) \/ ReaderStop(c)
             \/ ShutdownClient(c)
      PROVE  UNCHANGED <<shutdown, late>>
  BY <1>6 DEF WriterRecv, WriterTick, WriterStop, WriterDefers, WriterClose,
              WriterExit, writerRest, ReaderEnd, ReaderStop, ReaderReturns,
              ShutdownClient
<1>7. ASSUME NEW c \in Clients, Flush(c) PROVE UNCHANGED <<shutdown, late>>
  BY <1>7, FlushMoves DEF writerRest
<1>8. ASSUME \/ Cancel \/ CloseListener \/ AcceptError \/ AcceptRetry \/ Broadcast
             \/ UNCHANGED vars
      PROVE  UNCHANGED <<shutdown, late>>
  BY <1>8 DEF Cancel, CloseListener, AcceptError, AcceptRetry, acceptRest, Broadcast,
              vars, srvVars
<1> QED
  BY <1>1, <1>2, <1>3, <1>4, <1>5, <1>6, <1>7, <1>8 DEF Next

-----------------------------------------------------------------------------
(***************************************************************************)
(* The inductive invariant and what follows from it.                        *)
(***************************************************************************)
ServerInv ==
    /\ Types /\ LifeInv /\ NoOrphanInHub /\ NoLeakedConnection
    /\ CapacityInv /\ WgInv /\ Balance /\ ShutdownInv

\* The invariant holds at first.
LEMMA ServerInit == Init => ServerInv
<1> SUFFICES ASSUME Init PROVE ServerInv
  OBVIOUS
<1>1. Writers = {} /\ Readers = {} /\ clients = {}
  BY DEF Init, HubInit, Writers, Readers, WriterAlive, ReaderAlive
<1>2. WgInv
  BY <1>1, FS_EmptySet DEF Init, WgInv
<1>3. Balance
  <2>1. \A k \in Counters : total[k] = 0
    BY DEF Init
  <2>2. Pending = 0 /\ Starting = 0
    BY DEF Init, Pending, Starting
  <2> QED
    BY <1>1, <2>1, <2>2, FS_EmptySet DEF Balance, Counters, Summary
<1>4. CapacityInv
  BY <1>1, FS_EmptySet, MaxClientsAssumption DEF Init, CapacityInv, Count
<1>5. NoOrphanInHub /\ NoLeakedConnection /\ ShutdownInv
  BY <1>1 DEF Init, NoOrphanInHub, NoLeakedConnection, ShutdownInv
<1> QED
  BY <1>2, <1>3, <1>4, <1>5, TypesInit, LifeInit DEF ServerInv

\* Every step keeps the invariant.
LEMMA ServerStep == ServerInv /\ [Next]_vars => ServerInv'
  BY TypesStep, LifeStep, OrphanStep, LeakStep, CapacityStep, WgStep, BalanceStep,
     ShutdownStep
  DEF ServerInv

\* For any number of clients and any limit, the hub never holds more than
\* -max-clients of them.
THEOREM LimitHolds == Spec => []MaxClientsRespected
<1>1. ServerInv => MaxClientsRespected
  BY DEF ServerInv, CapacityInv, MaxClientsRespected
<1> QED
  BY <1>1, ServerInit, ServerStep, PTL DEF Spec

\* No path of startWriter, startReader, acceptOnce or Shutdown leaves a client
\* in the hub that nobody will remove.
THEOREM NoOrphans == Spec => []NoOrphanInHub
<1>1. ServerInv => NoOrphanInHub
  BY DEF ServerInv
<1> QED
  BY <1>1, ServerInit, ServerStep, PTL DEF Spec

\* No socket is left open by a failed handshake, a rejection or the end of a
\* client's goroutines.
THEOREM NoLeaks == Spec => []NoLeakedConnection
<1>1. ServerInv => NoLeakedConnection
  BY DEF ServerInv
<1> QED
  BY <1>1, ServerInit, ServerStep, PTL DEF Spec

\* The counters that Shutdown logs and the metric of rejected clients account
\* for every connection that was accepted, at every moment.
THEOREM ConnectionsAccounted == Spec => []CountersBalance
<1>1. ServerInv => CountersBalance
  BY DEF ServerInv, Balance, CountersBalance, Pending, Starting, Writers
<1> QED
  BY <1>1, ServerInit, ServerStep, PTL DEF Spec

\* A Shutdown that returns nil has closed and ended everything but, at most,
\* the one connection that acceptOnce had in hand when it began.
THEOREM ShutdownIsComplete == Spec => []ShutdownComplete
<1>1. ServerInv => ShutdownComplete
  <2> SUFFICES ASSUME ServerInv, shutdown = "nil", NEW c \in Clients \ {late}
               PROVE  Ended(c)
    BY DEF ShutdownComplete
  <2>1. c \notin Writers /\ c \notin Readers /\ cur # c
    BY NoConnAssumption DEF ServerInv, ShutdownInv
  <2>2. ~WriterAlive(c) /\ ~ReaderAlive(c)
    BY <2>1 DEF Writers, Readers
  <2> QED
    BY <2>1, <2>2 DEF ServerInv, NoOrphanInHub, NoLeakedConnection, Ended
<1> QED
  BY <1>1, ServerInit, ServerStep, PTL DEF Spec

-----------------------------------------------------------------------------
\* What is queued for a client, what its writer holds and what it has been
\* sent: three sequences, each increasing and each before the next.
Before(s, t) == \A i \in DOMAIN s, j \in DOMAIN t : s[i] < t[j]
UpTo(s, n) == \A i \in DOMAIN s : s[i] <= n

\* Nothing but elements of s, in the order of s.
Part(p, s) == /\ p \in Seq(Nat)
              /\ StrictlyIncreasing(s) => StrictlyIncreasing(p)
              /\ \A i \in DOMAIN p : \E j \in DOMAIN s : p[i] = s[j]

\* A sequence of numbers has its length, its indices and its elements.
LEMMA Indices ==
    ASSUME NEW s \in Seq(Nat)
    PROVE  Len(s) \in Nat /\ DOMAIN s = 1..Len(s) /\ \A i \in DOMAIN s : s[i] \in Nat
  OBVIOUS

\* A joined sequence has the elements of its two parts, in their places.
LEMMA Concat ==
    ASSUME NEW s \in Seq(Nat), NEW t \in Seq(Nat)
    PROVE  /\ s \o t \in Seq(Nat)
           /\ DOMAIN (s \o t) = 1..(Len(s) + Len(t))
           /\ \A i \in 1..(Len(s) + Len(t)) :
                 \/ i \in DOMAIN s /\ (s \o t)[i] = s[i]
                 \/ /\ i > Len(s) /\ i - Len(s) \in DOMAIN t
                    /\ (s \o t)[i] = t[i - Len(s)]
<1>1. /\ s \o t \in Seq(Nat) /\ Len(s \o t) = Len(s) + Len(t)
      /\ \A i \in 1..(Len(s) + Len(t)) :
            (s \o t)[i] = IF i <= Len(s) THEN s[i] ELSE t[i - Len(s)]
  OBVIOUS
<1>2. DOMAIN (s \o t) = 1..(Len(s) + Len(t))
  BY <1>1
<1>3. ASSUME NEW i \in 1..(Len(s) + Len(t)), i > Len(s)
      PROVE  i - Len(s) \in DOMAIN t
  BY <1>3, Indices
<1>4. ASSUME NEW i \in 1..(Len(s) + Len(t)), ~(i > Len(s)) PROVE i \in DOMAIN s
  BY <1>4, Indices
<1>5. ASSUME NEW i \in 1..(Len(s) + Len(t)) PROVE i > Len(s) <=> ~(i <= Len(s))
  BY Indices
<1> QED
  BY <1>1, <1>2, <1>3, <1>4, <1>5

\* Two ordered sequences, one before the other, make an ordered one.
LEMMA Join ==
    ASSUME NEW s \in Seq(Nat), NEW t \in Seq(Nat),
           StrictlyIncreasing(s), StrictlyIncreasing(t), Before(s, t)
    PROVE  StrictlyIncreasing(s \o t)
<1> DEFINE u == s \o t
           l == Len(s)
<1>1. /\ u \in Seq(Nat) /\ l \in Nat /\ DOMAIN s = 1..l
      /\ \A i \in DOMAIN u : i \in Nat
  BY Concat, Indices
<1>2. ASSUME NEW i \in DOMAIN u
      PROVE  \/ i \in DOMAIN s /\ i <= l /\ u[i] = s[i]
             \/ i > l /\ i - l \in DOMAIN t /\ u[i] = t[i - l]
  <2>1. /\ i \in 1..(Len(s) + Len(t))
        /\ \/ i \in DOMAIN s /\ u[i] = s[i]
           \/ i > l /\ i - l \in DOMAIN t /\ u[i] = t[i - l]
    BY Concat
  <2> QED
    BY <1>1, <2>1
<1> HIDE DEF u, l
<1>3. ASSUME NEW i \in DOMAIN u, NEW j \in DOMAIN u, i < j PROVE u[i] < u[j]
  <2>0. l \in Nat /\ i \in Nat /\ j \in Nat
    BY <1>1
  <2>1. CASE i > l
    <3>1. j > l /\ i - l < j - l
      BY ONLY <1>3, <2>0, <2>1
    <3>2. ~(i <= l) /\ ~(j <= l)
      BY ONLY <2>0, <2>1, <3>1
    <3>3. /\ i - l \in DOMAIN t /\ u[i] = t[i - l]
          /\ j - l \in DOMAIN t /\ u[j] = t[j - l]
      BY <1>2, <3>2
    <3> QED
      BY <3>1, <3>3 DEF StrictlyIncreasing
  <2>2. CASE ~(i > l) /\ j > l
    <3>1. i \in DOMAIN s /\ u[i] = s[i]
      BY <1>2, <2>2
    <3>2. ~(j <= l)
      BY ONLY <2>0, <2>2
    <3>3. j - l \in DOMAIN t /\ u[j] = t[j - l]
      BY <1>2, <3>2
    <3> QED
      BY <3>1, <3>3 DEF Before
  <2>3. CASE ~(i > l) /\ ~(j > l)
    <3>1. i \in DOMAIN s /\ u[i] = s[i] /\ j \in DOMAIN s /\ u[j] = s[j]
      BY <1>2, <2>3
    <3> QED
      BY <1>3, <3>1 DEF StrictlyIncreasing
  <2> QED
    BY <2>1, <2>2, <2>3
<1>4. StrictlyIncreasing(u)
  BY <1>3 DEF StrictlyIncreasing
<1> QED
  BY <1>4 DEF u

\* What lies before a third sequence does so jointly.
LEMMA JoinBounds ==
    ASSUME NEW s \in Seq(Nat), NEW t \in Seq(Nat)
    PROVE  /\ \A u \in Seq(Nat) : Before(s, u) /\ Before(t, u) => Before(s \o t, u)
           /\ \A u \in Seq(Nat) : Before(u, s) /\ Before(u, t) => Before(u, s \o t)
           /\ \A n \in Nat : UpTo(s, n) /\ UpTo(t, n) => UpTo(s \o t, n)
<1>1. ASSUME NEW i \in DOMAIN (s \o t)
      PROVE  \/ \E j \in DOMAIN s : (s \o t)[i] = s[j]
             \/ \E j \in DOMAIN t : (s \o t)[i] = t[j]
  <2>1. i \in 1..(Len(s) + Len(t))
    BY Concat
  <2>2. \/ i \in DOMAIN s /\ (s \o t)[i] = s[i]
        \/ i - Len(s) \in DOMAIN t /\ (s \o t)[i] = t[i - Len(s)]
    BY <2>1, Concat
  <2> QED
    BY ONLY <2>2
<1> QED
  BY <1>1 DEF Before, UpTo

\* A part keeps the bounds of the whole.
LEMMA PartBounds ==
    ASSUME NEW s \in Seq(Nat), NEW p, Part(p, s)
    PROVE  /\ \A u \in Seq(Nat) : Before(s, u) => Before(p, u)
           /\ \A u \in Seq(Nat) : Before(u, s) => Before(u, p)
           /\ \A n \in Nat : UpTo(s, n) => UpTo(p, n)
  BY DEF Part, Before, UpTo

\* A prefix, what a failing write left on the wire, is a part.
LEMMA PrefixIsPart ==
    ASSUME NEW s \in Seq(Nat), NEW k \in 0..Len(s) PROVE Part(SubSeq(s, 1, k), s)
<1> DEFINE p == SubSeq(s, 1, k)
<1>1. /\ p \in Seq(Nat) /\ DOMAIN p = 1..k /\ k \in Nat /\ k <= Len(s)
      /\ \A i \in 1..k : p[i] = s[i]
  OBVIOUS
<1>2. \A i \in 1..k : i \in DOMAIN s
  BY <1>1, Indices
<1> HIDE DEF p
<1>3. Part(p, s)
  BY <1>1, <1>2 DEF Part, StrictlyIncreasing
<1> QED
  BY <1>3 DEF p

\* The queue after a receive is a part of the queue before.
LEMMA TailIsPart ==
    ASSUME NEW s \in Seq(Nat), s # <<>>
    PROVE  /\ Part(Tail(s), s) /\ 1 \in DOMAIN s /\ Head(s) = s[1]
           /\ StrictlyIncreasing(s) => \A i \in DOMAIN Tail(s) : Head(s) < Tail(s)[i]
<1> DEFINE p == Tail(s)
<1>1. /\ p \in Seq(Nat) /\ DOMAIN p = 1..(Len(s) - 1) /\ Len(s) \in Nat /\ Len(s) > 0
      /\ \A i \in 1..(Len(s) - 1) : p[i] = s[i + 1]
      /\ Head(s) = s[1]
  OBVIOUS
<1>2. 1 \in DOMAIN s /\ \A i \in 1..(Len(s) - 1) : i + 1 \in DOMAIN s /\ 1 < i + 1
  BY <1>1, Indices
<1>3. \A i, j \in 1..(Len(s) - 1) : i < j => i + 1 < j + 1
  BY <1>1
<1> HIDE DEF p
<1>4. Part(p, s) /\ (StrictlyIncreasing(s) => \A i \in DOMAIN p : Head(s) < p[i])
  BY <1>1, <1>2, <1>3 DEF Part, StrictlyIncreasing
<1> QED
  BY <1>1, <1>2, <1>4 DEF p

\* The head of a queue, alone, comes before the rest of it.
LEMMA Single ==
    ASSUME NEW n \in Nat
    PROVE  /\ <<n>> \in Seq(Nat) /\ DOMAIN <<n>> = {1} /\ <<n>>[1] = n
           /\ StrictlyIncreasing(<<n>>)
<1>1. <<n>> \in Seq(Nat) /\ DOMAIN <<n>> = {1} /\ <<n>>[1] = n
  OBVIOUS
<1> QED
  BY <1>1 DEF StrictlyIncreasing

-----------------------------------------------------------------------------
(***************************************************************************)
(* The line of one client: wire, batch and queue, up to frame n.            *)
(***************************************************************************)
InOrder(w, b, o, n) ==
    /\ StrictlyIncreasing(w) /\ StrictlyIncreasing(b) /\ StrictlyIncreasing(o)
    /\ Before(w, b) /\ Before(w, o) /\ Before(b, o)
    /\ UpTo(w, n) /\ UpTo(b, n) /\ UpTo(o, n)

\* A bound on the frames handed out may grow.
LEMMA LaterFrame ==
    ASSUME NEW w \in Seq(Nat), NEW b \in Seq(Nat), NEW o \in Seq(Nat),
           NEW n \in Nat, NEW m \in Nat, n <= m, InOrder(w, b, o, n)
    PROVE  InOrder(w, b, o, m)
<1>1. ASSUME NEW s \in Seq(Nat), UpTo(s, n) PROVE UpTo(s, m)
  BY <1>1, Indices DEF UpTo
<1> QED
  BY <1>1 DEF InOrder

\* The receive from Out moves the head of the queue to the end of the batch.
LEMMA RecvKeepsOrder ==
    ASSUME NEW w \in Seq(Nat), NEW b \in Seq(Nat), NEW o \in Seq(Nat), o # <<>>,
           NEW n \in Nat, InOrder(w, b, o, n)
    PROVE  InOrder(w, Append(b, Head(o)), Tail(o), n)
<1> DEFINE h == Head(o)
           p == Tail(o)
<1>1. Append(b, h) = b \o <<h>>
  OBVIOUS
<1>2. h \in Nat /\ Part(p, o) /\ 1 \in DOMAIN o /\ h = o[1]
  BY TailIsPart, Indices
<1>3. <<h>> \in Seq(Nat) /\ DOMAIN <<h>> = {1} /\ <<h>>[1] = h /\ StrictlyIncreasing(<<h>>)
  BY <1>2, Single
<1>4. Before(b, <<h>>) /\ Before(w, <<h>>) /\ UpTo(<<h>>, n)
  BY <1>2, <1>3 DEF InOrder, Before, UpTo
<1>5. Before(<<h>>, p)
  BY <1>3, TailIsPart DEF InOrder, Before
<1>6. p \in Seq(Nat) /\ StrictlyIncreasing(p)
  BY <1>2 DEF Part, InOrder
<1>7. Before(w, p) /\ Before(b, p) /\ UpTo(p, n)
  BY <1>2, PartBounds DEF InOrder
<1> HIDE DEF h, p
<1>8. StrictlyIncreasing(b \o <<h>>)
  BY <1>3, <1>4, Join DEF InOrder
<1>9. Before(w, b \o <<h>>) /\ Before(b \o <<h>>, p) /\ UpTo(b \o <<h>>, n)
  BY <1>3, <1>4, <1>5, <1>6, <1>7, JoinBounds DEF InOrder
<1>10. InOrder(w, b \o <<h>>, p, n)
  BY <1>6, <1>7, <1>8, <1>9 DEF InOrder
<1> QED
  BY <1>1, <1>10 DEF h, p

\* A flush puts the batch, or what a failing connection took of it, on the wire.
LEMMA FlushKeepsOrder ==
    ASSUME NEW w \in Seq(Nat), NEW b \in Seq(Nat), NEW o \in Seq(Nat),
           NEW k \in 0..Len(b), NEW n \in Nat, InOrder(w, b, o, n)
    PROVE  InOrder(w \o SubSeq(b, 1, k), <<>>, o, n)
<1> DEFINE p == SubSeq(b, 1, k)
<1>1. Part(p, b)
  BY PrefixIsPart
<1> HIDE DEF p
<1>2. p \in Seq(Nat) /\ StrictlyIncreasing(p)
  BY <1>1 DEF Part, InOrder
<1>3. Before(w, p) /\ Before(p, o) /\ UpTo(p, n)
  BY <1>1, PartBounds DEF InOrder
<1>4. StrictlyIncreasing(w \o p)
  BY <1>2, <1>3, Join DEF InOrder
<1>5. Before(w \o p, o) /\ UpTo(w \o p, n)
  BY <1>2, <1>3, JoinBounds DEF InOrder
<1>6. /\ StrictlyIncreasing(<<>>) /\ UpTo(<<>>, n)
      /\ Before(w \o p, <<>>) /\ Before(<<>>, o)
  <2>1. DOMAIN <<>> = {}
    OBVIOUS
  <2>2. StrictlyIncreasing(<<>>)
    BY <2>1 DEF StrictlyIncreasing
  <2>3. UpTo(<<>>, n)
    BY <2>1 DEF UpTo
  <2>4. Before(w \o p, <<>>) /\ Before(<<>>, o)
    BY <2>1 DEF Before
  <2> QED
    BY <2>2, <2>3, <2>4
<1>7. InOrder(w \o p, <<>>, o, n)
  BY <1>4, <1>5, <1>6 DEF InOrder
<1> QED
  BY <1>7 DEF p

\* A broadcast appends the next frame to the queue.
LEMMA SendKeepsOrder ==
    ASSUME NEW w \in Seq(Nat), NEW b \in Seq(Nat), NEW o \in Seq(Nat),
           NEW n \in Nat, InOrder(w, b, o, n)
    PROVE  InOrder(w, b, Append(o, n + 1), n + 1)
<1> DEFINE e == <<n + 1>>
<1>1. Append(o, n + 1) = o \o e
  OBVIOUS
<1>2. e \in Seq(Nat) /\ DOMAIN e = {1} /\ e[1] = n + 1 /\ StrictlyIncreasing(e)
  BY Single
<1> HIDE DEF e
<1>3. ASSUME NEW s \in Seq(Nat), UpTo(s, n) PROVE Before(s, e)
  BY <1>2, <1>3, Indices DEF UpTo, Before
<1>4. UpTo(e, n + 1)
  BY <1>2 DEF UpTo
<1>5. InOrder(w, b, o, n + 1)
  BY LaterFrame
<1>6. StrictlyIncreasing(o \o e)
  BY <1>2, <1>3, Join DEF InOrder
<1>7. Before(w, o \o e) /\ Before(b, o \o e) /\ UpTo(o \o e, n + 1)
  <2>1. /\ Before(w, o) /\ Before(b, o) /\ UpTo(o, n + 1)
        /\ UpTo(w, n) /\ UpTo(b, n)
    BY <1>5 DEF InOrder
  <2>2. Before(w, e) /\ Before(b, e)
    BY <1>3, <2>1
  <2>3. Before(w, o \o e)
    BY <1>2, <2>1, <2>2, JoinBounds
  <2>4. Before(b, o \o e)
    BY <1>2, <2>1, <2>2, JoinBounds
  <2>5. UpTo(o \o e, n + 1)
    BY <1>2, <1>4, <2>1, JoinBounds
  <2> QED
    BY <2>3, <2>4, <2>5
<1>8. InOrder(w, b, o \o e, n + 1)
  BY <1>5, <1>6, <1>7 DEF InOrder
<1> QED
  BY <1>1, <1>8

-----------------------------------------------------------------------------
(***************************************************************************)
(* The invariant of the queues.                                             *)
(***************************************************************************)
FrameSeq == Seq(1..MaxFrames)

QueueTypes ==
    /\ out \in [Clients -> FrameSeq] /\ batch \in [Clients -> FrameSeq]
    /\ wire \in [Clients -> FrameSeq]
    /\ \A c \in Clients : Len(out[c]) <= OutBufSize
    /\ todo # {} => frame >= 1

\* The last frame that client c can have been given.
LastGiven(c) == IF c \in todo THEN frame - 1 ELSE frame

QueueOrder == \A c \in Clients : InOrder(wire[c], batch[c], out[c], LastGiven(c))

QueueInv == QueueTypes /\ QueueOrder

queueVars == <<out, batch, wire, todo, frame>>

\* Frames are numbers.
LEMMA FramesAreNumbers == \A s \in FrameSeq : s \in Seq(Nat)
  BY MaxFramesAssumption DEF FrameSeq

\* The last frame a client was given is a number.
LEMMA LastTyped ==
    ASSUME Types, QueueTypes, NEW c \in Clients PROVE LastGiven(c) \in Nat /\ frame \in Nat
  BY DEF Types, QueueTypes, LastGiven

\* Every step that touches a queue is one of these.
LEMMA QueueSteps ==
    ASSUME Types, [Next]_vars
    PROVE  \/ UNCHANGED queueVars
           \/ BroadcastStart /\ UNCHANGED <<batch, wire>>
           \/ \E c \in Clients : BroadcastTo(c) /\ UNCHANGED <<batch, wire>>
           \/ \E c \in Clients : WriterRecv(c) \/ FlushOk(c) \/ FlushError(c)
<1>1. ASSUME NEW c \in Clients,
             \/ PeerDial(c) \/ PeerChange(c) \/ Accept(c) \/ Handshake(c)
             \/ AcceptStep(c)
      PROVE  UNCHANGED queueVars
  BY <1>1 DEF PeerDial, PeerChange, peerRest, Accept, Handshake, HelloWrite,
              HelloRead, handshakeRest, AcceptStep, HandshakeOk, HandshakeFail,
              Reject, Admit, NewClient, Add, Register, StartWriter, StartReader,
              acceptRest, hubVars, queueVars
<1>2. ASSUME NEW c \in Clients,
             \/ WriterTick(c) \/ WriterStop(c) \/ WriterDefers(c)
             \/ ReaderEnd(c) \/ ReaderStop(c) \/ ShutdownClient(c)
      PROVE  UNCHANGED queueVars
  BY <1>2 DEF WriterTick, WriterStop, WriterDefers, WriterClose, WriterExit,
              LeaveHub, Remove, writerRest, ReaderEnd, ReaderStop, ReaderReturns,
              ShutdownClient, shutdownRest, hubVars, queueVars
<1>3. ASSUME \/ AcceptError \/ AcceptRetry \/ Cancel \/ CloseListener
             \/ ShutdownBegin \/ ShutdownSwept \/ ShutdownReturns
             \/ UNCHANGED vars
      PROVE  UNCHANGED queueVars
  BY <1>3 DEF AcceptError, AcceptRetry, acceptRest, Cancel, CloseListener,
              ShutdownBegin, ShutdownSwept, ShutdownReturns, shutdownRest, vars,
              srvVars, hubVars, queueVars
<1>4. ASSUME Broadcast PROVE UNCHANGED <<batch, wire>>
  BY <1>4 DEF Broadcast, srvVars
<1> QED
  BY <1>1, <1>2, <1>3, <1>4 DEF Next, Flush, Broadcast

\* One more frame in a queue.
LEMMA AppendFrame ==
    ASSUME NEW s \in FrameSeq, NEW x \in 1..MaxFrames
    PROVE  /\ Append(s, x) \in FrameSeq
           /\ Len(Append(s, x)) = Len(s) + 1 /\ Len(s) \in Nat
  BY AppendProperties, LenProperties DEF FrameSeq

\* All frames of a batch.
LEMMA WholeBatch ==
    ASSUME NEW s \in FrameSeq
    PROVE  Len(s) \in 0..Len(s) /\ SubSeq(s, 1, Len(s)) = s
<1>1. Len(s) \in Nat
  BY LenProperties DEF FrameSeq
<1>2. SubSeq(s, 1, Len(s)) = s
  BY DEF FrameSeq
<1> QED
  BY <1>1, <1>2

\* Every step keeps the order.
LEMMA QueueStep == Types /\ QueueInv /\ [Next]_vars => QueueInv'
<1> SUFFICES ASSUME Types, QueueTypes, QueueOrder, [Next]_vars PROVE QueueInv'
  BY DEF QueueInv
<1>0. ASSUME NEW d \in Clients
      PROVE  /\ wire[d] \in FrameSeq /\ batch[d] \in FrameSeq /\ out[d] \in FrameSeq
             /\ wire[d] \in Seq(Nat) /\ batch[d] \in Seq(Nat) /\ out[d] \in Seq(Nat)
             /\ LastGiven(d) \in Nat /\ frame \in Nat
             /\ InOrder(wire[d], batch[d], out[d], LastGiven(d))
  <2>1. wire[d] \in FrameSeq /\ batch[d] \in FrameSeq /\ out[d] \in FrameSeq
    BY DEF QueueTypes
  <2> QED
    BY <2>1, FramesAreNumbers, LastTyped DEF QueueOrder
\* Only the line of client c changes.
<1>1. ASSUME NEW c \in Clients, NEW w \in FrameSeq, NEW b \in FrameSeq,
             NEW o \in FrameSeq,
             wire' = [wire EXCEPT ![c] = w], batch' = [batch EXCEPT ![c] = b],
             out' = [out EXCEPT ![c] = o], Len(o) <= OutBufSize,
             frame' = frame, todo' \in {todo, todo \ {c}},
             InOrder(w, b, o, LastGiven(c)')
      PROVE  QueueInv'
  <2>1. QueueTypes'
    BY <1>1 DEF QueueTypes
  <2>2. ASSUME NEW d \in Clients \ {c}
        PROVE  /\ wire'[d] = wire[d] /\ batch'[d] = batch[d] /\ out'[d] = out[d]
               /\ LastGiven(d)' = LastGiven(d)
    BY <1>1, <2>2 DEF QueueTypes, LastGiven
  <2>3. wire'[c] = w /\ batch'[c] = b /\ out'[c] = o
    BY <1>1 DEF QueueTypes
  <2>4. QueueOrder'
    BY <1>0, <1>1, <2>2, <2>3 DEF QueueOrder
  <2> QED
    BY <2>1, <2>4 DEF QueueInv
<1>2. CASE UNCHANGED queueVars
  BY <1>2 DEF queueVars, QueueInv, QueueTypes, QueueOrder, LastGiven
<1>3. CASE BroadcastStart /\ UNCHANGED <<batch, wire>>
  <2>1. /\ todo = {} /\ frame' = frame + 1 /\ todo' \subseteq Clients
        /\ UNCHANGED <<out, batch, wire>>
    BY <1>3 DEF BroadcastStart, Types
  <2>2. QueueTypes'
    <3>1. frame' >= 1
      BY <2>1, MaxFramesAssumption DEF Types
    <3> QED
      BY <2>1, <3>1 DEF QueueTypes
  <2>3. ASSUME NEW d \in Clients
        PROVE  LastGiven(d) <= LastGiven(d)' /\ LastGiven(d)' \in Nat
    <3>1. frame \in Nat /\ frame' = frame + 1 /\ LastGiven(d) = frame
      BY <1>0, <2>1 DEF LastGiven
    <3>2. LastGiven(d)' \in {frame' - 1, frame'}
      BY DEF LastGiven
    <3> QED
      BY <3>1, <3>2
  <2>4. QueueOrder'
    BY <1>0, <2>1, <2>3, LaterFrame DEF QueueOrder
  <2> QED
    BY <2>2, <2>4 DEF QueueInv
<1>4. ASSUME NEW c \in Clients, BroadcastTo(c), UNCHANGED <<batch, wire>>
      PROVE  QueueInv'
  <2>1. /\ c \in todo /\ todo' = todo \ {c} /\ frame' = frame
        /\ frame \in Nat /\ frame >= 1 /\ frame \in 1..MaxFrames
        /\ LastGiven(c) + 1 = frame /\ LastGiven(c)' = frame
    <3>1. c \in todo /\ todo' = todo \ {c} /\ frame' = frame
      BY <1>4 DEF BroadcastTo
    <3>2. frame \in 0..MaxFrames /\ frame >= 1
      BY <3>1 DEF QueueTypes, Types, QueueInv
    <3>3. frame \in Nat /\ frame \in 1..MaxFrames
      BY ONLY <3>2, MaxFramesAssumption
    <3>4. LastGiven(c) = frame - 1 /\ LastGiven(c)' = frame
      BY ONLY <3>1 DEF LastGiven
    <3>5. (frame - 1) + 1 = frame
      BY ONLY <3>3
    <3> QED
      BY <3>1, <3>2, <3>3, <3>4, <3>5
  <2>2. CASE Len(out[c]) < OutBufSize /\ out' = [out EXCEPT ![c] = Append(@, frame)]
    <3> DEFINE o == Append(out[c], frame)
    <3>1. o \in FrameSeq /\ Len(o) <= OutBufSize
      <4>1. out[c] \in FrameSeq /\ frame \in 1..MaxFrames
        BY <1>0, <2>1
      <4>2. o \in FrameSeq /\ Len(o) = Len(out[c]) + 1 /\ Len(out[c]) \in Nat
        BY ONLY <4>1, AppendFrame
      <4>3. Len(out[c]) < OutBufSize /\ OutBufSize \in Nat
        BY <2>2, OutBufAssumption
      <4> HIDE DEF o
      <4> QED
        BY ONLY <4>2, <4>3
    <3>2. InOrder(wire[c], batch[c], o, frame)
      BY <1>0, <2>1, SendKeepsOrder
    <3>3. out' = [out EXCEPT ![c] = o]
      BY <2>2
    <3>4. wire' = [wire EXCEPT ![c] = wire[c]] /\ batch' = [batch EXCEPT ![c] = batch[c]]
      BY <1>4 DEF QueueTypes
    <3> HIDE DEF o
    <3> QED
      BY <1>0, <1>1, <2>1, <3>1, <3>2, <3>3, <3>4
  <2>3. CASE UNCHANGED out
    <3>1. InOrder(wire[c], batch[c], out[c], frame)
      <4>1. /\ wire[c] \in Seq(Nat) /\ batch[c] \in Seq(Nat) /\ out[c] \in Seq(Nat)
            /\ LastGiven(c) \in Nat /\ frame \in Nat
            /\ InOrder(wire[c], batch[c], out[c], LastGiven(c))
        BY <1>0
      <4>2. LastGiven(c) + 1 = frame
        BY <2>1
      <4>3. LastGiven(c) <= frame
        BY ONLY <4>1, <4>2
      <4> QED
        BY <4>1, <4>3, LaterFrame
    <3>2. /\ wire' = [wire EXCEPT ![c] = wire[c]]
          /\ batch' = [batch EXCEPT ![c] = batch[c]]
          /\ out' = [out EXCEPT ![c] = out[c]]
      BY <1>4, <2>3 DEF QueueTypes
    <3>3. Len(out[c]) <= OutBufSize
      BY DEF QueueTypes
    <3> QED
      BY <1>0, <1>1, <2>1, <3>1, <3>2, <3>3
  <2> QED
    BY <1>4, <2>2, <2>3 DEF BroadcastTo, Refused
<1>5. ASSUME NEW c \in Clients, WriterRecv(c) PROVE QueueInv'
  <2> DEFINE b == Append(batch[c], Head(out[c]))
             o == Tail(out[c])
  <2>1. /\ out[c] # <<>> /\ UNCHANGED <<wire, todo, frame>>
        /\ out' = [out EXCEPT ![c] = o] /\ batch' = [batch EXCEPT ![c] = b]
    BY <1>5 DEF WriterRecv, Recv
  <2>2. b \in FrameSeq /\ o \in FrameSeq
    <3>1. out[c] \in FrameSeq /\ batch[c] \in FrameSeq
      BY <1>0
    <3>2. Head(out[c]) \in 1..MaxFrames /\ o \in FrameSeq
      BY <2>1, <3>1, HeadTailProperties DEF FrameSeq
    <3> QED
      BY <3>1, <3>2 DEF FrameSeq
  <2>3. Len(o) <= OutBufSize
    <3>1. Len(o) = Len(out[c]) - 1 /\ Len(out[c]) \in Nat
      <4>1. out[c] \in Seq(Nat) /\ out[c] # <<>>
        BY <1>0, <2>1
      <4> QED
        BY <4>1, HeadTailProperties, LenProperties
    <3> QED
      BY <3>1, OutBufAssumption DEF QueueTypes
  <2>4. InOrder(wire[c], b, o, LastGiven(c))
    BY <1>0, <2>1, RecvKeepsOrder
  <2>5. wire' = [wire EXCEPT ![c] = wire[c]] /\ LastGiven(c)' = LastGiven(c)
    BY <2>1 DEF QueueTypes, LastGiven
  <2> HIDE DEF b, o
  <2> QED
    BY <1>0, <1>1, <2>1, <2>2, <2>3, <2>4, <2>5
<1>6. ASSUME NEW c \in Clients, NEW k \in 0..Len(batch[c]),
             wire' = [wire EXCEPT ![c] = wire[c] \o SubSeq(batch[c], 1, k)],
             batch' = [batch EXCEPT ![c] = <<>>], UNCHANGED <<out, todo, frame>>
      PROVE  QueueInv'
  <2> DEFINE w == wire[c] \o SubSeq(batch[c], 1, k)
  <2>1. w \in FrameSeq /\ <<>> \in FrameSeq
    <3>1. wire[c] \in FrameSeq /\ batch[c] \in FrameSeq
      BY <1>0
    <3>2. ASSUME NEW i \in 1..k PROVE batch[c][i] \in 1..MaxFrames
      <4>1. batch[c] \in Seq(1..MaxFrames) /\ i \in 1..Len(batch[c])
        BY <3>1, LenProperties DEF FrameSeq
      <4> QED
        BY ONLY <4>1, ElementOfSeq
    <3>3. SubSeq(batch[c], 1, k) \in FrameSeq
      BY <3>2, SubSeqProperties DEF FrameSeq
    <3> QED
      BY <3>1, <3>3 DEF FrameSeq
  <2>2. InOrder(w, <<>>, out[c], LastGiven(c))
    BY <1>0, FlushKeepsOrder
  <2>3. out' = [out EXCEPT ![c] = out[c]] /\ LastGiven(c)' = LastGiven(c)
    BY <1>6 DEF QueueTypes, LastGiven
  <2>4. wire' = [wire EXCEPT ![c] = w] /\ Len(out[c]) <= OutBufSize
    BY <1>6 DEF QueueTypes
  <2>5. InOrder(w, <<>>, out[c], LastGiven(c)')
    BY <2>2, <2>3
  <2>6. frame' = frame /\ todo' \in {todo, todo \ {c}} /\ out[c] \in FrameSeq
    BY <1>0, <1>6
  <2> HIDE DEF w
  <2> QED
    BY <1>1, <1>6, <2>1, <2>3, <2>4, <2>5, <2>6
<1>7. ASSUME NEW c \in Clients, FlushOk(c) PROVE QueueInv'
  <2>0. batch[c] \in FrameSeq
    BY <1>0
  <2>1. Len(batch[c]) \in 0..Len(batch[c])
        /\ SubSeq(batch[c], 1, Len(batch[c])) = batch[c]
    BY ONLY <2>0, WholeBatch
  <2>2. /\ wire' = [wire EXCEPT ![c] = wire[c] \o batch[c]]
        /\ batch' = [batch EXCEPT ![c] = <<>>] /\ UNCHANGED <<out, todo, frame>>
    BY <1>7 DEF FlushOk, ClearBatch, hubVars
  <2> QED
    BY <1>6, <2>1, <2>2
<1>8. ASSUME NEW c \in Clients, FlushError(c) PROVE QueueInv'
  <2>1. PICK k \in 0..(Len(batch[c]) - 1) :
          wire' = [wire EXCEPT ![c] = wire[c] \o SubSeq(batch[c], 1, k)]
    BY <1>8 DEF FlushError
  <2>2. k \in 0..Len(batch[c])
    <3> DEFINE l == Len(batch[c])
    <3>1. k \in 0..(l - 1)
      BY <2>1
    <3>2. batch[c] \in FrameSeq
      BY <1>0
    <3>3. l \in Nat
      BY ONLY <3>2 DEF FrameSeq
    <3> HIDE DEF l
    <3>4. k \in 0..l
      BY ONLY <3>1, <3>3
    <3> QED
      BY <3>4 DEF l
  <2>3. batch' = [batch EXCEPT ![c] = <<>>] /\ UNCHANGED <<out, todo, frame>>
    BY <1>8 DEF FlushError, ClearBatch, hubVars
  <2> QED
    BY <1>6, <2>1, <2>2, <2>3
<1> QED
  BY <1>2, <1>3, <1>4, <1>5, <1>7, <1>8, QueueSteps

\* A new server has queued nothing.
LEMMA QueueInit == Init => QueueInv
<1> SUFFICES ASSUME Init PROVE QueueInv
  OBVIOUS
<1>1. \A c \in Clients : wire[c] = <<>> /\ batch[c] = <<>> /\ out[c] = <<>>
  BY DEF Init, HubInit
<1>2. QueueTypes
  <2>1. <<>> \in FrameSeq /\ Len(<<>>) = 0
    BY DEF FrameSeq
  <2> QED
    BY <1>1, <2>1, OutBufAssumption DEF Init, HubInit, QueueTypes
<1>3. \A n : InOrder(<<>>, <<>>, <<>>, n)
  BY DEF InOrder, StrictlyIncreasing, Before, UpTo
<1> QED
  BY <1>1, <1>2, <1>3 DEF QueueInv, QueueOrder

-----------------------------------------------------------------------------
\* What a client receives is in the order of the bus and without repetition,
\* whatever startWriter's batching, ticker and failing writes, Broadcast and
\* the policies do, for queues and batches of any size.
THEOREM OrderOfTheBus == Spec => []DeliveryOrdered
<1>1. QueueInv => DeliveryOrdered
  <2> SUFFICES ASSUME QueueInv, NEW c \in Clients
               PROVE  StrictlyIncreasing(wire[c] \o batch[c] \o out[c])
    BY DEF DeliveryOrdered
  <2>1. wire[c] \in Seq(Nat) /\ batch[c] \in Seq(Nat) /\ out[c] \in Seq(Nat)
    BY FramesAreNumbers DEF QueueInv, QueueTypes
  <2>2. InOrder(wire[c], batch[c], out[c], LastGiven(c))
    BY DEF QueueInv, QueueOrder
  <2>3. wire[c] \o batch[c] \in Seq(Nat) /\ StrictlyIncreasing(wire[c] \o batch[c])
    BY <2>1, <2>2, Join, Concat DEF InOrder
  <2>4. Before(wire[c] \o batch[c], out[c])
    BY <2>1, <2>2, JoinBounds DEF InOrder
  <2> QED
    BY <2>1, <2>2, <2>3, <2>4, Join DEF InOrder
<1> QED
  BY <1>1, QueueInit, QueueStep, ServerInit, ServerStep, PTL DEF Spec, ServerInv

\* The types of hub and server, with the capacity of the queues, frames that
\* exist, and a wait group that never drops below zero.
THEOREM Typing == Spec => []TypeOK
<1>1. ServerInv /\ QueueInv => TypeOK
  <2> SUFFICES ASSUME ServerInv, QueueInv PROVE TypeOK
    OBVIOUS
  <2>1. wg \in Nat
    BY GoroutinesCount DEF ServerInv, WgInv
  <2>2. HubTypeOK
    BY DEF ServerInv, Types, QueueInv, QueueTypes, FrameSeq, HubTypeOK
  <2> QED
    BY <2>1, <2>2 DEF ServerInv, Types, QueueInv, QueueTypes, FrameSeq, TypeOK
<1> QED
  BY <1>1, QueueInit, QueueStep, ServerInit, ServerStep, PTL DEF Spec, ServerInv
=============================================================================
