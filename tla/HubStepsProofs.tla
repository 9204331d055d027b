--------------------------- MODULE HubStepsProofs ---------------------------
(***************************************************************************)
(* For any finite set of clients, queue capacity and number of frames: the  *)
(* steps of hub.go close no channel twice, account for every frame that is  *)
(* lost, and implement the registry of module Hub.                          *)
(***************************************************************************)
EXTENDS HubSteps, InductionLemmas

Pcs == {"idle", "check", "close", "closing", "done"}

\* What closeOnce guarantees for c: the function has run exactly when it is
\* done, whoever is in the function holds it, alone, and a Remove is over only
\* when it is done.
OnceInv(c) ==
    /\ closes[c] = IF once[c] = "done" THEN 1 ELSE 0
    /\ \A w \in Closers : /\ at[c][w] = "closing" => once[c] = "busy"
                          /\ at[c][w] = "done" => once[c] = "done"
    /\ \A v, w \in Closers : at[c][v] = "closing" /\ at[c][w] = "closing" => v = w

StepsInv ==
    /\ clients \subseteq Clients /\ todo \subseteq Clients
    /\ policy \in {"drop", "kick"}
    /\ out \in [Clients -> Seq(Nat)]
    /\ frame \in Nat
    /\ once \in [Clients -> {"new", "busy", "done"}]
    /\ closes \in [Clients -> Nat]
    /\ at \in [Clients -> [Closers -> Pcs]]
    /\ \A c \in Clients : OnceInv(c)

\* New gives an empty hub.
LEMMA StepsInit == Init => StepsInv
<1> SUFFICES ASSUME Init PROVE StepsInv
  OBVIOUS
<1>1. out \in [Clients -> Seq(Nat)] /\ frame \in Nat
  BY DEF Init
<1>2. /\ closes \in [Clients -> Nat] /\ once \in [Clients -> {"new", "busy", "done"}]
      /\ at \in [Clients -> [Closers -> Pcs]]
  BY DEF Init, Pcs
<1>3. \A c \in Clients : OnceInv(c)
  BY DEF Init, OnceInv
<1> QED
  BY <1>1, <1>2, <1>3 DEF Init, StepsInv

\* Moving one goroutine on leaves the others where they are.
LEMMA GotoKeeps ==
    ASSUME StepsInv, NEW c \in Clients, NEW w \in Closers,
           NEW here, NEW there \in Pcs, Goto(c, w, here, there)
    PROVE  /\ at' \in [Clients -> [Closers -> Pcs]]
           /\ at[c][w] = here /\ at'[c][w] = there
           /\ \A d \in Clients, v \in Closers :
                 d # c \/ v # w => at'[d][v] = at[d][v]
           /\ UNCHANGED <<policy, out, frame, todo>>
  BY DEF StepsInv, Goto

\* A Remove passes through the check, and Close returns to Remove or Broadcast.
LEMMA PcsOf ==
    /\ Removers \subseteq Closers
    /\ \A w \in Closers : Returned(w) \in {"idle", "done"} /\ Returned(w) \in Pcs
    /\ {"idle", "check", "close", "closing", "done"} \subseteq Pcs
  BY DEF Removers, Closers, Returned, Pcs

\* A goroutine that moves without entering or leaving the function, and ends a
\* Remove only when closeOnce is done, keeps what closeOnce guarantees.
LEMMA OnceKept ==
    ASSUME StepsInv, NEW c \in Clients, NEW w \in Closers, UNCHANGED <<once, closes>>,
           at'[c][w] # "closing", at'[c][w] = "done" => once[c] = "done",
           \A d \in Clients, v \in Closers : d # c \/ v # w => at'[d][v] = at[d][v]
    PROVE  \A d \in Clients : OnceInv(d)'
<1> SUFFICES ASSUME NEW d \in Clients PROVE OnceInv(d)'
  OBVIOUS
<1>1. closes'[d] = closes[d] /\ once'[d] = once[d] /\ OnceInv(d)
  BY DEF StepsInv
<1>2. ASSUME NEW v \in Closers
      PROVE  /\ at'[d][v] = "closing" => at[d][v] = "closing"
             /\ at'[d][v] = "done" => once[d] = "done"
  <2>1. CASE d = c /\ v = w
    BY <2>1
  <2>2. CASE d # c \/ v # w
    BY <1>1, <2>2 DEF OnceInv
  <2> QED
    BY <2>1, <2>2
<1> QED
  BY <1>1, <1>2 DEF OnceInv

\* closeOnce lets the first caller in.
LEMMA EnterStep ==
    ASSUME StepsInv, NEW c \in Clients, NEW w \in Closers, CloseEnter(c, w)
    PROVE  StepsInv'
<1>1. Goto(c, w, "close", "closing") /\ "closing" \in Pcs
  BY PcsOf DEF CloseEnter
<1>2. /\ once[c] = "new" /\ once' = [once EXCEPT ![c] = "busy"]
      /\ UNCHANGED <<clients, closes>>
  BY DEF CloseEnter, MayRun
<1>3. /\ at' \in [Clients -> [Closers -> Pcs]] /\ at'[c][w] = "closing"
      /\ \A d \in Clients, v \in Closers : d # c \/ v # w => at'[d][v] = at[d][v]
      /\ UNCHANGED <<policy, out, frame, todo>>
  BY <1>1, GotoKeeps
<1>4. once' \in [Clients -> {"new", "busy", "done"}] /\ once'[c] = "busy"
  BY <1>2 DEF StepsInv
<1>5. OnceInv(c)'
  <2>1. closes[c] = 0 /\ \A v \in Closers : at[c][v] \notin {"closing", "done"}
    BY <1>2 DEF StepsInv, OnceInv
  <2> QED
    BY <1>2, <1>3, <1>4, <2>1 DEF OnceInv
<1>6. \A d \in Clients : d # c => OnceInv(d)'
  BY <1>2, <1>3 DEF StepsInv, OnceInv
<1> QED
  BY <1>2, <1>3, <1>4, <1>5, <1>6 DEF StepsInv

\* The function closes the channel, once.
LEMMA RunStep ==
    ASSUME StepsInv, NEW c \in Clients, NEW w \in Closers, CloseRun(c, w)
    PROVE  StepsInv' /\ closes'[c] = 1 /\ \A d \in Clients : d # c => closes'[d] = closes[d]
<1> DEFINE there == Returned(w)
<1>1. Goto(c, w, "closing", there) /\ there \in Pcs /\ there # "closing"
  BY PcsOf DEF CloseRun
<1>2. /\ closes' = [closes EXCEPT ![c] = @ + 1] /\ once' = [once EXCEPT ![c] = "done"]
      /\ UNCHANGED clients
  BY DEF CloseRun
<1> HIDE DEF there
<1>3. /\ at' \in [Clients -> [Closers -> Pcs]] /\ at[c][w] = "closing" /\ at'[c][w] = there
      /\ \A d \in Clients, v \in Closers : d # c \/ v # w => at'[d][v] = at[d][v]
      /\ UNCHANGED <<policy, out, frame, todo>>
  BY <1>1, GotoKeeps
<1>4. closes[c] = 0 /\ \A v \in Closers : v # w => at[c][v] # "closing"
  BY <1>3 DEF StepsInv, OnceInv
<1>5. /\ once' \in [Clients -> {"new", "busy", "done"}] /\ once'[c] = "done"
      /\ closes' \in [Clients -> Nat] /\ closes'[c] = 1
  BY <1>2, <1>4 DEF StepsInv
<1>6. OnceInv(c)'
  BY <1>1, <1>3, <1>4, <1>5 DEF OnceInv
<1>7. \A d \in Clients : d # c => OnceInv(d)' /\ closes'[d] = closes[d]
  BY <1>2, <1>3 DEF StepsInv, OnceInv
<1> QED
  BY <1>2, <1>3, <1>5, <1>6, <1>7 DEF StepsInv

\* A later caller finds it done.
LEMMA AgainStep ==
    ASSUME StepsInv, NEW c \in Clients, NEW w \in Closers, CloseAgain(c, w)
    PROVE  StepsInv' /\ closes[c] = 1 /\ UNCHANGED closes
<1> DEFINE there == Returned(w)
<1>1. Goto(c, w, "close", there) /\ there \in Pcs /\ there # "closing"
  BY PcsOf DEF CloseAgain
<1>2. once[c] = "done" /\ UNCHANGED <<clients, once, closes>>
  BY DEF CloseAgain
<1> HIDE DEF there
<1>3. /\ at' \in [Clients -> [Closers -> Pcs]] /\ at'[c][w] = there
      /\ \A d \in Clients, v \in Closers : d # c \/ v # w => at'[d][v] = at[d][v]
      /\ UNCHANGED <<policy, out, frame, todo>>
  BY <1>1, GotoKeeps
<1>4. \A d \in Clients : OnceInv(d)'
  BY <1>1, <1>2, <1>3, OnceKept
<1>5. closes[c] = 1
  BY <1>2 DEF StepsInv, OnceInv
<1> QED
  BY <1>2, <1>3, <1>4, <1>5 DEF StepsInv

\* The locked part of Remove and its check do not touch closeOnce.
LEMMA RemoveKeeps ==
    ASSUME StepsInv, NEW c \in Clients, NEW w \in Removers,
           RemoveLocked(c, w) \/ RemoveCheck(c, w)
    PROVE  StepsInv'
<1> DEFINE here == IF RemoveLocked(c, w) THEN "idle" ELSE "check"
           there == IF RemoveLocked(c, w) THEN "check"
                    ELSE IF IsClosed(c) THEN "done" ELSE "close"
<1>1. Goto(c, w, here, there) /\ there \in Pcs /\ there # "closing" /\ w \in Closers
  BY PcsOf DEF RemoveLocked, RemoveCheck
<1>2. clients' \subseteq clients /\ UNCHANGED <<once, closes>>
  BY DEF RemoveLocked, RemoveCheck
<1>3. there = "done" => once[c] = "done"
  BY DEF IsClosed, StepsInv, OnceInv
<1> HIDE DEF here, there
<1>4. /\ at' \in [Clients -> [Closers -> Pcs]] /\ at'[c][w] = there
      /\ \A d \in Clients, v \in Closers : d # c \/ v # w => at'[d][v] = at[d][v]
      /\ UNCHANGED <<policy, out, frame, todo>>
  BY <1>1, GotoKeeps
<1>5. \A d \in Clients : OnceInv(d)'
  BY <1>1, <1>2, <1>3, <1>4, OnceKept
<1> QED
  BY <1>2, <1>4, <1>5 DEF StepsInv

\* A kick sends the receive loop to Close, nothing else.
LEMMA KickKeeps ==
    ASSUME StepsInv, NEW c \in Clients, Kick(c), UNCHANGED <<once, closes>>
    PROVE  /\ at' \in [Clients -> [Closers -> Pcs]] /\ at'[c]["kick"] = "close"
           /\ \A d \in Clients, v \in Closers : d # c \/ v # "kick" => at'[d][v] = at[d][v]
           /\ \A d \in Clients : OnceInv(d)'
<1>1. "kick" \in Closers /\ "close" \in Pcs
  BY DEF Closers, Pcs
<1>2. /\ at' \in [Clients -> [Closers -> Pcs]] /\ at'[c]["kick"] = "close"
      /\ \A d \in Clients, v \in Closers : d # c \/ v # "kick" => at'[d][v] = at[d][v]
  BY <1>1 DEF Kick, StepsInv
<1>3. \A d \in Clients : OnceInv(d)'
  BY <1>1, <1>2, OnceKept
<1> QED
  BY <1>2, <1>3

\* Every step keeps the invariant.
LEMMA StepsStep == StepsInv /\ [Next]_vars => StepsInv'
<1> SUFFICES ASSUME StepsInv, [Next]_vars PROVE StepsInv'
  OBVIOUS
<1>0. ASSUME UNCHANGED <<once, closes, at>> PROVE \A c \in Clients : OnceInv(c)'
  BY <1>0 DEF StepsInv, OnceInv
<1>1. ASSUME NEW c \in Clients, Add(c) PROVE StepsInv'
  BY <1>0, <1>1 DEF Add, StepsInv
<1>2. ASSUME NEW c \in Clients, BroadcastSend(c) PROVE StepsInv'
  <2>0. /\ todo' = todo \ {c} /\ (Queue(c) \/ Refuse(c))
        /\ UNCHANGED <<clients, policy, frame, once, closes>>
    BY <1>2 DEF BroadcastSend
  <2>1. CASE Queue(c)
    <3>1. out' \in [Clients -> Seq(Nat)] /\ UNCHANGED at
      BY <2>1 DEF Queue, StepsInv
    <3> QED
      BY <1>0, <2>0, <3>1 DEF StepsInv
  <2>2. CASE Refuse(c)
    <3>1. UNCHANGED out /\ (Kick(c) \/ Drop(c))
      BY <2>2 DEF Refuse
    <3>2. /\ at' \in [Clients -> [Closers -> Pcs]]
          /\ \A d \in Clients : OnceInv(d)'
      BY <1>0, <2>0, <3>1, KickKeeps DEF Drop, StepsInv
    <3> QED
      BY <2>0, <3>1, <3>2 DEF StepsInv
  <2> QED
    BY <2>0, <2>1, <2>2
<1>3. ASSUME NEW c \in Clients, Recv(c) PROVE StepsInv'
  <2>1. out' \in [Clients -> Seq(Nat)]
    BY <1>3 DEF Recv, StepsInv
  <2> QED
    BY <1>0, <1>3, <2>1 DEF Recv, StepsInv
<1>4. ASSUME NEW c \in Clients, NEW w \in Closers, Close(c, w) PROVE StepsInv'
  BY <1>4, EnterStep, RunStep, AgainStep DEF Close
<1>5. CASE Snapshot
  BY <1>0, <1>5 DEF Snapshot, StepsInv
<1>6. CASE UNCHANGED vars
  BY <1>0, <1>6 DEF vars, StepsInv
<1> QED
  BY <1>1, <1>2, <1>3, <1>4, <1>5, <1>6, RemoveKeeps DEF Next

\* No close of a closed channel, whoever calls Close how often: a kick, the
\* writer's Remove and Shutdown's Remove may overlap at every point of the
\* check, of closeOnce and of the close; and a Remove that is over has left
\* the channel closed.
THEOREM ChannelsCloseOnce == Spec => []ClosedOnce
<1>1. StepsInv => ClosedOnce
  BY PcsOf DEF StepsInv, OnceInv, ClosedOnce
<1> QED
  BY <1>1, StepsInit, StepsStep, PTL DEF Spec

-----------------------------------------------------------------------------
(***************************************************************************)
(* Loss: a refused frame moves one summand and one counter.                 *)
(***************************************************************************)

\* The types of the counters and the histories.
LossTypes ==
    /\ drops \in Nat /\ kicks \in Nat
    /\ rcvd \in [Clients -> Seq(Nat)] /\ offered \in [Clients -> Nat]

LossInv == LossTypes /\ Lost \in [Clients -> Nat] /\ LossAccounted

\* The losses are numbers.
LEMMA LostType == StepsInv /\ LossTypes => Lost \in [Clients -> Int]
  BY DEF StepsInv, LossTypes, Lost

\* At first nothing is offered.
LEMMA LossInit == Init => LossInv
<1> SUFFICES ASSUME Init PROVE LossInv
  OBVIOUS
<1>1. LossTypes
  BY DEF Init, LossTypes
<1>2. Lost = [c \in Clients |-> 0]
  BY DEF Init, Lost
<1>3. SumFunction(Lost) = 0 /\ Lost \in [Clients -> Nat]
  BY <1>2, SumFunctionZero, ClientsAssumption
<1>4. Overflowed = {}
  BY <1>2 DEF Overflowed
<1>5. Cardinality(Overflowed) = 0
  BY <1>4, FS_EmptySet
<1> QED
  BY <1>1, <1>3, <1>4, <1>5 DEF Init, LossInv, LossAccounted

\* One more loss of one client is one more in the sum.
LEMMA OneMoreLost ==
    ASSUME StepsInv, LossTypes, NEW c \in Clients,
           Lost' = [Lost EXCEPT ![c] = @ + 1]
    PROVE  SumFunction(Lost') = SumFunction(Lost) + 1 /\ SumFunction(Lost) \in Int
<1>1. Lost \in [Clients -> Int] /\ Lost[c] \in Int /\ Lost[c] + 1 \in Int
  BY LostType
<1> DEFINE L == Lost
           v == Lost[c] + 1
<1>2. Lost' = [L EXCEPT ![c] = v]
  OBVIOUS
<1>3. v - L[c] = 1
  BY <1>1
<1> HIDE DEF L, v
<1>4. L \in [Clients -> Int] /\ v \in Int
  BY <1>1 DEF L, v
<1>5. /\ SumFunction(L) \in Int
      /\ SumFunction([L EXCEPT ![c] = v]) = SumFunction(L) + (v - L[c])
  BY <1>4, ClientsAssumption, SumFunctionChange
<1>6. SumFunction(Lost') = SumFunction(L) + 1
  BY <1>2, <1>3, <1>5
<1> QED
  BY <1>5, <1>6 DEF L

\* One more loss of one client is at most one more client that overflowed, and
\* exactly one more if it is its first.
LEMMA OneMoreOverflow ==
    ASSUME Lost \in [Clients -> Nat], NEW c \in Clients,
           Lost' = [Lost EXCEPT ![c] = @ + 1]
    PROVE  /\ Overflowed' = Overflowed \cup {c}
           /\ Cardinality(Overflowed) \in Nat /\ Cardinality(Overflowed') \in Nat
           /\ Cardinality(Overflowed') <= Cardinality(Overflowed) + 1
           /\ Lost[c] = 0 => Cardinality(Overflowed') = Cardinality(Overflowed) + 1
<1>1. \A d \in Clients : Lost'[d] = IF d = c THEN Lost[d] + 1 ELSE Lost[d]
  OBVIOUS
<1>2. Overflowed' = Overflowed \cup {c}
  BY <1>1 DEF Overflowed
<1>3. IsFiniteSet(Overflowed)
  BY ClientsAssumption, FS_Subset DEF Overflowed
<1>4. /\ Cardinality(Overflowed) \in Nat
      /\ Cardinality(Overflowed \cup {c})
           = IF c \in Overflowed THEN Cardinality(Overflowed) ELSE Cardinality(Overflowed) + 1
  BY <1>3, FS_AddElement, FS_CardinalityType
<1>5. Lost[c] = 0 => c \notin Overflowed
  BY DEF Overflowed
<1> QED
  BY <1>2, <1>4, <1>5

\* Closed, or about to be closed by the kick.
Leaving(c) == IsClosed(c) \/ at[c]["kick"] # "idle"

\* A step that moves frames without losing any keeps the account.
LEMMA NothingLost ==
    ASSUME LossInv, LossTypes', Lost' = Lost, UNCHANGED <<policy, drops, kicks>>,
           \A c \in Clients : Leaving(c) => Leaving(c)'
    PROVE  LossInv'
<1>1. SumFunction(Lost)' = SumFunction(Lost)
  BY DEF SumFunction
<1>2. Overflowed' = Overflowed /\ Overflowed \subseteq Clients
  BY DEF Overflowed
<1>3. Cardinality(Overflowed)' = Cardinality(Overflowed)
  BY <1>2
<1>4. policy = "kick" => \A c \in Overflowed' : Leaving(c)'
  BY <1>2 DEF LossInv, LossAccounted, Leaving
<1>5. LossAccounted'
  BY <1>1, <1>3, <1>4 DEF LossInv, LossAccounted, Leaving
<1> QED
  BY <1>5 DEF LossInv

\* Every step keeps the account.
LEMMA LossStep == StepsInv /\ LossInv /\ [Next]_vars => LossInv'
<1> SUFFICES ASSUME StepsInv, LossInv, [Next]_vars PROVE LossInv'
  OBVIOUS
<1>0. ASSUME UNCHANGED <<policy, out, drops, kicks, rcvd, offered>>,
             \A c \in Clients : Leaving(c) => Leaving(c)'
      PROVE  LossInv'
  <2>1. LossTypes' /\ Lost' = Lost
    BY <1>0 DEF LossInv, LossTypes, Lost
  <2> QED
    BY <1>0, <2>1, NothingLost
<1>00. ASSUME UNCHANGED <<closes, at>> PROVE \A c \in Clients : Leaving(c) => Leaving(c)'
  BY <1>00 DEF Leaving, IsClosed
<1>1. ASSUME NEW c \in Clients, Add(c) PROVE LossInv'
  BY <1>0, <1>00, <1>1 DEF Add
<1>2. ASSUME NEW c \in Clients, BroadcastSend(c) PROVE LossInv'
  <2>1. /\ offered' = [offered EXCEPT ![c] = @ + 1]
        /\ UNCHANGED <<policy, rcvd, once, closes>>
    BY <1>2 DEF BroadcastSend
  <2>2. CASE Queue(c)
    <3>1. out' = [out EXCEPT ![c] = Append(@, frame)] /\ UNCHANGED <<at, drops, kicks>>
      BY <2>2 DEF Queue
    <3>2. \A d \in Clients : Len(out'[d]) = IF d = c THEN Len(out[d]) + 1 ELSE Len(out[d])
      BY <3>1 DEF StepsInv
    <3>3. LossTypes'
      BY <2>1, <3>1 DEF LossInv, LossTypes
    <3>4. ASSUME NEW d \in Clients
          PROVE  offered'[d] - (Len(rcvd'[d]) + Len(out'[d]))
                   = offered[d] - (Len(rcvd[d]) + Len(out[d]))
      <4>1. Len(out[d]) \in Nat /\ Len(rcvd[d]) \in Nat /\ offered[d] \in Nat
        BY DEF StepsInv, LossInv, LossTypes
      <4>2. offered'[d] = IF d = c THEN offered[d] + 1 ELSE offered[d]
        BY <2>1 DEF LossInv, LossTypes
      <4>3. Len(rcvd'[d]) = Len(rcvd[d])
        BY <2>1
      <4>4. CASE d = c
        <5> DEFINE i == offered[d]
                   j == Len(rcvd[d])
                   k == Len(out[d])
        <5>1. offered'[d] = i + 1 /\ Len(rcvd'[d]) = j /\ Len(out'[d]) = k + 1
          BY <3>2, <4>2, <4>3, <4>4
        <5>2. i \in Nat /\ j \in Nat /\ k \in Nat
          BY <4>1
        <5> HIDE DEF i, j, k
        <5>3. (i + 1) - (j + (k + 1)) = i - (j + k)
          BY ONLY <5>2
        <5> QED
          BY <5>1, <5>3 DEF i, j, k
      <4>5. CASE d # c
        BY <3>2, <4>2, <4>3, <4>5
      <4> QED
        BY <4>4, <4>5
    <3>5. Lost' = Lost
      BY <3>4 DEF Lost
    <3> QED
      BY <1>00, <2>1, <3>1, <3>3, <3>5, NothingLost
  <2>3. CASE Refuse(c)
    <3>1. UNCHANGED out
      BY <2>3 DEF Refuse
    <3>2. LossTypes'
      BY <2>1, <2>3 DEF LossInv, LossTypes, Refuse, Kick, Drop
    <3>3. Lost' = [Lost EXCEPT ![c] = @ + 1]
      <4>1. ASSUME NEW d \in Clients
            PROVE  offered'[d] - (Len(rcvd'[d]) + Len(out'[d]))
                     = IF d = c THEN Lost[d] + 1 ELSE Lost[d]
        <5>1. Len(out[d]) \in Nat /\ Len(rcvd[d]) \in Nat /\ offered[d] \in Nat
          BY DEF StepsInv, LossInv, LossTypes
        <5>2. offered'[d] = IF d = c THEN offered[d] + 1 ELSE offered[d]
          BY <2>1 DEF LossInv, LossTypes
        <5>3. Lost[d] = offered[d] - (Len(rcvd[d]) + Len(out[d]))
          BY DEF Lost
        <5>4. Len(rcvd'[d]) = Len(rcvd[d]) /\ Len(out'[d]) = Len(out[d])
          BY <2>1, <3>1
        <5>5. CASE d = c
          <6> DEFINE i == offered[d]
                     j == Len(rcvd[d])
                     k == Len(out[d])
          <6>1. offered'[d] = i + 1 /\ Len(rcvd'[d]) = j /\ Len(out'[d]) = k
            BY <5>2, <5>4, <5>5
          <6>2. i \in Nat /\ j \in Nat /\ k \in Nat
            BY <5>1
          <6>3. Lost[d] = i - (j + k)
            BY <5>3
          <6> HIDE DEF i, j, k
          <6>4. (i + 1) - (j + k) = (i - (j + k)) + 1
            BY ONLY <6>2
          <6> QED
            BY <5>5, <6>1, <6>3, <6>4
        <5>6. CASE d # c
          BY <5>2, <5>3, <5>4, <5>6
        <5> QED
          BY <5>5, <5>6
      <4>2. /\ Lost' = [d \in Clients |-> offered'[d] - (Len(rcvd'[d]) + Len(out'[d]))]
            /\ DOMAIN Lost = Clients
        BY DEF Lost
      <4> QED
        BY <4>1, <4>2
    <3>4. SumFunction(Lost') = SumFunction(Lost) + 1 /\ SumFunction(Lost) \in Int
      BY <3>3, OneMoreLost DEF LossInv
    <3>5. SumFunction(Lost)' = SumFunction(Lost) + 1 /\ Lost' \in [Clients -> Nat]
      BY <3>3, <3>4 DEF SumFunction, LossInv
    <3>6. CASE policy = "kick"
      <4>1. kicks' = kicks + 1 /\ drops' = drops /\ Kick(c)
        BY <2>3, <3>6 DEF Refuse, Kick
      <4>2. /\ Overflowed' = Overflowed \cup {c}
            /\ Cardinality(Overflowed) \in Nat /\ Cardinality(Overflowed') \in Nat
            /\ Cardinality(Overflowed') <= Cardinality(Overflowed) + 1
            /\ Lost[c] = 0 => Cardinality(Overflowed') = Cardinality(Overflowed) + 1
        BY <3>3, OneMoreOverflow DEF LossInv
      <4>3. /\ drops = 0 /\ kicks \in Nat /\ kicks >= Cardinality(Overflowed)
            /\ \A d \in Overflowed : Leaving(d)
            /\ (\A d \in Clients : Lost[d] <= 1) => kicks = Cardinality(Overflowed)
        BY <3>6 DEF LossInv, LossTypes, LossAccounted, Leaving
      <4>4. \A d \in Overflowed' : Leaving(d)'
        <5>1. /\ at'[c]["kick"] = "close" /\ "kick" \in Closers
              /\ \A d \in Clients, v \in Closers : d # c \/ v # "kick" => at'[d][v] = at[d][v]
          BY <2>1, <4>1, KickKeeps DEF Closers
        <5>2. Leaving(c)' /\ \A d \in Clients \ {c} : Leaving(d) => Leaving(d)'
          BY <2>1, <5>1 DEF Leaving, IsClosed
        <5> QED
          BY <4>2, <4>3, <5>2 DEF Overflowed
      <4>5. kicks' >= Cardinality(Overflowed')
        BY <4>1, <4>2, <4>3
      <4>6. ASSUME \A d \in Clients : Lost'[d] <= 1
            PROVE  kicks' = Cardinality(Overflowed')
        <5>1. Lost[c] = 0 /\ \A d \in Clients : Lost[d] <= 1
          BY <3>3, <4>6 DEF LossInv
        <5> QED
          BY <4>1, <4>2, <4>3, <5>1
      <4>7. Cardinality(Overflowed)' = Cardinality(Overflowed')
        OBVIOUS
      <4> QED
        BY <2>1, <3>2, <3>5, <3>6, <4>1, <4>3, <4>4, <4>5, <4>6, <4>7
        DEF LossInv, LossAccounted, Leaving
    <3>7. CASE policy # "kick"
      <4>1. drops' = drops + 1 /\ kicks' = kicks
        BY <2>3, <3>7 DEF Refuse, Drop
      <4>2. policy = "drop" => kicks' = 0 /\ drops' = SumFunction(Lost)'
        BY <3>4, <3>5, <4>1 DEF LossInv, LossTypes, LossAccounted
      <4> QED
        BY <2>1, <3>2, <3>5, <3>7, <4>2 DEF LossInv, LossAccounted
    <3> QED
      BY <3>6, <3>7
  <2> QED
    BY <1>2, <2>2, <2>3 DEF BroadcastSend
<1>3. ASSUME NEW c \in Clients, Recv(c) PROVE LossInv'
  <2>1. /\ out[c] # <<>>
        /\ rcvd' = [rcvd EXCEPT ![c] = Append(@, Head(out[c]))]
        /\ out' = [out EXCEPT ![c] = Tail(@)]
        /\ UNCHANGED <<policy, closes, at, drops, kicks, offered>>
    BY <1>3 DEF Recv
  <2>2. out[c] \in Seq(Nat) /\ rcvd[c] \in Seq(Nat)
    BY DEF StepsInv, LossInv, LossTypes
  <2>3. /\ Head(out[c]) \in Nat /\ Len(Tail(out[c])) = Len(out[c]) - 1
        /\ Len(Append(rcvd[c], Head(out[c]))) = Len(rcvd[c]) + 1
        /\ Append(rcvd[c], Head(out[c])) \in Seq(Nat)
    BY <2>1, <2>2
  <2>4. LossTypes'
    BY <2>1, <2>3 DEF LossInv, LossTypes
  <2>5. \A d \in Clients : d # c => out'[d] = out[d] /\ rcvd'[d] = rcvd[d]
    BY <2>1 DEF StepsInv, LossInv, LossTypes
  <2>6. out'[c] = Tail(out[c]) /\ rcvd'[c] = Append(rcvd[c], Head(out[c]))
    BY <2>1 DEF StepsInv, LossInv, LossTypes
  <2>7. Len(out[c]) \in Nat /\ Len(rcvd[c]) \in Nat
    BY <2>2
  <2>8. Len(rcvd'[c]) + Len(out'[c]) = Len(rcvd[c]) + Len(out[c])
    <3>1. Len(rcvd'[c]) = Len(rcvd[c]) + 1 /\ Len(out'[c]) = Len(out[c]) - 1
      BY <2>3, <2>6
    <3>2. \A i, j \in Nat : (i + 1) + (j - 1) = i + j
      OBVIOUS
    <3> QED
      BY <2>7, <3>1, <3>2
  <2>9. \A d \in Clients : Len(rcvd'[d]) + Len(out'[d]) = Len(rcvd[d]) + Len(out[d])
    BY <2>5, <2>8
  <2>10. Lost' = Lost
    <3>1. \A d \in Clients : offered'[d] = offered[d]
      BY <2>1
    <3> QED
      BY <2>9, <3>1 DEF Lost
  <2> QED
    BY <1>00, <2>1, <2>4, <2>10, NothingLost
<1>4. ASSUME NEW c \in Clients, NEW w \in Removers, RemoveLocked(c, w) \/ RemoveCheck(c, w)
      PROVE  LossInv'
  <2> DEFINE here == IF RemoveLocked(c, w) THEN "idle" ELSE "check"
             there == IF RemoveLocked(c, w) THEN "check"
                      ELSE IF IsClosed(c) THEN "done" ELSE "close"
  <2>1. /\ Goto(c, w, here, there) /\ there \in Pcs /\ UNCHANGED closes
        /\ w \in Closers /\ "kick" \in Closers /\ w # "kick"
    BY <1>4, PcsOf DEF RemoveLocked, RemoveCheck, Removers, Closers
  <2> HIDE DEF here, there
  <2>2. \A d \in Clients, v \in Closers : d # c \/ v # w => at'[d][v] = at[d][v]
    BY <2>1, GotoKeeps
  <2>3. \A d \in Clients : Leaving(d) => Leaving(d)'
    BY <2>1, <2>2 DEF Leaving, IsClosed
  <2> QED
    BY <1>0, <2>1, <2>3 DEF Goto
<1>5. ASSUME NEW c \in Clients, NEW w \in Closers, Close(c, w) PROVE LossInv'
  <2>1. UNCHANGED <<policy, out, drops, kicks, rcvd, offered>>
    BY <1>5 DEF Close, CloseEnter, CloseRun, CloseAgain, Goto
  <2>2. \A d \in Clients \ {c} : at'[d] = at[d] /\ closes'[d] = closes[d]
    BY <1>5 DEF Close, CloseEnter, CloseRun, CloseAgain, Goto, StepsInv
  <2>3. CASE CloseEnter(c, w)
    <3>1. Goto(c, w, "close", "closing") /\ "closing" \in Pcs /\ UNCHANGED closes
      BY <2>3, PcsOf DEF CloseEnter
    <3>2. /\ at'[c][w] = "closing"
          /\ \A v \in Closers : v # w => at'[c][v] = at[c][v]
      BY <3>1, GotoKeeps
    <3>3. Leaving(c) => Leaving(c)'
      BY <3>1, <3>2 DEF Leaving, IsClosed, Closers
    <3>4. \A d \in Clients : Leaving(d) => Leaving(d)'
      BY <2>2, <3>3 DEF Leaving, IsClosed
    <3> QED
      BY <1>0, <2>1, <3>4
  <2>4. CASE CloseRun(c, w) \/ CloseAgain(c, w)
    <3>1. closes'[c] = 1
      BY <2>4, RunStep, AgainStep
    <3>2. \A d \in Clients : Leaving(d) => Leaving(d)'
      BY <2>2, <3>1 DEF Leaving, IsClosed
    <3> QED
      BY <1>0, <2>1, <3>2
  <2> QED
    BY <1>5, <2>3, <2>4 DEF Close
<1>6. CASE Snapshot
  BY <1>0, <1>00, <1>6 DEF Snapshot
<1>7. CASE UNCHANGED vars
  BY <1>0, <1>00, <1>7 DEF vars
<1> QED
  BY <1>1, <1>2, <1>3, <1>4, <1>5, <1>6, <1>7 DEF Next

\* Under drop, hub_dropped_frames_total is the number of frames lost over all
\* clients; under kick, every client that lost one is told to close and
\* hub_kicked_clients_total misses none of them, and counts them exactly until
\* one of them overflows a second time.
THEOREM LossIsCounted == Spec => []LossAccounted
<1>1. LossInv => LossAccounted
  BY DEF LossInv
<1> QED
  BY <1>1, StepsInit, StepsStep, LossInit, LossStep, PTL DEF Spec

-----------------------------------------------------------------------------
(***************************************************************************)
(* Refinement: RemoveLocked is the abstract Remove and Refuse the abstract  *)
(* kick; the rest of Remove and Close leave the registry alone.             *)
(***************************************************************************)

\* The abstract set of signalled clients.
Signalled ==
    {c \in Clients : \/ IsClosed(c)
                     \/ \E w \in Closers : at[c][w] \in {"check", "close", "closing"}}

\* Every step is a step of the one-step hub, or none.
LEMMA RegistryStep ==
    StepsInv /\ [Next]_vars => [Registry!HubNext]_(Registry!hubVars)
<1> SUFFICES ASSUME StepsInv, [Next]_vars
             PROVE  [Registry!HubNext]_(Registry!hubVars)
  OBVIOUS
<1>0. ASSUME UNCHANGED <<clients, policy, out, frame, todo>>, Signalled' = Signalled
      PROVE  UNCHANGED Registry!hubVars
  BY <1>0 DEF Registry!hubVars, Signalled
<1>00. ASSUME NEW c \in Clients, c \in Signalled, c \in Signalled',
              \A d \in Clients \ {c} : closes'[d] = closes[d] /\
                                        \A v \in Closers : at'[d][v] = at[d][v]
       PROVE  Signalled' = Signalled
  <2>1. \A d \in Clients \ {c} : d \in Signalled' <=> d \in Signalled
    BY <1>00 DEF Signalled, IsClosed
  <2>2. Signalled \subseteq Clients /\ Signalled' \subseteq Clients
    BY DEF Signalled
  <2> QED
    BY <1>00, <2>1, <2>2
<1>1. ASSUME NEW c \in Clients, Add(c) PROVE Registry!Add(c)
  BY <1>1 DEF Add, Registry!Add, IsClosed
<1>2. ASSUME NEW c \in Clients, BroadcastSend(c) PROVE Registry!BroadcastTo(c)
  <2>1. CASE Queue(c)
    BY <1>2, <2>1 DEF BroadcastSend, Queue, Registry!BroadcastTo, IsClosed
  <2>2. CASE Refuse(c)
    <3>1. CASE policy = "kick"
      <4>1. Kick(c) /\ UNCHANGED <<out, once, closes>>
        BY <1>2, <2>2, <3>1 DEF BroadcastSend, Refuse
      <4>2. /\ at'[c]["kick"] = "close" /\ "kick" \in Closers /\ at[c]["kick"] = "idle"
            /\ \A d \in Clients, v \in Closers : d # c \/ v # "kick" => at'[d][v] = at[d][v]
        BY <1>2, <4>1, KickKeeps DEF Closers, BroadcastSend, NoKick
      <4>3. c \in Signalled'
        BY <4>2 DEF Signalled
      <4>4. \A d \in Clients \ {c} : d \in Signalled' <=> d \in Signalled
        BY <4>1, <4>2 DEF Signalled, IsClosed
      <4>5. Signalled' = Signalled \cup {c}
        BY <4>3, <4>4 DEF Signalled
      <4> QED
        BY <1>2, <2>2, <3>1, <4>1, <4>5
        DEF BroadcastSend, Refuse, Registry!BroadcastTo, Registry!Refused, Signalled
    <3>2. CASE policy # "kick"
      BY <1>2, <2>2, <3>2
      DEF BroadcastSend, Refuse, Drop, Registry!BroadcastTo, Registry!Refused, IsClosed
    <3> QED
      BY <3>1, <3>2
  <2> QED
    BY <1>2, <2>1, <2>2 DEF BroadcastSend
<1>3. ASSUME NEW c \in Clients, Recv(c) PROVE Registry!Recv(c)
  BY <1>3 DEF Recv, Registry!Recv, IsClosed
<1>4. ASSUME NEW c \in Clients, NEW w \in Removers, RemoveLocked(c, w)
      PROVE  Registry!Remove(c)
  <2>1. Goto(c, w, "idle", "check") /\ "check" \in Pcs /\ w \in Closers
    BY <1>4, PcsOf DEF RemoveLocked
  <2>2. UNCHANGED <<once, closes>> /\ clients' = clients \ {c}
    BY <1>4 DEF RemoveLocked
  <2>3. /\ at'[c][w] = "check" /\ UNCHANGED <<policy, out, frame, todo>>
        /\ \A d \in Clients, v \in Closers : d # c \/ v # w => at'[d][v] = at[d][v]
    BY <2>1, GotoKeeps
  <2>4. c \in Signalled'
    BY <2>1, <2>3 DEF Signalled
  <2>5. \A d \in Clients \ {c} : d \in Signalled' <=> d \in Signalled
    BY <2>2, <2>3 DEF Signalled, IsClosed
  <2>6. Signalled' = Signalled \cup {c}
    BY <2>4, <2>5 DEF Signalled
  <2> QED
    BY <2>2, <2>3, <2>6 DEF Registry!Remove, Signalled
<1>5. ASSUME NEW c \in Clients, NEW w \in Removers, RemoveCheck(c, w)
      PROVE  UNCHANGED Registry!hubVars
  <2> DEFINE there == IF IsClosed(c) THEN "done" ELSE "close"
  <2>1. Goto(c, w, "check", there) /\ there \in Pcs /\ w \in Closers
    BY <1>5, PcsOf DEF RemoveCheck
  <2>2. UNCHANGED <<clients, closes>>
    BY <1>5 DEF RemoveCheck
  <2>3. /\ at[c][w] = "check" /\ at'[c][w] = there
        /\ UNCHANGED <<policy, out, frame, todo>>
        /\ \A d \in Clients, v \in Closers : d # c \/ v # w => at'[d][v] = at[d][v]
    BY <2>1, GotoKeeps
  <2>4. c \in Signalled /\ c \in Signalled'
    BY <2>1, <2>2, <2>3 DEF Signalled, IsClosed
  <2>5. Signalled' = Signalled
    BY <1>00, <2>2, <2>3, <2>4
  <2> QED
    BY <1>0, <2>2, <2>3, <2>5
<1>6. ASSUME NEW c \in Clients, NEW w \in Closers, Close(c, w)
      PROVE  UNCHANGED Registry!hubVars
  <2>1. UNCHANGED <<clients, policy, out, frame, todo>>
    BY <1>6 DEF Close, CloseEnter, CloseRun, CloseAgain, Goto
  <2>2. at[c][w] \in {"close", "closing"}
    BY <1>6 DEF Close, CloseEnter, CloseRun, CloseAgain, Goto
  <2>3. \A d \in Clients \ {c} : closes'[d] = closes[d] /\
                                  \A v \in Closers : at'[d][v] = at[d][v]
    BY <1>6 DEF Close, CloseEnter, CloseRun, CloseAgain, Goto, StepsInv
  <2>4. c \in Signalled'
    <3>1. CASE CloseEnter(c, w)
      <4>1. Goto(c, w, "close", "closing") /\ "closing" \in Pcs
        BY <3>1, PcsOf DEF CloseEnter
      <4>2. at'[c][w] = "closing"
        BY <4>1, GotoKeeps
      <4> QED
        BY <4>2 DEF Signalled
    <3>2. CASE CloseRun(c, w) \/ CloseAgain(c, w)
      <4>1. closes'[c] = 1
        BY <3>2, RunStep, AgainStep
      <4> QED
        BY <4>1 DEF Signalled, IsClosed
    <3> QED
      BY <1>6, <3>1, <3>2 DEF Close
  <2>5. c \in Signalled
    BY <2>2 DEF Signalled
  <2>6. Signalled' = Signalled
    BY <1>00, <2>3, <2>4, <2>5
  <2> QED
    BY <1>0, <2>1, <2>6
<1>7. ASSUME Snapshot PROVE Registry!BroadcastStart
  BY <1>7 DEF Snapshot, Registry!BroadcastStart, IsClosed
<1>8. ASSUME UNCHANGED vars PROVE UNCHANGED Registry!hubVars
  BY <1>8 DEF vars, Registry!hubVars, IsClosed
<1> QED
  BY <1>1, <1>2, <1>3, <1>4, <1>5, <1>6, <1>7, <1>8
  DEF Next, Registry!HubNext

\* Every behaviour of hub.go, with its checks and closes outside the lock, is
\* one of the registry that module Server builds on.
THEOREM RefinesHub == Spec => ImplementsHub
<1>1. Init => Registry!HubInit
  BY DEF Init, Registry!HubInit, IsClosed
<1> QED
  BY <1>1, StepsInit, StepsStep, RegistryStep, PTL
     DEF Spec, ImplementsHub, Registry!HubSpec
=============================================================================
