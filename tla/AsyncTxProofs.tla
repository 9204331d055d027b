--------------------------- MODULE AsyncTxProofs ---------------------------
(***************************************************************************)
(* Proofs about AsyncTx for any number of senders and closers, any channel  *)
(* capacity and any number of calls.                                        *)
(***************************************************************************)
EXTENDS AsyncTx, SequenceTheorems, TLAPS

-----------------------------------------------------------------------------
(***************************************************************************)
(* Sequences: moving the head of one queue to the end of another keeps the  *)
(* concatenation.                                                           *)
(***************************************************************************)

\* Frames joined to frames are frames.
LEMMA ConcatTyped ==
    ASSUME NEW S, NEW p \in Seq(S), NEW q \in Seq(S)
    PROVE  /\ p \o q \in Seq(S)
           /\ Len(p \o q) = Len(p) + Len(q)
           /\ p \o <<>> = p
           /\ <<>> \o p = p
BY ConcatProperties, ConcatEmptySeq, EmptySeq

\* Joining three pieces of the funnel in either order gives the same line.
LEMMA ConcatAssoc ==
    ASSUME NEW S, NEW p \in Seq(S), NEW q \in Seq(S), NEW r \in Seq(S)
    PROVE  (p \o q) \o r = p \o (q \o r)
BY ConcatAssociative

\* A frame put at the end of a line of frames leaves a line of frames.
LEMMA AppendTyped ==
    ASSUME NEW S, NEW p \in Seq(S), NEW x \in S
    PROVE  /\ Append(p, x) = p \o <<x>>
           /\ Append(p, x) \in Seq(S)
           /\ Len(Append(p, x)) = Len(p) + 1
BY AppendProperties, AppendIsConcat

\* A line that is not empty is its first frame followed by the rest.
LEMMA SplitHead ==
    ASSUME NEW S, NEW p \in Seq(S), p # <<>>
    PROVE  /\ Head(p) \in S /\ Tail(p) \in Seq(S)
           /\ Len(Tail(p)) = Len(p) - 1
           /\ <<Head(p)>> \o Tail(p) = p
<1>1. Head(p) \in S /\ Tail(p) \in Seq(S) /\ Len(Tail(p)) = Len(p) - 1
  BY HeadTailProperties
<1>2. <<Head(p)>> \o Tail(p) = p
  BY <1>1
<1> QED
  BY <1>1, <1>2

-----------------------------------------------------------------------------
(***************************************************************************)
(* The inductive invariant.                                                 *)
(***************************************************************************)

\* The mutex is held by the sender inside the locked part of SendFrame.
LockInv ==
    \A s \in Senders : mu = s <=> sendPc[s] \in {"check", "push"}

\* k is the Close call whose Swap found the flag unset.
Winner(k) == closePc[k] \in {"cancel", "lock", "wait", "returned"}

\* One Close call stops the funnel; the flag precedes everything it does.
CloseInv ==
    /\ \A j, k \in Closers : Winner(j) /\ Winner(k) => j = k
    /\ \A k \in Closers : Winner(k) => closed
    /\ \A k \in Closers : closePc[k] = "returned" => loop = "done"
    /\ chClosed => closed

\* A call in progress has been counted.
Started == \A s \in Senders : sendPc[s] # "idle" => calls[s] > 0

\* A call in progress has not queued its frame, and no frame of a call that
\* has not started is queued.
CallInv ==
    \A s \in Senders :
        /\ \A n \in Nat : Holds(accepted, <<s, n>>) => n <= calls[s]
        /\ sendPc[s] # "idle" => ~Holds(accepted, <<s, calls[s]>>)

TypeInv == TypeOK /\ Started

-----------------------------------------------------------------------------
\* NewAsyncTx starts well typed.
LEMMA TypeInit == Init => TypeInv
<1>1. <<>> \in Seq(Frame) /\ Len(<<>>) = 0
  BY EmptySeq
<1>2. 0 \in 0..MaxSends /\ 0 <= Buf
  BY BufAssumption, MaxSendsAssumption
<1> SUFFICES ASSUME Init PROVE TypeInv
  OBVIOUS
<1>3. /\ sendPc \in [Senders -> SendPcs] /\ calls \in [Senders -> 0..MaxSends]
      /\ result \in [Senders -> Results] /\ closePc \in [Closers -> ClosePcs]
  BY <1>2 DEF Init, SendPcs, Results, ClosePcs
<1>4. Started
  BY DEF Init, Started
<1>5. chClosed \in BOOLEAN /\ ctxDone \in BOOLEAN /\ closed \in BOOLEAN
  BY DEF Init
<1>6. /\ ch \in Seq(Frame) /\ Len(ch) <= Buf /\ cur \in Seq(Frame)
      /\ accepted \in Seq(Frame) /\ processed \in Seq(Frame)
  BY <1>1, <1>2 DEF Init
<1>7. Len(cur) = 0 /\ loop = "select" /\ mu \in Senders \cup {NoOne}
  BY <1>1 DEF Init
<1> QED
  BY <1>3, <1>4, <1>5, <1>6, <1>7 DEF TypeInv, TypeOK

\* Every step keeps the types.
LEMMA TypeStep == TypeInv /\ [Next]_vars => TypeInv'
<1> SUFFICES ASSUME TypeInv, [Next]_vars PROVE TypeInv'
  OBVIOUS
<1> USE BufAssumption, MaxSendsAssumption DEF TypeInv
<1>1. ASSUME NEW s \in Senders, SendFast(s) PROVE TypeInv'
  <2>1. calls[s] + 1 \in 0..MaxSends /\ calls[s] + 1 > 0
    BY <1>1 DEF TypeOK, SendFast
  <2>2. calls' \in [Senders -> 0..MaxSends] /\ calls'[s] > 0
    BY <1>1, <2>1 DEF TypeOK, SendFast
  <2> QED
    BY <1>1, <2>2 DEF TypeOK, Started, SendFast, Return, SendPcs, Results,
                      chanVars, loopVars, history
<1>2. ASSUME NEW s \in Senders, SendLock(s) PROVE TypeInv'
  BY <1>2 DEF TypeOK, Started, SendLock, SendPcs, chanVars, loopVars, history
<1>3. ASSUME NEW s \in Senders, SendCheck(s) PROVE TypeInv'
  BY <1>3 DEF TypeOK, Started, SendCheck, Return, SendPcs, Results,
              chanVars, loopVars, history
<1>4. ASSUME NEW s \in Senders, SendPush(s) PROVE TypeInv'
  <2>1. <<s, calls[s]>> \in Frame
    <3>1. calls[s] \in 0..MaxSends /\ calls[s] > 0
      BY <1>4 DEF TypeOK, Started, SendPush, Full, Overflow
    <3> QED
      BY <3>1 DEF Frame
  <2>2. ch' \in Seq(Frame) /\ Len(ch') <= Buf /\ accepted' \in Seq(Frame)
    <3>1. CASE Len(ch) < Buf
      <4>1. ch' = Append(ch, <<s, calls[s]>>) /\ accepted' = Append(accepted, <<s, calls[s]>>)
        BY <1>4, <3>1 DEF SendPush, Full, Overflow, TypeOK
      <4>2. Len(ch) \in Nat /\ Buf \in Nat
        BY LenProperties DEF TypeOK
      <4>3. ch \in Seq(Frame) /\ accepted \in Seq(Frame)
        BY DEF TypeOK
      <4>4. ch' \in Seq(Frame) /\ Len(ch') = Len(ch) + 1 /\ accepted' \in Seq(Frame)
        BY <2>1, <4>1, <4>3, AppendTyped
      <4> QED
        BY <3>1, <4>2, <4>4
    <3>2. CASE ~(Len(ch) < Buf)
      BY <1>4, <3>2 DEF SendPush, Full, Overflow, TypeOK
    <3> QED
      BY <3>1, <3>2
  <2> QED
    BY <1>4, <2>2
    DEF TypeOK, Started, SendPush, Full, Overflow, Return, SendPcs, Results,
        loopVars
<1>5. CASE LoopTake
  <2>1. /\ Head(ch) \in Frame /\ Tail(ch) \in Seq(Frame)
        /\ Len(Tail(ch)) = Len(ch) - 1
    BY <1>5, SplitHead DEF TypeOK, LoopTake
  <2>2. <<Head(ch)>> \in Seq(Frame) /\ Len(<<Head(ch)>>) = 1
    BY <2>1
  <2>3. ch \in Seq(Frame) => Len(ch) \in Nat
    BY LenProperties
  <2> QED
    BY <1>5, <2>1, <2>2, <2>3 DEF TypeOK, Started, LoopTake, sendVars, history
<1>6. CASE LoopSend
  <2>1. processed' \in Seq(Frame)
    BY <1>6, ConcatTyped DEF TypeOK, LoopSend
  <2>2. <<>> \in Seq(Frame) /\ Len(<<>>) = 0
    BY EmptySeq
  <2> QED
    BY <1>6, <2>1, <2>2 DEF TypeOK, Started, LoopSend, sendVars, chanVars
<1>7. CASE LoopExit
  BY <1>7 DEF TypeOK, Started, LoopExit, sendVars, chanVars, history
<1>8. ASSUME NEW k \in Closers, CloseSwap(k) PROVE TypeInv'
  BY <1>8 DEF TypeOK, Started, CloseSwap, ClosePcs, sendVars, chanVars, loopVars, history
<1>9. ASSUME NEW k \in Closers, CloseCancel(k) PROVE TypeInv'
  BY <1>9 DEF TypeOK, Started, CloseCancel, ClosePcs, sendVars, chanVars, loopVars, history
<1>10. ASSUME NEW k \in Closers, CloseChannel(k) PROVE TypeInv'
  BY <1>10 DEF TypeOK, Started, CloseChannel, ClosePcs, sendVars, loopVars, history
<1>11. ASSUME NEW k \in Closers, CloseWait(k) PROVE TypeInv'
  BY <1>11 DEF TypeOK, Started, CloseWait, ClosePcs, sendVars, chanVars, loopVars, history
<1>12. CASE ParentCancel
  BY <1>12 DEF TypeOK, Started, ParentCancel, sendVars, chanVars, loopVars, history
<1>13. CASE UNCHANGED vars
  BY <1>13 DEF TypeOK, Started, vars
<1> QED
  BY <1>1, <1>2, <1>3, <1>4, <1>5, <1>6, <1>7, <1>8, <1>9, <1>10, <1>11,
     <1>12, <1>13 DEF Next

\* Every variable of AsyncTx keeps its type: in particular the channel never
\* holds more than Buf frames and the worker has at most one frame in hand.
THEOREM Typing == Spec => []TypeOK
<1>1. TypeInv => TypeOK
  BY DEF TypeInv
<1> QED
  BY <1>1, TypeInit, TypeStep, PTL DEF Spec

-----------------------------------------------------------------------------
PanicInv == LockInv /\ CloseInv /\ NoPanic

\* NewAsyncTx starts with an open channel and no panic.
LEMMA PanicInit == Init => PanicInv
BY NoOneAssumption
   DEF Init, PanicInv, LockInv, CloseInv, NoPanic, Winner

\* No step closes a closed channel or sends on one.
LEMMA PanicStep == TypeInv /\ PanicInv /\ [Next]_vars => PanicInv'
<1> SUFFICES ASSUME TypeInv, PanicInv, [Next]_vars PROVE PanicInv'
  OBVIOUS
<1> USE NoOneAssumption DEF TypeInv, PanicInv, LockInv, CloseInv, NoPanic, Winner
<1>1. ASSUME NEW s \in Senders, SendFast(s) PROVE PanicInv'
  BY <1>1 DEF TypeOK, SendFast, Return, chanVars, loopVars
<1>2. ASSUME NEW s \in Senders, SendLock(s) PROVE PanicInv'
  BY <1>2 DEF TypeOK, SendLock, chanVars, loopVars
<1>3. ASSUME NEW s \in Senders, SendCheck(s) PROVE PanicInv'
  BY <1>3 DEF TypeOK, SendCheck, Return, chanVars, loopVars
<1>4. ASSUME NEW s \in Senders, SendPush(s) PROVE PanicInv'
  BY <1>4 DEF TypeOK, SendPush, Full, Overflow, Return, loopVars
<1>5. CASE LoopTake
  BY <1>5 DEF TypeOK, LoopTake, sendVars
<1>6. CASE LoopSend
  BY <1>6 DEF TypeOK, LoopSend, sendVars, chanVars
<1>7. CASE LoopExit
  BY <1>7 DEF TypeOK, LoopExit, sendVars, chanVars
<1>8. ASSUME NEW k \in Closers, CloseSwap(k) PROVE PanicInv'
  BY <1>8 DEF TypeOK, CloseSwap, sendVars, chanVars, loopVars
<1>9. ASSUME NEW k \in Closers, CloseCancel(k) PROVE PanicInv'
  BY <1>9 DEF TypeOK, CloseCancel, sendVars, chanVars, loopVars
<1>10. ASSUME NEW k \in Closers, CloseChannel(k) PROVE PanicInv'
  BY <1>10 DEF TypeOK, CloseChannel, sendVars, loopVars
<1>11. ASSUME NEW k \in Closers, CloseWait(k) PROVE PanicInv'
  BY <1>11 DEF TypeOK, CloseWait, sendVars, chanVars, loopVars
<1>12. CASE ParentCancel
  BY <1>12 DEF TypeOK, ParentCancel, sendVars, chanVars, loopVars
<1>13. CASE UNCHANGED vars
  BY <1>13 DEF TypeOK, vars
<1> QED
  BY <1>1, <1>2, <1>3, <1>4, <1>5, <1>6, <1>7, <1>8, <1>9, <1>10, <1>11,
     <1>12, <1>13 DEF Next

\* SendFrame never sends on the closed channel and Close closes it once, for
\* any number of goroutines: neither can panic.
THEOREM NeverPanics == Spec => []NoPanic
<1>1. PanicInv => NoPanic
  BY DEF PanicInv
<1> QED
  BY <1>1, TypeInit, TypeStep, PanicInit, PanicStep, PTL DEF Spec

\* After the stopping Close has returned the device is given no more frames.
THEOREM ClosedIsQuiet == Spec => QuietAfterClose
<1>1. TypeInv /\ PanicInv /\ [Next]_vars =>
        [(\E k \in Closers : closePc[k] = "returned")
            => UNCHANGED <<processed, loop>>]_vars
  BY DEF TypeInv, TypeOK, PanicInv, CloseInv, Next, SendFast, SendLock, SendCheck,
         SendPush, Full, Overflow, LoopTake, LoopSend, LoopExit, CloseSwap,
         CloseCancel, CloseChannel, CloseWait, ParentCancel, loopVars, history,
         vars
<1> QED
  BY <1>1, TypeInit, TypeStep, PanicInit, PanicStep, PTL
     DEF Spec, QuietAfterClose

-----------------------------------------------------------------------------
\* Every step keeps the funnel first in, first out.
LEMMA FifoStep == TypeInv /\ FifoFunnel /\ [Next]_vars => FifoFunnel'
<1> SUFFICES ASSUME TypeInv, FifoFunnel, [Next]_vars PROVE FifoFunnel'
  OBVIOUS
<1> USE DEF FifoFunnel
<1>0. /\ ch \in Seq(Frame) /\ cur \in Seq(Frame)
      /\ processed \in Seq(Frame) /\ accepted \in Seq(Frame)
  BY DEF TypeInv, TypeOK
<1>1. ASSUME NEW s \in Senders, SendPush(s) PROVE FifoFunnel'
  <2> DEFINE f == <<s, calls[s]>>
  <2>1. CASE UNCHANGED <<ch, accepted>>
    BY <1>1, <2>1 DEF SendPush, Full, Overflow, loopVars
  <2>2. CASE ch' = Append(ch, f) /\ accepted' = Append(accepted, f)
    <3>1. f \in Frame
      <4>1. calls[s] \in 0..MaxSends /\ calls[s] > 0
        BY <1>1 DEF TypeInv, TypeOK, Started, SendPush, Full, Overflow
      <4> QED
        BY <4>1, MaxSendsAssumption DEF Frame
    <3> HIDE DEF f
    <3>2. <<f>> \in Seq(Frame)
      BY <3>1
    <3>3. accepted' = (processed \o cur \o ch) \o <<f>>
      BY <1>0, <2>2, <3>1, AppendTyped
    <3>4. (processed \o cur \o ch) \o <<f>> = (processed \o cur) \o (ch \o <<f>>)
      BY <1>0, <3>2, ConcatTyped, ConcatAssoc
    <3>5. ch' = ch \o <<f>>
      BY <1>0, <2>2, <3>1, AppendTyped
    <3>6. processed' = processed /\ cur' = cur
      BY <1>1 DEF SendPush, Full, Overflow, loopVars
    <3> QED
      BY <3>3, <3>4, <3>5, <3>6
  <2> QED
    BY <1>1, <2>1, <2>2 DEF SendPush, Full, Overflow
<1>2. CASE LoopTake
  <2>1. cur = <<>>
    BY <1>0, <1>2, EmptySeq DEF TypeInv, TypeOK, LoopTake
  <2>2. /\ <<Head(ch)>> \o Tail(ch) = ch /\ Head(ch) \in Frame
        /\ Tail(ch) \in Seq(Frame)
    BY <1>0, <1>2, SplitHead DEF LoopTake
  <2>3. <<Head(ch)>> \in Seq(Frame)
    BY <2>2
  <2>4. processed \o cur = processed
    BY <1>0, <2>1, ConcatTyped
  <2>5. (processed \o <<Head(ch)>>) \o Tail(ch) = processed \o ch
    BY <1>0, <2>2, <2>3, ConcatAssoc
  <2> QED
    BY <1>2, <2>4, <2>5 DEF LoopTake, history
<1>3. CASE LoopSend
  <2>1. processed \o cur \in Seq(Frame)
    BY <1>0, ConcatTyped
  <2>2. (processed \o cur) \o <<>> = processed \o cur
    BY <2>1, ConcatTyped
  <2> QED
    BY <1>3, <2>2 DEF LoopSend, chanVars
<1>4. CASE UNCHANGED <<ch, cur, accepted, processed>>
  BY <1>4
<1> QED
  BY <1>1, <1>2, <1>3, <1>4
     DEF Next, vars, SendFast, SendLock, SendCheck, LoopExit, CloseSwap, CloseCancel,
         CloseChannel, CloseWait, ParentCancel, chanVars, loopVars, history

\* Inside the funnel no accepted frame is lost, duplicated or reordered.
THEOREM FunnelIsFifo == Spec => []FifoFunnel
<1>1. Init => FifoFunnel
  BY ConcatTyped, EmptySeq DEF Init, FifoFunnel
<1> QED
  BY <1>1, TypeInit, TypeStep, FifoStep, PTL DEF Spec

-----------------------------------------------------------------------------
\* An appended frame is held, and nothing else is new.
LEMMA HoldsAppend ==
    ASSUME NEW S, NEW p \in Seq(S), NEW x \in S, NEW y
    PROVE  Holds(Append(p, x), y) <=> Holds(p, y) \/ x = y
<1>1. /\ Len(p) \in Nat /\ Len(Append(p, x)) = Len(p) + 1
      /\ \A i \in 1..Len(p) : Append(p, x)[i] = p[i]
      /\ Append(p, x)[Len(p) + 1] = x
  BY AppendProperties, LenProperties
<1>2. DOMAIN p = 1..Len(p) /\ DOMAIN Append(p, x) = 1..(Len(p) + 1)
  BY <1>1, AppendProperties, LenProperties
<1> QED
  BY <1>1, <1>2 DEF Holds

HonestInv == CallInv /\ HonestResult

\* No caller has a result before it has called SendFrame.
LEMMA HonestInit == Init => HonestInv
<1> SUFFICES ASSUME Init PROVE HonestInv
  OBVIOUS
<1>1. \A f : ~Holds(accepted, f)
  BY DEF Init, Holds
<1> QED
  BY <1>1 DEF Init, HonestInv, CallInv, HonestResult

\* A result is given once, by the step that earned it.
LEMMA HonestStep == TypeInv /\ HonestInv /\ [Next]_vars => HonestInv'
<1> SUFFICES ASSUME TypeInv, HonestInv, [Next]_vars PROVE HonestInv'
  OBVIOUS
<1> USE MaxSendsAssumption
<1>0. \A s \in Senders : calls[s] \in Nat
  BY DEF TypeInv, TypeOK
<1>1. ASSUME NEW s \in Senders, SendFast(s) PROVE HonestInv'
  <2>1. /\ calls'[s] = calls[s] + 1 /\ accepted' = accepted
        /\ \A t \in Senders \ {s} : /\ calls'[t] = calls[t]
                                     /\ sendPc'[t] = sendPc[t]
                                     /\ result'[t] = result[t]
    BY <1>1 DEF TypeInv, TypeOK, SendFast, Return, history
  <2>2. ~Holds(accepted, <<s, calls[s] + 1>>)
    <3>1. calls[s] + 1 \in Nat /\ ~(calls[s] + 1 <= calls[s])
      BY <1>0
    <3> QED
      BY <3>1 DEF HonestInv, CallInv
  <2>3. sendPc'[s] = "idle" => result'[s] = "closed"
    BY <1>1 DEF TypeInv, TypeOK, SendFast, Return
  <2>4. CallInv'
    BY <1>0, <2>1, <2>2 DEF HonestInv, CallInv, Holds
  <2>5. HonestResult'
    BY <2>1, <2>2, <2>3 DEF HonestInv, HonestResult, Holds
  <2> QED
    BY <2>4, <2>5 DEF HonestInv
<1>2. ASSUME NEW s \in Senders, SendLock(s) PROVE HonestInv'
  BY <1>2 DEF TypeInv, TypeOK, SendLock, HonestInv, CallInv, HonestResult, Holds, history
<1>3. ASSUME NEW s \in Senders, SendCheck(s) PROVE HonestInv'
  BY <1>3 DEF TypeInv, TypeOK, SendCheck, Return, HonestInv, CallInv, HonestResult,
              Holds, history
<1>4. ASSUME NEW s \in Senders, SendPush(s) PROVE HonestInv'
  <2> DEFINE f == <<s, calls[s]>>
  <2>1. f \in Frame /\ calls[s] > 0
    <3>1. calls[s] \in 0..MaxSends /\ calls[s] > 0
      BY <1>4 DEF TypeInv, TypeOK, Started, SendPush, Full, Overflow
    <3> QED
      BY <3>1 DEF Frame
  <2>2. /\ calls' = calls /\ sendPc'[s] = "idle"
        /\ \A t \in Senders \ {s} : sendPc'[t] = sendPc[t] /\ result'[t] = result[t]
    BY <1>4 DEF TypeInv, TypeOK, SendPush, Full, Overflow, Return
  <2>3. CASE accepted' = Append(accepted, f) /\ result'[s] = "nil"
    <3>1. \A g : Holds(accepted, g)' <=> Holds(accepted, g) \/ f = g
      <4> TAKE g
      <4> HIDE DEF f
      <4>1. accepted \in Seq(Frame)
        BY DEF TypeInv, TypeOK
      <4>2. Holds(Append(accepted, f), g) <=> Holds(accepted, g) \/ f = g
        BY <2>1, <4>1, HoldsAppend
      <4>3. Holds(accepted, g)' <=> Holds(Append(accepted, f), g)
        BY <2>3 DEF Holds
      <4> QED
        BY <4>2, <4>3
    <3>2. \A t \in Senders, n \in Nat : f = <<t, n>> <=> t = s /\ n = calls[s]
      OBVIOUS
    <3>3. CallInv'
      BY <1>0, <2>2, <3>1, <3>2 DEF HonestInv, CallInv
    <3>4. HonestResult'
      BY <1>0, <2>2, <2>3, <3>1, <3>2 DEF HonestInv, HonestResult
    <3> QED
      BY <3>3, <3>4 DEF HonestInv
  <2>4. CASE accepted' = accepted /\ result'[s] = "overflow"
    <3>1. ~Holds(accepted, f)
      BY <1>4 DEF SendPush, Full, Overflow, HonestInv, CallInv
    <3> QED
      BY <2>2, <2>4, <3>1 DEF HonestInv, CallInv, HonestResult, Holds
  <2> QED
    BY <1>4, <2>3, <2>4 DEF TypeInv, TypeOK, SendPush, Full, Overflow, Return
<1>5. CASE UNCHANGED <<sendPc, calls, result, accepted>>
  BY <1>5 DEF HonestInv, CallInv, HonestResult, Holds
<1> QED
  BY <1>1, <1>2, <1>3, <1>4, <1>5
     DEF Next, vars, LoopTake, LoopSend, LoopExit, CloseSwap, CloseCancel,
         CloseChannel, CloseWait, ParentCancel, sendVars, history

\* SendFrame's result is nil exactly when the frame of the call was queued.
THEOREM ResultsAreHonest == Spec => []HonestResult
<1>1. HonestInv => HonestResult
  BY DEF HonestInv
<1> QED
  BY <1>1, TypeInit, TypeStep, HonestInit, HonestStep, PTL DEF Spec

-----------------------------------------------------------------------------
(***************************************************************************)
(* Refinement: a frame enters the abstract queue with SendPush and leaves   *)
(* it with LoopSend; LoopTake only moves it from the channel into the       *)
(* worker's hand.                                                           *)
(***************************************************************************)
LEMMA SinkStep == TypeInv /\ PanicInv /\ [Next]_vars => [Sink!Next]_(Sink!vars)
<1> SUFFICES ASSUME TypeInv, PanicInv, [Next]_vars
             PROVE  [Sink!Next]_(Sink!vars)
  OBVIOUS
<1> USE BufAssumption
<1>0. /\ ch \in Seq(Frame) /\ cur \in Seq(Frame) /\ processed \in Seq(Frame)
      /\ Len(ch) \in Nat /\ Len(ch) <= Buf /\ Len(cur) \in Nat /\ Len(cur) <= 1
  BY LenProperties DEF TypeInv, TypeOK
<1>1. ASSUME NEW s \in Senders, SendPush(s) PROVE [Sink!Next]_(Sink!vars)
  <2> DEFINE f == <<s, calls[s]>>
  <2>0. processed' = processed /\ cur' = cur /\ loop' = loop /\ chClosed' = chClosed
    BY <1>1 DEF SendPush, Full, Overflow, loopVars
  <2>1. CASE ch' = ch
    BY <2>0, <2>1 DEF Sink!vars
  <2>2. CASE Len(ch) < Buf /\ ch' = Append(ch, f)
    <3>1. f \in Frame
      <4>1. calls[s] \in 0..MaxSends /\ calls[s] > 0
        BY <1>1 DEF TypeInv, TypeOK, Started, SendPush, Full, Overflow
      <4> QED
        BY <4>1, MaxSendsAssumption DEF Frame
    <3>2. ~chClosed
      BY <1>1 DEF SendPush, Full, Overflow, PanicInv, NoPanic
    <3> HIDE DEF f
    <3>3. <<f>> \in Seq(Frame)
      BY <3>1
    <3>4. cur \o ch \in Seq(Frame) /\ Len(cur \o ch) = Len(cur) + Len(ch)
      BY <1>0, ConcatTyped
    <3>5. Len(cur \o ch) < Buf + 1
      <4>1. \A a, b \in Nat : a <= 1 /\ b < Buf => a + b < Buf + 1
        OBVIOUS
      <4> QED
        BY <1>0, <2>2, <3>4, <4>1
    <3>6. cur' \o ch' = Append(cur \o ch, f)
      <4>1. ch' = ch \o <<f>> /\ Append(cur \o ch, f) = (cur \o ch) \o <<f>>
        BY <1>0, <2>2, <3>1, <3>4, AppendTyped
      <4>2. (cur \o ch) \o <<f>> = cur \o (ch \o <<f>>)
        BY <1>0, <3>3, ConcatAssoc
      <4> QED
        BY <2>0, <4>1, <4>2
    <3>7. Sink!Accept(f)
      BY <2>0, <3>2, <3>5, <3>6 DEF Sink!Accept
    <3> QED
      BY <3>1, <3>7 DEF Sink!Next
  <2> QED
    BY <1>1, <2>1, <2>2 DEF SendPush, Full, Overflow
<1>2. CASE LoopTake
  <2>1. cur = <<>>
    BY <1>0, <1>2, EmptySeq DEF TypeInv, TypeOK, LoopTake
  <2>2. <<Head(ch)>> \o Tail(ch) = ch
    BY <1>0, <1>2, SplitHead DEF LoopTake
  <2>3. <<>> \o ch = ch
    BY <1>0, ConcatTyped
  <2>4. cur' \o ch' = cur \o ch
    BY <1>2, <2>1, <2>2, <2>3 DEF LoopTake
  <2> QED
    BY <1>2, <2>4 DEF LoopTake, Sink!vars, history
<1>3. CASE LoopSend
  <2>1. PICK f \in Frame : cur = <<f>>
    <3>1. Len(cur) = 1
      BY <1>3 DEF TypeInv, TypeOK, LoopSend
    <3>2. cur[1] \in Frame /\ cur = <<cur[1]>>
      BY <1>0, <3>1, LenProperties
    <3> QED
      BY <3>2
  <2>2. Head(cur \o ch) = f /\ Tail(cur \o ch) = ch /\ cur \o ch # <<>>
    <3>1. <<f>> \o ch \in Seq(Frame) /\ Len(<<f>> \o ch) = 1 + Len(ch)
      BY <1>0, ConcatProperties
    <3>2. (<<f>> \o ch)[1] = f
      BY <1>0, ConcatProperties
    <3>3. \A i \in 1..Len(ch) : (<<f>> \o ch)[i + 1] = ch[i]
      BY <1>0, ConcatProperties
    <3>4. <<f>> \o ch # <<>>
      BY <1>0, <3>1, EmptySeq
    <3>5. Tail(<<f>> \o ch) = ch
      BY <1>0, <3>1, <3>3, <3>4, HeadTailProperties, SeqEqual
    <3>6. Head(<<f>> \o ch) = f
      BY <3>1, <3>2, <3>4, HeadTailProperties
    <3> QED
      BY <2>1, <3>4, <3>5, <3>6
  <2>3. processed \o cur = Append(processed, f)
    BY <1>0, <2>1, AppendTyped
  <2>4. <<>> \o ch = ch
    BY <1>0, ConcatTyped
  <2>5. Sink!HandOver
    BY <1>3, <2>2, <2>3, <2>4 DEF Sink!HandOver, LoopSend, chanVars
  <2> QED
    BY <2>5 DEF Sink!Next
<1>4. CASE LoopExit
  <2>1. Sink!Stop
    BY <1>4 DEF LoopExit, Sink!Stop, chanVars, history
  <2> QED
    BY <2>1 DEF Sink!Next
<1>5. ASSUME NEW k \in Closers, CloseChannel(k) PROVE [Sink!Next]_(Sink!vars)
  <2>1. Sink!Refuse
    BY <1>5 DEF CloseChannel, Sink!Refuse, loopVars, history
  <2> QED
    BY <2>1 DEF Sink!Next
<1>6. CASE UNCHANGED <<ch, chClosed, loop, cur, processed>>
  BY <1>6 DEF Sink!vars
<1> QED
  BY <1>1, <1>2, <1>3, <1>4, <1>5, <1>6
     DEF Next, vars, SendFast, SendLock, SendCheck, CloseSwap, CloseCancel,
         CloseWait, ParentCancel, chanVars, loopVars, history

\* AsyncTx implements the bounded queue its callers rely on, for every
\* capacity, every number of callers and every interleaving.
THEOREM RefinesSink == Spec => ImplementsSink
<1>1. Init => Sink!Init
  BY ConcatTyped, EmptySeq DEF Init, Sink!Init
<1> QED
  BY <1>1, TypeInit, TypeStep, PanicInit, PanicStep, SinkStep, PTL
     DEF Spec, ImplementsSink, Sink!Spec
=============================================================================
