----------------------------- MODULE FrameSink -----------------------------
(***************************************************************************)
(* What a transmitter of CAN frames promises to the goroutines that hand    *)
(* it frames: a bounded queue in front of a device.  A frame it takes is    *)
(* handed to the device in the order of acceptance, once, or is stranded    *)
(* when the sink stops; a sink that refuses once refuses for ever.          *)
(* AsyncTx implements this specification.                                   *)
(***************************************************************************)
EXTENDS Naturals, Sequences

CONSTANTS Frame,        \* the frames callers may offer
          Capacity      \* how many taken frames may await the device

VARIABLES queue,        \* frames taken and not yet handed to the device
          handed,       \* every frame handed to the device, in order
          accepting,    \* the sink still takes frames
          running       \* the sink still hands frames over

vars == <<queue, handed, accepting, running>>

Init ==
    /\ queue = <<>>
    /\ handed = <<>>
    /\ accepting = TRUE
    /\ running = TRUE

Accept(f) ==
    /\ accepting
    /\ Len(queue) < Capacity
    /\ queue' = Append(queue, f)
    /\ UNCHANGED <<handed, accepting, running>>

HandOver ==
    /\ running
    /\ queue # <<>>
    /\ handed' = Append(handed, Head(queue))
    /\ queue' = Tail(queue)
    /\ UNCHANGED <<accepting, running>>

Refuse == /\ accepting' = FALSE
          /\ UNCHANGED <<queue, handed, running>>

Stop == /\ running' = FALSE
        /\ UNCHANGED <<queue, handed, accepting>>

Next == \/ \E f \in Frame : Accept(f)
        \/ HandOver
        \/ Refuse
        \/ Stop

Spec == Init /\ [][Next]_vars
=============================================================================
