-------------------------------- MODULE Hub --------------------------------
(***************************************************************************)
(* hub.Hub as its users see it: a registry of clients, each with a bounded  *)
(* queue Out and a one-shot signal Closed, and one goroutine (the backend's *)
(* receive loop) that broadcasts frames without ever waiting for a client.  *)
(* The operations are at the grain of the critical sections of hub.go; the  *)
(* HubSteps module refines them with the code's unlocked steps.  Server     *)
(* extends this module and calls its operations.                            *)
(*                                                                          *)
(* Frames are numbered in the order in which they are broadcast.            *)
(***************************************************************************)
EXTENDS Naturals, Sequences, FiniteSets

CONSTANTS Clients,      \* the clients that may ever connect
          OutBufSize,   \* capacity of a client's Out channel
          Policies,     \* the back-pressure policies a run considers
          MaxFrames     \* bound: frames broadcast

ASSUME OutBufAssumption == OutBufSize \in Nat \ {0}
ASSUME PoliciesAssumption == Policies \subseteq {"drop", "kick"}
ASSUME MaxFramesAssumption == MaxFrames \in Nat

VARIABLES
    clients,    \* h.clients
    policy,     \* h.Policy, set once by initHub
    out,        \* out[c]: frames queued in c.Out
    closed,     \* clients whose Closed channel is closed
    frame,      \* number of the last frame passed to Broadcast
    todo        \* clients of the running Broadcast's snapshot still to serve

hubVars == <<clients, policy, out, closed, frame, todo>>

HubInit ==
    /\ clients = {}
    /\ policy \in Policies
    /\ out = [c \in Clients |-> <<>>]
    /\ closed = {}
    /\ frame = 0
    /\ todo = {}

HubTypeOK ==
    /\ clients \subseteq Clients
    /\ policy \in Policies
    /\ out \in [Clients -> Seq(1..MaxFrames)]
    /\ \A c \in Clients : Len(out[c]) <= OutBufSize
    /\ closed \subseteq Clients
    /\ frame \in 0..MaxFrames
    /\ todo \subseteq Clients

Add(c) ==
    /\ clients' = clients \cup {c}
    /\ UNCHANGED <<policy, out, closed, frame, todo>>

\* Unregister and signal Closed; harmless when repeated.
Remove(c) ==
    /\ clients' = clients \ {c}
    /\ closed' = closed \cup {c}
    /\ UNCHANGED <<policy, out, frame, todo>>

Count == Cardinality(clients)

\* Broadcast takes its snapshot; the receive loop runs one Broadcast at a time.
BroadcastStart ==
    /\ todo = {}
    /\ frame < MaxFrames
    /\ frame' = frame + 1
    /\ todo' = clients
    /\ UNCHANGED <<clients, policy, out, closed>>

\* Faulty variant: the send has no default case.
Wait(c) == FALSE

\* The default case of the send: the queue is full, and the policy decides.
Refused(c) ==
    /\ Len(out[c]) >= OutBufSize
    /\ closed' = IF policy = "kick" THEN closed \cup {c} ELSE closed
    /\ UNCHANGED out

\* One turn of the send loop, in the random order of the map.
BroadcastTo(c) ==
    /\ c \in todo
    /\ todo' = todo \ {c}
    /\ \/ /\ Len(out[c]) < OutBufSize
          /\ out' = [out EXCEPT ![c] = Append(@, frame)]
          /\ UNCHANGED closed
       \/ Refused(c)
    /\ UNCHANGED <<clients, policy, frame>>

\* The receive from c.Out, by the client's writer.
Recv(c) ==
    /\ out[c] # <<>>
    /\ out' = [out EXCEPT ![c] = Tail(@)]
    /\ UNCHANGED <<clients, policy, closed, frame, todo>>

HubNext ==
    \/ \E c \in Clients : Add(c) \/ Remove(c) \/ BroadcastTo(c) \/ Recv(c)
    \/ BroadcastStart

HubSpec == HubInit /\ [][HubNext]_hubVars

-----------------------------------------------------------------------------
StrictlyIncreasing(s) == \A i, j \in DOMAIN s : i < j => s[i] < s[j]
=============================================================================
