------------------------------ MODULE HubSteps ------------------------------
(***************************************************************************)
(* hub.Hub step by step: what hub.go does inside and outside its lock, the  *)
(* closeOnce of a client, and the counters of dropped and kicked frames.    *)
(* Four kinds of goroutine use it: the accept loop adds clients, the        *)
(* backend's receive loop broadcasts and kicks, each client's writer        *)
(* receives and finally removes its client, and Shutdown removes clients    *)
(* too.  The gauges (clients, fan-out, queue depth) are not represented.    *)
(***************************************************************************)
EXTENDS Integers, Sequences, FiniteSets, Functions

CONSTANTS Clients, OutBufSize, MaxFrames

ASSUME ClientsAssumption == IsFiniteSet(Clients)
ASSUME OutBufAssumption == OutBufSize \in Nat \ {0}
ASSUME MaxFramesAssumption == MaxFrames \in Nat

\* The goroutines that call Remove, and those that call Close.
Removers == {"writer", "shutdown"}
Closers == Removers \cup {"kick"}

VARIABLES
    clients, policy, out, frame, todo,  \* as in Hub
    added,      \* the clients for which Add has been called
    once,       \* once[c]: c.closeOnce is "new", "busy" in its function, or "done"
    closes,     \* closes[c]: how often close(c.Closed) has been executed
    at,         \* at[c][w]: where w is in Remove(c) or in Close
    drops,      \* metrics: hub_dropped_frames_total
    kicks,      \* metrics: hub_kicked_clients_total
    rcvd,       \* history: rcvd[c], the frames c's writer received
    offered     \* history: offered[c], the frames Broadcast tried to queue

vars == <<clients, policy, out, frame, todo, added, once, closes, at, drops,
          kicks, rcvd, offered>>

IsClosed(c) == closes[c] > 0

Init ==
    /\ clients = {} /\ added = {}
    /\ policy \in {"drop", "kick"}
    /\ out = [c \in Clients |-> <<>>]
    /\ frame = 0 /\ todo = {}
    /\ once = [c \in Clients |-> "new"]
    /\ closes = [c \in Clients |-> 0]
    /\ at = [c \in Clients |-> [w \in Closers |-> "idle"]]
    /\ drops = 0 /\ kicks = 0
    /\ rcvd = [c \in Clients |-> <<>>] /\ offered = [c \in Clients |-> 0]

Add(c) ==
    /\ c \notin added
    /\ added' = added \cup {c}
    /\ clients' = clients \cup {c}
    /\ UNCHANGED <<policy, out, frame, todo, once, closes, at, drops, kicks, rcvd,
                   offered>>

-----------------------------------------------------------------------------
(***************************************************************************)
(* Client.Close: closeOnce.Do(func() { close(c.Closed) }).  The first       *)
(* caller runs the function; a caller that comes while it runs waits.       *)
(***************************************************************************)
Goto(c, w, here, there) ==
    /\ at[c][w] = here
    /\ at' = [at EXCEPT ![c][w] = there]
    /\ UNCHANGED <<policy, out, frame, todo, added, drops, kicks, rcvd, offered>>

\* Close has returned: Remove is at its end, Broadcast goes on.
Returned(w) == IF w = "kick" THEN "idle" ELSE "done"

\* Faulty variant: whether Close has been done is looked up without the mutex.
NotDone(c) == once[c] # "done"

\* What Do asks for before it runs the function.
MayRun(c) == once[c] = "new"

CloseEnter(c, w) ==
    /\ MayRun(c)
    /\ Goto(c, w, "close", "closing")
    /\ once' = [once EXCEPT ![c] = "busy"]
    /\ UNCHANGED <<clients, closes>>

CloseRun(c, w) ==
    /\ Goto(c, w, "closing", Returned(w))
    /\ closes' = [closes EXCEPT ![c] = @ + 1]
    /\ once' = [once EXCEPT ![c] = "done"]
    /\ UNCHANGED clients

CloseAgain(c, w) ==
    /\ once[c] = "done"
    /\ Goto(c, w, "close", Returned(w))
    /\ UNCHANGED <<clients, once, closes>>

Close(c, w) == CloseEnter(c, w) \/ CloseRun(c, w) \/ CloseAgain(c, w)

-----------------------------------------------------------------------------
(***************************************************************************)
(* Remove: the locked part, the check of Closed, Close.                     *)
(***************************************************************************)

\* Shutdown removes one client after the other.
MayRemove(w) ==
    w = "shutdown" => \A c \in Clients : at[c][w] \in {"idle", "done"}

RemoveLocked(c, w) ==
    /\ c \in added /\ MayRemove(w)
    /\ Goto(c, w, "idle", "check")
    /\ clients' = clients \ {c}
    /\ UNCHANGED <<once, closes>>

\* select { case <-c.Closed: default: c.Close() }
RemoveCheck(c, w) ==
    /\ Goto(c, w, "check", IF IsClosed(c) THEN "done" ELSE "close")
    /\ UNCHANGED <<clients, once, closes>>

-----------------------------------------------------------------------------
(***************************************************************************)
(* Broadcast: a snapshot, then one non-blocking send after the other.       *)
(***************************************************************************)

\* The receive loop is not inside the Close of a kick.
NoKick == \A c \in Clients : at[c]["kick"] = "idle"

Snapshot ==
    /\ todo = {} /\ NoKick /\ frame < MaxFrames
    /\ frame' = frame + 1
    /\ todo' = clients
    /\ UNCHANGED <<clients, policy, out, added, once, closes, at, drops, kicks, rcvd,
                   offered>>

\* Faulty variant: the newest frame goes to the front of the queue.
QueueFront(c) ==
    /\ Len(out[c]) < OutBufSize
    /\ out' = [out EXCEPT ![c] = <<frame>> \o @]
    /\ UNCHANGED <<at, drops, kicks>>

\* c.Out <- fr
Queue(c) ==
    /\ Len(out[c]) < OutBufSize
    /\ out' = [out EXCEPT ![c] = Append(@, frame)]
    /\ UNCHANGED <<at, drops, kicks>>

Kick(c) ==
    /\ kicks' = kicks + 1
    /\ at' = [at EXCEPT ![c]["kick"] = "close"]
    /\ UNCHANGED drops

\* Faulty variant: the frames of a client that is leaving do not count.
DropUnlessClosed(c) ==
    /\ drops' = IF IsClosed(c) THEN drops ELSE drops + 1
    /\ UNCHANGED <<at, kicks>>

Drop(c) == drops' = drops + 1 /\ UNCHANGED <<at, kicks>>

\* The queue is full: the policy decides.
Refuse(c) ==
    /\ Len(out[c]) >= OutBufSize
    /\ IF policy = "kick" THEN Kick(c) ELSE Drop(c)
    /\ UNCHANGED out

BroadcastSend(c) ==
    /\ c \in todo /\ NoKick
    /\ todo' = todo \ {c}
    /\ offered' = [offered EXCEPT ![c] = @ + 1]
    /\ Queue(c) \/ Refuse(c)
    /\ UNCHANGED <<clients, policy, frame, added, once, closes, rcvd>>

\* The writer of c receives until it has called Remove.
Recv(c) ==
    /\ c \in added /\ at[c]["writer"] = "idle"
    /\ out[c] # <<>>
    /\ rcvd' = [rcvd EXCEPT ![c] = Append(@, Head(out[c]))]
    /\ out' = [out EXCEPT ![c] = Tail(@)]
    /\ UNCHANGED <<clients, policy, frame, todo, added, once, closes, at, drops, kicks,
                   offered>>

-----------------------------------------------------------------------------
Next ==
    \/ \E c \in Clients :
          \/ Add(c) \/ BroadcastSend(c) \/ Recv(c)
          \/ \E w \in Removers : RemoveLocked(c, w) \/ RemoveCheck(c, w)
          \/ \E w \in Closers : Close(c, w)
    \/ Snapshot

Spec == Init /\ [][Next]_vars

-----------------------------------------------------------------------------
(***************************************************************************)
(* Properties                                                               *)
(***************************************************************************)

\* A kick, the writer's Remove and Shutdown's Remove may reach Close together,
\* each having found Closed open: the channel is closed once (a second close
\* would panic), and a Remove that has returned leaves it closed, whether it
\* closed it itself, waited for another or found it closed.
ClosedOnce ==
    \A c \in Clients :
        /\ closes[c] <= 1
        /\ (\E w \in Removers : at[c][w] = "done") => closes[c] = 1

\* The frames that Broadcast offered to c and its queue did not take.
Lost == [c \in Clients |-> offered[c] - (Len(rcvd[c]) + Len(out[c]))]

Overflowed == {c \in Clients : Lost[c] > 0}

\* Loss is never silent.  Under the drop policy the counter of drops is the
\* number of frames lost over all clients.  Under the kick policy every client
\* that lost a frame is closed or being closed, the counter of kicks is no
\* less than their number, and it is their number as long as none of them
\* overflows again before it has left.
LossAccounted ==
    /\ policy = "drop" => kicks = 0 /\ drops = SumFunction(Lost)
    /\ policy = "kick" =>
          /\ drops = 0
          /\ \A c \in Overflowed : IsClosed(c) \/ at[c]["kick"] # "idle"
          /\ kicks >= Cardinality(Overflowed)
          /\ (\A c \in Clients : Lost[c] <= 1) => kicks = Cardinality(Overflowed)

\* The steps of hub.go implement the registry of module Hub.  A Remove takes
\* effect, abstractly, under the lock and a kick when it is decided: a client
\* that some goroutine is on the way to close counts as signalled.
Registry == INSTANCE Hub
              WITH Policies <- {"drop", "kick"},
                   closed <- {c \in Clients :
                                \/ IsClosed(c)
                                \/ \E w \in Closers :
                                      at[c][w] \in {"check", "close", "closing"}}
ImplementsHub == Registry!HubSpec
=============================================================================
