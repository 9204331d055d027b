---------------------------- MODULE ClientStream ----------------------------
(***************************************************************************)
(* What a client sends: the bytes of one TCP stream, decoded by             *)
(* cnl.Codec.Decode under the read deadline of startReader.  The reader     *)
(* arms the deadline once for up to sixteen frames (DecodeN), so it can     *)
(* expire anywhere; it fails the next Read, whatever has arrived.  Decode   *)
(* keeps what it has read of a frame only while it runs.  The check of the  *)
(* context between two DecodeN calls is in module Server.                   *)
(*                                                                          *)
(* A frame is a record of its identifier bytes and its payload; its first   *)
(* Len bytes are all Decode and EncodeTo look at.  Frames are passed to     *)
(* Send, which is AsyncTx's SendFrame and never ends the reader.            *)
(***************************************************************************)
EXTENDS Naturals, Sequences, SequencesExt

CONSTANTS
    IdSize,         \* bytes of a CAN identifier: 4
    MaxLen,         \* payload bytes: 8
    LenMask,        \* the length byte counts modulo this: 128
    MaxExpiries,    \* bound: deadlines that expire
    Scripts         \* what a peer may send: sequences of items

ASSUME StreamAssumption ==
    /\ IdSize \in Nat \ {0} /\ MaxLen \in Nat /\ LenMask \in Nat \ {0}
    /\ MaxLen < LenMask
    /\ MaxExpiries \in Nat

VARIABLES
    script,     \* the items the peer sends in this behaviour
    arrived,    \* bytes of them that have reached the socket
    pos,        \* bytes the reader has taken from the socket
    eof,        \* the peer has closed its end
    expired,    \* the read deadline has passed
    expiries,   \* how often it has
    part,       \* where Decode is: "id", "len" or "data"
    got,        \* bytes of that part read so far
    frame,      \* the frame under construction
    need,       \* its payload length
    sent,       \* frames passed to Send
    outcome,    \* "none", or why the reader returned: "eof" or "error"
    slipped     \* history: a timeout has thrown bytes away

vars == <<script, arrived, pos, eof, expired, expiries, part, got, frame, need,
          sent, outcome, slipped>>

Stream == FlattenSeq([i \in DOMAIN script |-> script[i].bytes])

NoFrame == [id |-> <<>>, data |-> <<>>]

\* The wire format of one frame; flag stands for the bit the mask removes.
EncodeTo(f, flag) == f.id \o <<Len(f.data) + flag>> \o f.data

\* The high bit of the length byte is masked.
Length(b) == b % LenMask

Frame == {f \in [id : Seq(Nat), data : Seq(Nat)] :
              Len(f.id) = IdSize /\ Len(f.data) <= MaxLen}

\* An item is a frame on the wire, or bytes whose length byte no frame has.
Item ==
    {it \in [bytes : Seq(Nat), frame : Seq(Frame)] :
        \/ /\ Len(it.frame) = 1
           /\ \E flag \in {0, LenMask} : it.bytes = EncodeTo(it.frame[1], flag)
        \/ /\ it.frame = <<>>
           /\ Len(it.bytes) > IdSize /\ Length(it.bytes[IdSize + 1]) > MaxLen}
ASSUME ScriptsAssumption == Scripts \subseteq Seq(Item)

Init ==
    /\ script \in Scripts
    /\ arrived = 0 /\ pos = 0 /\ eof = FALSE
    /\ expired = FALSE /\ expiries = 0
    /\ part = "id" /\ got = <<>> /\ frame = NoFrame /\ need = 0
    /\ sent = <<>>
    /\ outcome = "none" /\ slipped = FALSE

-----------------------------------------------------------------------------
(***************************************************************************)
(* The network and the clock.                                               *)
(***************************************************************************)
readerVars == <<pos, part, got, frame, need, sent, outcome, slipped>>

Arrive(k) ==
    /\ ~eof /\ arrived + k <= Len(Stream)
    /\ arrived' = arrived + k
    /\ UNCHANGED <<script, eof, expired, expiries, readerVars>>

\* The peer closes, possibly before it has sent everything.
PeerClose ==
    /\ ~eof
    /\ eof' = TRUE
    /\ UNCHANGED <<script, arrived, expired, expiries, readerVars>>

Expire ==
    /\ outcome = "none" /\ ~expired /\ expiries < MaxExpiries
    /\ expired' = TRUE
    /\ expiries' = expiries + 1
    /\ UNCHANGED <<script, arrived, eof, readerVars>>

-----------------------------------------------------------------------------
(***************************************************************************)
(* Decode                                                                   *)
(***************************************************************************)
wireVars == <<script, arrived, eof, expiries>>

\* A Read returns k bytes of the part being read.
TakeBytes(k) ==
    /\ outcome = "none" /\ ~expired
    /\ pos + k <= arrived
    /\ pos' = pos + k

Bytes(k) == SubSeq(Stream, pos + 1, pos + k)

\* Decode starts over with an empty frame.
Restart == part' = "id" /\ got' = <<>> /\ frame' = NoFrame /\ need' = 0

\* onFrame passes the frame to Send; DecodeN calls Decode again.
Deliver(f) ==
    /\ sent' = Append(sent, f)
    /\ Restart

ReadId(k) ==
    /\ part = "id" /\ Len(got) + k <= IdSize
    /\ TakeBytes(k)
    /\ IF Len(got) + k < IdSize
         THEN got' = got \o Bytes(k) /\ UNCHANGED <<part, frame>>
         ELSE /\ frame' = [frame EXCEPT !.id = got \o Bytes(k)]
              /\ part' = "len" /\ got' = <<>>
    /\ UNCHANGED <<wireVars, expired, need, sent, outcome, slipped>>

ReadLen ==
    LET ln == Length(Bytes(1)[1])
    IN  /\ part = "len"
        /\ TakeBytes(1)
        /\ \/ /\ ln > MaxLen
              /\ outcome' = "error"
              /\ UNCHANGED <<part, got, frame, need, sent>>
           \/ /\ ln = 0
              /\ Deliver(frame)
              /\ UNCHANGED outcome
           \/ /\ ln \in 1..MaxLen
              /\ need' = ln /\ part' = "data"
              /\ UNCHANGED <<got, frame, sent, outcome>>
        /\ UNCHANGED <<wireVars, expired, slipped>>

ReadData(k) ==
    /\ part = "data" /\ Len(got) + k <= need
    /\ TakeBytes(k)
    /\ IF Len(got) + k < need
         THEN /\ got' = got \o Bytes(k)
              /\ UNCHANGED <<part, frame, need, sent>>
         ELSE Deliver([frame EXCEPT !.data = got \o Bytes(k)])
    /\ UNCHANGED <<wireVars, expired, outcome, slipped>>

-----------------------------------------------------------------------------
(***************************************************************************)
(* How a Read fails, and what startReader makes of it.                      *)
(***************************************************************************)

\* Faulty variant: a timeout inside a payload is retried as well.
Always == TRUE

\* net.Error survives as such: Decode wraps only the errors of the payload.
IsTimeout == part \in {"id", "len"}

\* Before the payload the error is the connection's own: the reader takes the
\* timeout for an idle client and starts a new Decode, without the bytes of
\* the last one.  Inside the payload Decode has wrapped it: the reader ends.
Timeout ==
    /\ outcome = "none" /\ expired
    /\ \/ /\ IsTimeout
          /\ expired' = FALSE /\ Restart
          /\ slipped' = (slipped \/ part = "len" \/ got # <<>>)
          /\ UNCHANGED outcome
       \/ /\ ~IsTimeout
          /\ outcome' = "error"
          /\ UNCHANGED <<expired, part, got, frame, need, slipped>>
    /\ UNCHANGED <<wireVars, pos, sent>>

\* Faulty variants: the end of the stream is always a clean one; it is taken
\* for an idle client.
CleanEnd == "eof"
NoEnd == "none"

\* io.EOF comes from a Read of the first identifier byte or of the length;
\* elsewhere ReadFull makes it ErrUnexpectedEOF, an error.
EndError == IF part # "data" /\ got = <<>> THEN "eof" ELSE "error"

EndOfStream ==
    /\ outcome = "none" /\ ~expired
    /\ eof /\ pos = arrived
    /\ outcome' = EndError
    /\ UNCHANGED <<wireVars, expired, pos, part, got, frame, need, sent, slipped>>

Reader ==
    \/ \E k \in 1..IdSize : ReadId(k)
    \/ ReadLen
    \/ \E k \in 1..MaxLen : ReadData(k)
    \/ Timeout \/ EndOfStream

Next ==
    \/ \E k \in 1..Len(Stream) : Arrive(k)
    \/ PeerClose \/ Expire \/ Reader

\* The reader goroutine runs; the peer and the clock owe nothing.
Spec == Init /\ [][Next]_vars /\ WF_vars(Reader)

-----------------------------------------------------------------------------
(***************************************************************************)
(* Properties                                                               *)
(***************************************************************************)

\* The frames of the script up to the first item that is none.
Expected ==
    LET bad == {i \in DOMAIN script : script[i].frame = <<>>}
        m   == IF bad = {} THEN Len(script) ELSE Min(bad) - 1
    IN  [i \in 1..m |-> script[i].frame[1]]

InStep == IsPrefix(sent, Expected)

\* However the bytes are cut into segments, and whatever deadlines expire
\* between frames or inside a payload, the frames sent on are the client's,
\* in order and unaltered, as long as no deadline has expired inside a header.
DecodedInOrder == ~slipped => InStep

Whole(m) == Len(FlattenSeq([i \in 1..m |-> script[i].bytes]))

\* The stream stops between the identifier of a frame and its length.
BareIdentifier == \E m \in 0..Len(Expected) : arrived = Whole(m) + IdSize

\* How the reader ends tells how the stream ended.  A clean end means that the
\* stream stopped at the end of a frame and all its frames have been passed
\* on; an error without a timeout means a bad item or a frame that was cut.
\* A stream that stops after an identifier is left out: Decode takes it for a
\* clean end, though its comments promise io.EOF only at a frame boundary and
\* ErrTruncatedFrame in the middle of a frame.
EndReported ==
    /\ outcome = "eof" /\ ~slipped /\ ~BareIdentifier =>
          Len(sent) <= Len(Expected) /\ arrived = Whole(Len(sent))
    /\ outcome = "error" /\ expiries = 0 =>
          \/ arrived > Whole(Len(Expected))
          \/ eof /\ \A m \in 0..Len(Expected) : arrived # Whole(m)

\* When the peer closes the reader ends, whatever it was in the middle of.
ReaderEnds == eof ~> outcome # "none"

-----------------------------------------------------------------------------
(***************************************************************************)
(* What the documentation promises and the code breaks.                     *)
(***************************************************************************)

\* "Each frame is independent; ordering is preserved within a TCP stream."
FramesStayInStep == InStep
=============================================================================
