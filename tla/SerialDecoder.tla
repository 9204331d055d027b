--------------------------- MODULE SerialDecoder ---------------------------
(***************************************************************************)
(* The receive path of the serial backend: reads of any size are appended   *)
(* to an accumulator (a bytes.Buffer), and serial.Codec.DecodeStream cuts   *)
(* it into frames                                                           *)
(*                                                                          *)
(*    Pre0 Pre1 ln id(IdSize) payload checksum                              *)
(*                                                                          *)
(* where ln counts the bytes after itself.  One action is one turn of the   *)
(* loop of DecodeStream.  The accumulator is modelled with its offset and   *)
(* capacity, because CompactBuffer rewrites the array under a slice that    *)
(* DecodeStream has already taken.  Encode, the transmit direction, uses the *)
(* same format with an instruction and a flags byte before the identifier.  *)
(***************************************************************************)
EXTENDS Integers, Sequences, SequencesExt

CONSTANTS
    IdSize,         \* bytes of a CAN identifier on the line: 4
    MaxDlc,         \* payload bytes of a classic CAN frame: 8
    Pre0, Pre1,     \* the preamble: 0x2D, 0xD4
    ByteMod,        \* 256
    CompactMin,     \* CompactBuffer leaves shorter buffers alone: 1024
    CompactRatio,   \* ... and fuller ones: 4
    MinAlloc,       \* first allocation of a bytes.Buffer: 64
    Reclaim,        \* largeBufferReclaimThreshold
    ReadBufSize,    \* serialReadBufSize
    Lines           \* what the device may send: sequences of pieces

ASSUME SizesAssumption ==
    /\ IdSize \in Nat \ {0} /\ MaxDlc \in Nat
    /\ CompactMin \in Nat /\ CompactRatio \in Nat \ {0}
    /\ MinAlloc \in Nat \ {0} /\ Reclaim \in Nat /\ ReadBufSize \in Nat \ {0}
ASSUME BytesAssumption ==
    /\ ByteMod \in Nat \ {0}
    /\ Pre0 \in 0..(ByteMod - 1) /\ Pre1 \in 0..(ByteMod - 1) /\ Pre0 # Pre1

VARIABLES
    line,       \* the pieces the device sends in this behaviour
    pos,        \* bytes of them read so far
    acc,        \* the accumulator
    stage,      \* "read" or "decode": in sp.Read or in DecodeStream
    emitted,    \* the frames passed to out, that is, to Hub.Broadcast
    torn        \* history: a compaction has rewritten a slice in use

vars == <<line, pos, acc, stage, emitted, torn>>

Byte == 0..(ByteMod - 1)
Stream == FlattenSeq([i \in DOMAIN line |-> line[i].bytes])

MinLn == 2 + IdSize + 0 + 1
MaxLn == 2 + IdSize + MaxDlc + 1

-----------------------------------------------------------------------------
(***************************************************************************)
(* bytes.Buffer: q is the unread part, off the offset of its first byte in  *)
(* the array, cap the size of the array.                                    *)
(***************************************************************************)
NewBuffer == [q |-> <<>>, off |-> 0, cap |-> 0]

Used(b) == b.off + Len(b.q)
Fits(b, n) == n <= b.cap - Used(b)

\* Buffer.grow, when n more bytes do not fit: an empty buffer starts over, a
\* nil one gets its first array, a sparse one slides down, others move.
Grow(b, n) ==
    LET r == IF b.q = <<>> THEN [b EXCEPT !.off = 0] ELSE b
        moved == Used(r) + n
        twice == 2 * (r.cap - r.off)
    IN  IF Fits(r, n) THEN r
        ELSE IF r.cap = 0 /\ n <= MinAlloc THEN [r EXCEPT !.cap = MinAlloc]
        ELSE IF n <= r.cap \div 2 - Len(r.q) THEN [r EXCEPT !.off = 0]
        ELSE [r EXCEPT !.off = 0, !.cap = IF moved < twice THEN twice ELSE moved]

Write(b, p) ==
    LET r == IF Fits(b, Len(p)) THEN b ELSE Grow(b, Len(p))
    IN  [r EXCEPT !.q = @ \o p]

\* Buffer.Next
InNext(b, n) == [b EXCEPT !.q = SubSeq(@, n + 1, Len(@)), !.off = @ + n]

-----------------------------------------------------------------------------
(***************************************************************************)
(* CompactBuffer and the slice DecodeStream works on.                       *)
(***************************************************************************)
Compacts(b) ==
    /\ Len(b.q) >= CompactMin
    /\ Len(b.q) * CompactRatio < b.cap - b.off

\* The unread bytes are copied to the front of the same array.
CompactBuffer(b) == IF Compacts(b) THEN [b EXCEPT !.off = 0] ELSE b

\* data := in.Bytes(), as it reads after CompactBuffer(in): where the copy
\* overlaps it, it shows bytes from off positions further on.
Data(b) ==
    IF Compacts(b)
      THEN [j \in DOMAIN b.q |->
              IF b.off + j <= Len(b.q) THEN b.q[b.off + j] ELSE b.q[j]]
      ELSE b.q

\* The copy overlaps the slice.
Tears(b) == Compacts(b) /\ b.off \in 1..(Len(b.q) - 1)

-----------------------------------------------------------------------------
(***************************************************************************)
(* The frame format.                                                        *)
(***************************************************************************)
AtHeader(d, i) == i < Len(d) /\ d[i] = Pre0 /\ d[i + 1] = Pre1
HasHeader(d) == \E i \in DOMAIN d : AtHeader(d, i)

\* bytes.Index(data, header), from 1.
Index(d) == CHOOSE i \in DOMAIN d :
                AtHeader(d, i) /\ \A j \in 1..(i - 1) : ~AtHeader(d, j)

LengthOk(d) == d[3] \in MinLn..MaxLn
Req(d) == 3 + d[3]
Sum(s) == FoldLeft(LAMBDA x, y : x + y, 0, s)
ChecksumOk(d) ==
    (Pre0 + d[3] + Sum(SubSeq(d, 4, Req(d) - 1))) % ByteMod = d[Req(d)]

\* id | CAN_EFF_FLAG: the flag is the top bit of the first byte.
Extended(id) == [id EXCEPT ![1] = (ByteMod \div 2) + (@ % (ByteMod \div 2))]

canUARTSend(data) ==
    LET ln == Len(data) + 1
    IN  <<Pre0, Pre1, ln>> \o data \o <<(Pre0 + ln + Sum(data)) % ByteMod>>

\* A piece is a frame as the adapter sends it, with its identifier extended,
\* or any bytes.
Piece ==
    {p \in [bytes : Seq(Byte), frame : Seq([id : Seq(Byte), data : Seq(Byte)])] :
        \/ p.frame = <<>>
        \/ LET f  == p.frame[1]
               id == SubSeq(p.bytes, 4, 3 + IdSize)
           IN  /\ Len(p.frame) = 1 /\ Len(id) = IdSize /\ Len(f.data) <= 2 + MaxDlc
               /\ f.id = Extended(id) /\ p.bytes = canUARTSend(id \o f.data)}
ASSUME LinesAssumption == Lines \subseteq Seq(Piece)

\* id & CAN_EFF_MASK, for an extended identifier only: the mask takes the top
\* three bits, and the flags of other identifiers stay.
Masked(id) ==
    IF id[1] >= ByteMod \div 2 THEN [id EXCEPT ![1] = @ % (ByteMod \div 8)] ELSE id

\* INS, FLAGS with the length, identifier, payload.
Encode(f) ==
    canUARTSend(<<2, (ByteMod \div 2) + Len(f.data)>> \o Masked(f.id) \o f.data)

\* Faulty variant: the checksum is taken for the last byte of the payload.
FrameWithChecksum(d) ==
    [id   |-> Extended(SubSeq(d, 4, 3 + IdSize)),
     data |-> SubSeq(d, 4 + IdSize, Req(d))]

Frame(d) == [id   |-> Extended(SubSeq(d, 4, 3 + IdSize)),
             data |-> SubSeq(d, 4 + IdSize, Req(d) - 1)]

-----------------------------------------------------------------------------
Init ==
    /\ line \in Lines
    /\ pos = 0
    /\ acc = NewBuffer
    /\ stage = "read"
    /\ emitted = <<>>
    /\ torn = FALSE

\* sp.Read returns n bytes, acc.Write takes them.
Read(n) ==
    /\ stage = "read"
    /\ pos + n <= Len(Stream)
    /\ acc' = Write(acc, SubSeq(Stream, pos + 1, pos + n))
    /\ pos' = pos + n
    /\ stage' = "decode"
    /\ UNCHANGED <<line, emitted, torn>>

\* DecodeStream returns; the receive loop drops a large drained accumulator.
Return(b) ==
    /\ acc' = IF b.q = <<>> /\ b.cap > Reclaim THEN NewBuffer ELSE b
    /\ stage' = "read"
    /\ torn' = (torn \/ Tears(acc))
    /\ UNCHANGED <<line, pos, emitted>>

\* The next turn of the loop, after in.Next(n).
Continue(n) ==
    /\ acc' = InNext(CompactBuffer(acc), n)
    /\ torn' = (torn \/ Tears(acc))
    /\ UNCHANGED <<line, pos, stage>>

\* Not enough for a preamble and a length, or for the length's checks.
Short ==
    /\ stage = "decode"
    /\ \/ Len(Data(acc)) < 3
       \/ Len(Data(acc)) < 4 /\ AtHeader(Data(acc), 1)
    /\ Return(CompactBuffer(acc))

\* Faulty variants: nothing, or everything, is kept of bytes without preamble.
NoResidue(d) == <<>>
AllResidue(d) == d

\* The last byte may be the first of a preamble.
Residue(d) == <<Last(d)>>

NoHeader ==
    /\ stage = "decode"
    /\ Len(Data(acc)) >= 3 /\ ~HasHeader(Data(acc))
    /\ Return([q |-> Residue(Data(acc)), off |-> 0, cap |-> acc.cap])

Align ==
    /\ stage = "decode"
    /\ Len(Data(acc)) >= 3 /\ HasHeader(Data(acc)) /\ Index(Data(acc)) > 1
    /\ Continue(Index(Data(acc)) - 1)
    /\ UNCHANGED emitted

\* Faulty variant: a bad frame is not stepped over.
NoSkip == 0

\* in.Next(1) after a bad length or checksum: the search resumes behind it.
Skip == 1

\* A preamble at the start and a length to look at.
Aligned(d) == Len(d) >= 4 /\ AtHeader(d, 1)

BadLength ==
    /\ stage = "decode"
    /\ Aligned(Data(acc)) /\ ~LengthOk(Data(acc))
    /\ Continue(Skip)
    /\ UNCHANGED emitted

\* The frame is not complete yet.
Wait ==
    /\ stage = "decode"
    /\ Aligned(Data(acc)) /\ LengthOk(Data(acc))
    /\ Len(Data(acc)) < Req(Data(acc))
    /\ Return(CompactBuffer(acc))

Complete(d) == Aligned(d) /\ LengthOk(d) /\ Len(d) >= Req(d)

BadChecksum ==
    /\ stage = "decode"
    /\ Complete(Data(acc)) /\ ~ChecksumOk(Data(acc))
    /\ Continue(Skip)
    /\ UNCHANGED emitted

Emit ==
    /\ stage = "decode"
    /\ Complete(Data(acc)) /\ ChecksumOk(Data(acc))
    /\ emitted' = Append(emitted, Frame(Data(acc)))
    /\ Continue(Req(Data(acc)))

DecodeStream ==
    \/ Short \/ NoHeader \/ Align \/ BadLength \/ Wait \/ BadChecksum \/ Emit

Next == DecodeStream \/ \E n \in 1..ReadBufSize : Read(n)

\* The receive goroutine runs on once it is in DecodeStream; the device owes
\* nothing.
Spec == Init /\ [][Next]_vars /\ WF_vars(DecodeStream)

-----------------------------------------------------------------------------
(***************************************************************************)
(* Properties                                                               *)
(***************************************************************************)

\* The frames in a byte string, without buffer, search or resumption: look at
\* one byte after the other; a complete, intact frame is taken, an incomplete
\* one ends the string, anything else is noise.
From(s) ==
    LET from[i \in 1..(Len(s) + 1)] ==
            LET d == SubSeq(s, i, Len(s))
            IN  IF i > Len(s) THEN <<>>
                ELSE IF AtHeader(d, 1) /\ Len(d) < 4 THEN <<>>
                ELSE IF Aligned(d) /\ LengthOk(d) /\ Len(d) < Req(d) THEN <<>>
                ELSE IF Complete(d) /\ ChecksumOk(d)
                       THEN <<Frame(d)>> \o from[i + Req(d)]
                ELSE from[i + 1]
    IN  from

Parse(s) == From(s)[1]

Decoded == stage = "read" => emitted = Parse(SubSeq(Stream, 1, pos))

\* Whatever pieces the reads come in, what DecodeStream has emitted is what
\* the bytes read so far contain: a frame cut anywhere, or behind noise, is
\* neither lost, duplicated, reordered nor invented, as long as no compaction
\* has moved bytes under the slice being decoded.
ChunkInvariant == ~torn => Decoded

\* A line of nothing but classic CAN frames with at least two bytes of payload
\* is taken frame by frame, bit for bit.  Nothing is claimed of shorter and of
\* longer payloads: the comments at minLn and maxLn allow 0 to 8 bytes, but
\* the limits count INS and FLAGS, which received frames do not have, so that
\* DecodeStream rejects payloads of 0 and 1 bytes and lets 9 and 10 pass.
FramesDecoded ==
    /\ ~torn /\ stage = "read" /\ pos = Len(Stream)
    /\ \A i \in DOMAIN line :
          line[i].frame # <<>> /\ Len(line[i].frame[1].data) \in 2..MaxDlc
    => emitted = [i \in DOMAIN line |-> line[i].frame[1]]

\* No noise makes the accumulator hold more than one unfinished frame between
\* two reads ("avoid unbounded growth from misaligned garbage").
ResidueBounded == stage = "read" => Len(acc.q) < 3 + MaxLn

\* DecodeStream returns: every turn of its loop consumes something.
DecodeReturns == stage = "decode" ~> stage = "read"

-----------------------------------------------------------------------------
(***************************************************************************)
(* What the comments promise and the code breaks.                           *)
(***************************************************************************)

\* "DecodeStream reads from in and emits complete frames via out", however the
\* buffer is compacted on the way.
CompactionHarmless == Decoded
=============================================================================
