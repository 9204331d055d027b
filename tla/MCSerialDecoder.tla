-------------------------- MODULE MCSerialDecoder --------------------------
(***************************************************************************)
(* Lines of up to three pieces: frames of several lengths, a payload that   *)
(* contains a preamble, echoes of Encode, damaged and cut frames, noise.    *)
(***************************************************************************)
EXTENDS SerialDecoder

CONSTANT MaxPieces

Good(data) == [bytes |-> canUARTSend(<<9>> \o data),
               frame |-> <<[id |-> Extended(<<9>>), data |-> data]>>]

\* What Encode sends comes back: INS is read as the identifier; id is what
\* is left of the identifier, after FLAGS.
Echo(f, id) ==
    [bytes |-> Encode(f),
     frame |-> <<[id   |-> Extended(<<2>>),
                  data |-> <<ByteMod \div 2 + Len(f.data), id>> \o f.data]>>]

Noise(bytes) == [bytes |-> bytes, frame |-> <<>>]

PayloadSet == {<<>>, <<1, 2>>, <<1, Pre0, Pre1>>}

\* An extended identifier, 9, and a standard one with its RTR bit.
Echoes == {Echo([id |-> <<128 + 9>>, data |-> <<>>], 9),
           Echo([id |-> <<64 + 5>>, data |-> <<1, 2>>], 64 + 5)}

Pieces == {Good(p) : p \in PayloadSet} \cup Echoes
     \cup {Noise(<<Pre0>>), Noise(<<7, 7, Pre0>>), Noise(<<Pre0, Pre1>>),
           Noise(<<Pre0, Pre1, 5, 1, 1>>),
           Noise([canUARTSend(<<9, 1, 2>>) EXCEPT ![5] = 3])}

MCLines == UNION {[1..n -> Pieces] : n \in 1..MaxPieces}

\* One long line of frames, for large reads.
Burst == {[i \in 1..MaxPieces |-> Good(<<i, 0>>)]}
=============================================================================
