------------------------ MODULE SerialDecoderProofs ------------------------
(***************************************************************************)
(* For any line and any reads: DecodeStream emits what the reference        *)
(* decoder finds, as long as no compaction has torn the slice it works on,  *)
(* and the accumulator stays small between two reads.  The inductive        *)
(* invariant says that what is emitted, followed by what is found in the    *)
(* bytes not yet consumed, is what is found in all of them, whatever        *)
(* follows.                                                                 *)
(***************************************************************************)
EXTENDS SerialDecoder, InductionLemmas

\* The bytes DecodeStream has consumed.
Consumed == pos - Len(acc.q)

\* The frames the reference decoder finds in the first e bytes of s, from the
\* i-th on.
Found(s, e, i) == From(SubSeq(s, 1, e))[i]

Frames == {Frame(d) : d \in Seq(Byte)}

Buffer == [q : Seq(Byte), off : Nat, cap : Int]

Types ==
    /\ line \in Lines
    /\ pos \in 0..Len(Stream)
    /\ acc \in Buffer
    /\ stage \in {"read", "decode"}
    /\ torn \in BOOLEAN
    /\ emitted \in Seq(Frames)

\* The accumulator holds the last bytes read.
PlaceInv ==
    /\ Consumed \in 0..pos
    /\ acc.q = SubSeq(Stream, Consumed + 1, pos)

FoundInv ==
    /\ \A e \in pos..Len(Stream) :
          Found(Stream, e, 1) = emitted \o Found(Stream, e, Consumed + 1)
    /\ stage = "read" => Found(Stream, pos, Consumed + 1) = <<>>

DecodeInv == Types /\ ResidueBounded /\ (~torn => PlaceInv /\ FoundInv)

-----------------------------------------------------------------------------
(***************************************************************************)
(* The reference decoder                                                    *)
(***************************************************************************)
\* An unfinished frame, and a finished one.
Ends(d) ==
    \/ AtHeader(d, 1) /\ Len(d) < 4
    \/ Aligned(d) /\ LengthOk(d) /\ Len(d) < Req(d)
Takes(d) == Complete(d) /\ ChecksumOk(d)

\* One step of From(s), with g for what it finds further on.
Look(s, i, g) ==
    LET d == SubSeq(s, i, Len(s))
    IN  IF i > Len(s) \/ Ends(d) THEN <<>>
        ELSE IF Takes(d) THEN <<Frame(d)>> \o g[i + Req(d)]
        ELSE g[i + 1]

\* The bytes of a string from the i-th on, and what a complete frame there
\* needs: it is longer than nothing, and within the string.
LEMMA Suffix ==
    ASSUME NEW s \in Seq(Byte), NEW i \in 1..Len(s)
    PROVE  LET d == SubSeq(s, i, Len(s))
           IN  /\ d \in Seq(Byte) /\ Len(d) = Len(s) - i + 1
               /\ Takes(d) => /\ Req(d) \in Nat /\ Req(d) > 0
                              /\ i + Req(d) \in (i + 1)..(Len(s) + 1)
<1> DEFINE l == Len(s)
           a == i - 1
           d == SubSeq(s, i, l)
<1>1. l \in Nat /\ a \in Nat /\ a + 1 = i /\ a <= l /\ l <= Len(s) /\ l - a = l - i + 1
  OBVIOUS
<1>2. SubSeq(s, a + 1, l) \in Seq(Byte) /\ Len(SubSeq(s, a + 1, l)) = l - a
  BY <1>1, SliceAt
<1>3. d \in Seq(Byte) /\ Len(d) = l - i + 1
  BY <1>1, <1>2
<1> HIDE DEF d
<1>4. ASSUME Takes(d)
      PROVE  Req(d) \in Nat /\ Req(d) > 0 /\ i + Req(d) \in (i + 1)..(l + 1)
  <2>1. d[3] \in MinLn..MaxLn /\ Len(d) >= Req(d) /\ Req(d) = 3 + d[3]
    BY <1>4 DEF Takes, Complete, LengthOk, Req
  <2>2. MinLn \in Nat /\ MaxLn \in Nat
    BY SizesAssumption DEF MinLn, MaxLn
  <2>3. d[3] \in Nat
    BY <2>1, <2>2
  <2> HIDE DEF l
  <2> QED
    BY <1>1, <1>3, <2>1, <2>3
<1> QED
  BY <1>3, <1>4 DEF d

\* A step finds frames if what follows does.
LEMMA LookTyped ==
    ASSUME NEW s \in Seq(Byte), NEW i \in 1..Len(s), NEW g,
           \A x \in (i + 1)..(Len(s) + 1) : g[x] \in Seq(Frames)
    PROVE  Look(s, i, g) \in Seq(Frames)
<1> DEFINE n == Len(s)
           d == SubSeq(s, i, n)
<1>1. /\ d \in Seq(Byte) /\ n \in Nat
      /\ Takes(d) => i + Req(d) \in (i + 1)..(n + 1)
  BY Suffix
<1>2. <<Frame(d)>> \in Seq(Frames)
  <2>1. Frame(d) \in Frames
    BY <1>1 DEF Frames
  <2> QED
    BY <2>1
<1> HIDE DEF d
<1>3. i + 1 \in (i + 1)..(n + 1)
  BY <1>1
<1>4. Takes(d) => <<Frame(d)>> \o g[i + Req(d)] \in Seq(Frames)
  BY <1>1, <1>2, ConcatProperties
<1> QED
  BY <1>3, <1>4, EmptySeq DEF Look, d

\* The function From is defined by exists, with values that are frames.
LEMMA LookExists ==
    ASSUME NEW s \in Seq(Byte)
    PROVE  \E g \in [1..(Len(s) + 1) -> Seq(Frames)] :
              \A i \in 1..(Len(s) + 1) : g[i] = Look(s, i, g)
<1> DEFINE n == Len(s)
           G == [1..(n + 1) -> Seq(Frames)]
           S == {k \in 0..n : \E g \in G :
                    \A i \in (n + 1 - k)..(n + 1) : g[i] = Look(s, i, g)}
<1>1. n \in Nat
  OBVIOUS
<1>2. 0 \in S
  <2> DEFINE g == [i \in 1..(n + 1) |-> <<>>]
  <2>1. g \in G
    BY EmptySeq
  <2>2. ASSUME NEW i \in (n + 1 - 0)..(n + 1) PROVE g[i] = Look(s, i, g)
    <3>1. i = n + 1 /\ i \in 1..(n + 1) /\ i > n
      BY <1>1
    <3> QED
      BY <3>1 DEF Look
  <2> HIDE DEF g
  <2>3. \E f \in G : \A i \in (n + 1 - 0)..(n + 1) : f[i] = Look(s, i, f)
    BY <2>1, <2>2
  <2>4. 0 \in 0..n
    BY <1>1
  <2> HIDE DEF G, n
  <2> QED
    BY <2>3, <2>4
<1>3. ASSUME NEW k \in 0..(n - 1), k \in S PROVE k + 1 \in S
  <2>1. PICK g \in G : \A i \in (n + 1 - k)..(n + 1) : g[i] = Look(s, i, g)
    BY <1>3
  <2> DEFINE j == n - k
             h == [g EXCEPT ![j] = Look(s, j, g)]
  <2>2. j \in 1..n /\ j \in 1..(n + 1) /\ n + 1 - (k + 1) = j /\ n + 1 - k = j + 1
    BY <1>1
  <2> HIDE DEF n
  <2>3. ASSUME NEW i \in 1..n
        PROVE  /\ Look(s, i, g) \in Seq(Frames)
               /\ i >= j => Look(s, i, h) = Look(s, i, g)
    <3> DEFINE d == SubSeq(s, i, n)
    <3>1. /\ d \in Seq(Byte)
          /\ Takes(d) => i + Req(d) \in (i + 1)..(n + 1) /\ Req(d) \in Nat
      BY Suffix DEF n
    <3> HIDE DEF d
    <3>3. i + 1 \in 1..(n + 1) /\ (Takes(d) => i + Req(d) \in 1..(n + 1))
          /\ \A x \in (i + 1)..(n + 1) : x \in 1..(n + 1)
      BY <1>1, <3>1
    <3>6. Look(s, i, g) \in Seq(Frames)
      BY <3>3, LookTyped DEF n
    <3>7. ASSUME i >= j PROVE Look(s, i, h) = Look(s, i, g)
      <4>1. i + 1 # j /\ (Takes(d) => i + Req(d) # j)
        BY <1>1, <2>2, <3>1, <3>7
      <4>2. h[i + 1] = g[i + 1] /\ (Takes(d) => h[i + Req(d)] = g[i + Req(d)])
        BY <3>3, <4>1
      <4> QED
        BY <4>2 DEF Look, d, n
    <3> QED
      BY <3>6, <3>7
  <2>4. h \in G
    BY <2>2, <2>3
  <2>5. ASSUME NEW i \in j..(n + 1) PROVE h[i] = Look(s, i, h)
    <3>1. CASE i = n + 1
      <4>1. Look(s, i, h) = <<>> /\ Look(s, i, g) = <<>>
        BY <1>1, <3>1 DEF Look, n
      <4>2. i \in (j + 1)..(n + 1) /\ i # j /\ i \in 1..(n + 1)
        BY <1>1, <2>2, <3>1
      <4> QED
        BY <2>1, <2>2, <4>1, <4>2
    <3>2. CASE i = j
      <4>1. j \in 1..n /\ j >= j
        BY <1>1, <2>2
      <4>2. Look(s, j, h) = Look(s, j, g)
        BY <2>3, <4>1
      <4>3. h[j] = Look(s, j, g)
        BY <2>2
      <4> QED
        BY <3>2, <4>2, <4>3
    <3>3. CASE i # j /\ i # n + 1
      <4>1. i \in (j + 1)..(n + 1) /\ i \in 1..n /\ i >= j /\ i \in 1..(n + 1)
        BY <1>1, <2>2, <3>3
      <4>2. h[i] = g[i] /\ g[i] = Look(s, i, g)
        BY <2>1, <2>2, <3>3, <4>1
      <4> QED
        BY <2>3, <4>1, <4>2
    <3> QED
      BY <3>1, <3>2, <3>3
  <2>6. k + 1 \in 0..n
    BY <1>1
  <2> QED
    BY <2>2, <2>4, <2>5, <2>6
<1>4. \A k \in 0..n : k \in S
  <2> HIDE DEF S, n
  <2> QED
    BY <1>1, <1>2, <1>3, UpTo
<1>5. n \in S /\ n + 1 - n = 1
  BY <1>1, <1>4
<1> QED
  BY <1>5

\* What From computes.
LEMMA FromIs ==
    ASSUME NEW s \in Seq(Byte), NEW i \in 1..(Len(s) + 1)
    PROVE  From(s)[i] \in Seq(Frames) /\ From(s)[i] = Look(s, i, From(s))
<1> DEFINE D == 1..(Len(s) + 1)
           P(g) == g = [x \in D |-> Look(s, x, g)]
<1>1. PICK g \in [D -> Seq(Frames)] : \A x \in D : g[x] = Look(s, x, g)
  BY LookExists
<1>2. P(g)
  BY <1>1
<1>3. From(s) = CHOOSE f : P(f)
  BY DEF From, Look, Ends, Takes
<1> DEFINE f == From(s)
           n == Len(s)
<1>4. f = [x \in D |-> Look(s, x, f)]
  BY <1>2, <1>3
<1>5. n \in Nat
  OBVIOUS
<1> HIDE DEF f
<1> DEFINE S == {k \in 0..n : \A x \in (n + 1 - k)..(n + 1) : f[x] \in Seq(Frames)}
<1>6. 0 \in S
  <2>1. n + 1 \in D /\ n + 1 > n
    BY <1>5
  <2>2. f[n + 1] = <<>>
    BY <1>4, <2>1 DEF Look
  <2>3. \A x \in (n + 1 - 0)..(n + 1) : x = n + 1
    BY <1>5
  <2>4. 0 \in 0..n
    BY <1>5
  <2> QED
    BY <2>2, <2>3, <2>4, EmptySeq
<1>7. ASSUME NEW k \in 0..(n - 1), k \in S PROVE k + 1 \in S
  <2> DEFINE j == n - k
  <2>1. j \in 1..n /\ j \in D /\ n + 1 - (k + 1) = j /\ n + 1 - k = j + 1
    BY <1>5
  <2>2. \A x \in (j + 1)..(n + 1) : f[x] \in Seq(Frames)
    BY <1>7, <2>1
  <2>3. f[j] = Look(s, j, f)
    BY <1>4, <2>1
  <2> HIDE DEF j
  <2>4. f[j] \in Seq(Frames)
    BY <2>1, <2>2, <2>3, LookTyped
  <2>5. \A x \in j..(n + 1) : x = j \/ x \in (j + 1)..(n + 1)
    BY <1>5, <2>1
  <2>6. k + 1 \in 0..n
    BY <1>5
  <2> QED
    BY <2>1, <2>2, <2>4, <2>5, <2>6
<1>8. \A k \in 0..n : k \in S
  <2> HIDE DEF S, n
  <2> QED
    BY <1>5, <1>6, <1>7, UpTo
<1>9. n \in S /\ n + 1 - n = 1
  BY <1>5, <1>8
<1>10. f[i] \in Seq(Frames)
  BY <1>9
<1> QED
  BY <1>4, <1>10 DEF f

\* The reference decoder on a prefix of s, in terms of s.
LEMMA FoundIs ==
    ASSUME NEW s \in Seq(Byte), NEW e \in 0..Len(s), NEW i \in 1..(e + 1)
    PROVE  LET d == SubSeq(s, i, e)
           IN  /\ Found(s, e, i) \in Seq(Frames)
               /\ i > e \/ Ends(d) => Found(s, e, i) = <<>>
               /\ i <= e /\ ~Ends(d) /\ Takes(d) =>
                     Found(s, e, i) = <<Frame(d)>> \o Found(s, e, i + Req(d))
               /\ i <= e /\ ~Ends(d) /\ ~Takes(d) =>
                     Found(s, e, i) = Found(s, e, i + 1)
<1> DEFINE p == SubSeq(s, 1, e)
           d == SubSeq(s, i, e)
           c == i - 1
<1>1. /\ 0 \in Nat /\ e \in Nat /\ 0 <= e /\ e <= Len(s) /\ c \in Nat /\ c <= e
      /\ e <= e - 0 /\ c + 1 = i /\ 0 + c = c /\ 0 + e = e
  OBVIOUS
<1>2. SubSeq(s, 0 + 1, e) \in Seq(Byte) /\ Len(SubSeq(s, 0 + 1, e)) = e - 0
  BY <1>1, SliceAt
<1>3. p \in Seq(Byte) /\ Len(p) = e
  BY <1>2
<1>4. SubSeq(SubSeq(s, 0 + 1, e), c + 1, e) = SubSeq(s, (0 + c) + 1, 0 + e)
  BY <1>1, SliceSlice
<1>5. SubSeq(p, i, e) = d
  BY <1>1, <1>4
<1> HIDE DEF p
<1>6. From(p)[i] \in Seq(Frames) /\ From(p)[i] = Look(p, i, From(p))
  BY <1>3, FromIs
<1> HIDE DEF d
<1>7. Look(p, i, From(p)) =
        IF i > e \/ Ends(d) THEN <<>>
        ELSE IF Takes(d) THEN <<Frame(d)>> \o From(p)[i + Req(d)]
        ELSE From(p)[i + 1]
  BY <1>3, <1>5 DEF Look
<1>8. \A x : Found(s, e, x) = From(p)[x]
  BY DEF Found, p
<1>9. i > e <=> ~(i <= e)
  BY <1>1
<1> QED
  BY <1>6, <1>7, <1>8, <1>9 DEF d

\* Bytes that begin no preamble are noise.
LEMMA Skips ==
    ASSUME NEW s \in Seq(Byte), NEW e \in 0..Len(s), NEW i \in 1..(e + 1),
           NEW j \in i..(e + 1),
           \A k \in i..(j - 1) : ~AtHeader(SubSeq(s, k, e), 1)
    PROVE  Found(s, e, i) = Found(s, e, j)
<1> DEFINE n == j - i
           S == {m \in 0..n : Found(s, e, i) = Found(s, e, i + m)}
<1>1. n \in Nat /\ i \in Nat /\ i + 0 = i /\ i + n = j /\ e \in Nat
  OBVIOUS
<1>2. 0 \in S
  BY <1>1
<1>3. ASSUME NEW m \in 0..(n - 1), m \in S PROVE m + 1 \in S
  <2> DEFINE k == i + m
  <2>1. /\ k \in i..(j - 1) /\ k \in 1..(e + 1) /\ k <= e /\ i + (m + 1) = k + 1
        /\ m + 1 \in 0..n
    BY <1>1
  <2>2. ~AtHeader(SubSeq(s, k, e), 1)
    BY <2>1
  <2>3. Found(s, e, i) = Found(s, e, k)
    BY <1>3
  <2> HIDE DEF k
  <2>4. ~Ends(SubSeq(s, k, e)) /\ ~Takes(SubSeq(s, k, e))
    BY <2>2 DEF Ends, Takes, Complete, Aligned
  <2>5. Found(s, e, k) = Found(s, e, k + 1)
    BY <2>1, <2>4, FoundIs
  <2> QED
    BY <2>1, <2>3, <2>5
<1> HIDE DEF S, n
<1>4. \A m \in 0..n : m \in S
  BY <1>1, <1>2, <1>3, UpTo
<1>5. n \in S
  BY <1>1, <1>4
<1> QED
  BY <1>1, <1>5 DEF S

\* The bytes held, seen in a longer part of the stream: what is after them
\* changes neither their bytes nor a frame that they complete.
LEMMA Longer ==
    ASSUME NEW s \in Seq(Byte), NEW a \in Nat, NEW b \in Nat, NEW e \in Nat,
           a <= b, b <= e, e <= Len(s)
    PROVE  LET q == SubSeq(s, a + 1, b)
               d == SubSeq(s, a + 1, e)
           IN  /\ q \in Seq(Byte) /\ Len(q) = b - a /\ d \in Seq(Byte) /\ Len(d) = e - a
               /\ \A i \in 1..(b - a) : d[i] = q[i] /\ q[i] = s[a + i]
               /\ \A x, y \in Nat : x <= y /\ y <= b - a =>
                     SubSeq(d, x + 1, y) = SubSeq(q, x + 1, y)
<1> DEFINE q == SubSeq(s, a + 1, b)
           d == SubSeq(s, a + 1, e)
           l == Len(s)
<1>1. l \in Nat /\ b <= l /\ a <= e /\ e <= l
  OBVIOUS
<1>2. q \in Seq(Byte) /\ Len(q) = b - a /\ \A i \in 1..(b - a) : q[i] = s[a + i]
  BY <1>1, SliceAt
<1>3. d \in Seq(Byte) /\ Len(d) = e - a /\ \A i \in 1..(e - a) : d[i] = s[a + i]
  BY <1>1, SliceAt
<1>4. \A i \in 1..(b - a) : i \in 1..(e - a)
  OBVIOUS
<1>5. ASSUME NEW x \in Nat, NEW y \in Nat, x <= y, y <= b - a
      PROVE  SubSeq(d, x + 1, y) = SubSeq(q, x + 1, y)
  <2>1. y <= e - a
    BY <1>5
  <2>2. SubSeq(d, x + 1, y) = SubSeq(s, (a + x) + 1, a + y)
    BY <1>1, <1>5, <2>1, SliceSlice
  <2>3. SubSeq(q, x + 1, y) = SubSeq(s, (a + x) + 1, a + y)
    BY <1>1, <1>5, SliceSlice
  <2> QED
    BY <2>2, <2>3
<1> QED
  BY <1>2, <1>3, <1>4, <1>5

\* A preamble within the bytes held is one in the stream.
LEMMA HeaderSame ==
    ASSUME NEW s \in Seq(Byte), NEW a \in Nat, NEW b \in Nat, NEW e \in Nat,
           a <= b, b <= e, e <= Len(s), NEW k \in 1..(b - a - 1)
    PROVE  AtHeader(SubSeq(s, a + 1, b), k) <=> AtHeader(SubSeq(s, a + k, e), 1)
<1> DEFINE q == SubSeq(s, a + 1, b)
           c == a + k - 1
           d == SubSeq(s, c + 1, e)
<1>1. /\ c \in Nat /\ c + 1 = a + k /\ c <= e /\ e <= e /\ 1 \in 1..(e - c)
      /\ 2 \in 1..(e - c) /\ k \in 1..(b - a) /\ k + 1 \in 1..(b - a)
      /\ c + 2 = a + (k + 1)
  OBVIOUS
<1>2. Len(q) = b - a /\ \A i \in 1..(b - a) : q[i] = s[a + i]
  BY Longer
<1> HIDE DEF c
<1>3. Len(d) = e - c /\ \A i \in 1..(e - c) : d[i] = s[c + i]
  BY <1>1, Longer
<1> HIDE DEF q, d
<1>4. q[k] = s[a + k] /\ q[k + 1] = s[a + (k + 1)] /\ k < Len(q)
  BY <1>1, <1>2
<1>5. d[1] = s[a + k] /\ d[1 + 1] = s[a + (k + 1)] /\ 1 < Len(d)
  BY <1>1, <1>3
<1>6. AtHeader(q, k) <=> AtHeader(d, 1)
  BY <1>4, <1>5 DEF AtHeader
<1> QED
  BY <1>1, <1>6 DEF q, d

\* What the bytes held say of a frame at their start does not change when
\* more follow.
LEMMA FrameSame ==
    ASSUME NEW s \in Seq(Byte), NEW a \in Nat, NEW b \in Nat, NEW e \in Nat,
           a <= b, b <= e, e <= Len(s)
    PROVE  LET q == SubSeq(s, a + 1, b)
               d == SubSeq(s, a + 1, e)
           IN  /\ Aligned(q) => Aligned(d) /\ (LengthOk(d) <=> LengthOk(q))
               /\ Complete(q) => /\ Complete(d) /\ Req(d) = Req(q)
                                 /\ Req(q) \in 1..(b - a)
                                 /\ ChecksumOk(d) <=> ChecksumOk(q)
                                 /\ Frame(d) = Frame(q)
<1> DEFINE q == SubSeq(s, a + 1, b)
           d == SubSeq(s, a + 1, e)
<1>1. /\ q \in Seq(Byte) /\ Len(q) = b - a /\ d \in Seq(Byte) /\ Len(d) = e - a
      /\ \A i \in 1..(b - a) : d[i] = q[i]
      /\ \A x, y \in Nat : x <= y /\ y <= b - a =>
            SubSeq(d, x + 1, y) = SubSeq(q, x + 1, y)
  BY Longer
<1> HIDE DEF q, d
<1>2. ASSUME Aligned(q)
      PROVE  /\ Aligned(d) /\ d[3] = q[3] /\ 4 <= b - a
  <2>1. b - a >= 4 /\ q[1] = Pre0 /\ q[1 + 1] = Pre1
    BY <1>1, <1>2 DEF Aligned, AtHeader
  <2>2. 1 \in 1..(b - a) /\ 2 \in 1..(b - a) /\ 3 \in 1..(b - a) /\ e - a >= 4
    BY <2>1
  <2>3. d[1] = Pre0 /\ d[1 + 1] = Pre1 /\ d[3] = q[3]
    BY <1>1, <2>1, <2>2
  <2>4. Len(d) >= 4 /\ 1 < Len(d)
    BY <1>1, <2>2
  <2> QED
    BY <2>1, <2>3, <2>4 DEF Aligned, AtHeader
<1>3. ASSUME Complete(q)
      PROVE  /\ Complete(d) /\ Req(d) = Req(q) /\ Req(q) \in 1..(b - a)
             /\ ChecksumOk(d) <=> ChecksumOk(q)
             /\ Frame(d) = Frame(q)
  <2> DEFINE r == Req(q)
  <2>1. Aligned(q) /\ LengthOk(q) /\ Len(q) >= r
    BY <1>3 DEF Complete
  <2>2. d[3] = q[3] /\ Aligned(d)
    BY <1>2, <2>1
  <2>3. LengthOk(d) /\ Req(d) = r
    BY <2>1, <2>2 DEF LengthOk, Req
  <2>4. /\ r \in Nat /\ r >= 4 + IdSize /\ IdSize \in Nat /\ r <= b - a
    <3>1. IdSize \in Nat /\ MaxDlc \in Nat
      BY SizesAssumption
    <3>2. q[3] \in (2 + IdSize + 0 + 1)..(2 + IdSize + MaxDlc + 1) /\ r = 3 + q[3]
      BY <2>1 DEF LengthOk, MinLn, MaxLn, Req
    <3> HIDE DEF r
    <3> QED
      BY <1>1, <2>1, <3>1, <3>2
  <2> HIDE DEF r
  <2>5. Len(d) >= Req(d)
    BY <1>1, <2>3, <2>4
  <2>6. /\ 3 \in Nat /\ r - 1 \in Nat /\ 3 <= r - 1 /\ r - 1 <= b - a
        /\ 3 + IdSize \in Nat /\ 3 <= 3 + IdSize /\ 3 + IdSize <= b - a
        /\ 3 + IdSize <= r - 1 /\ 3 + 1 = 4 /\ (3 + IdSize) + 1 = 4 + IdSize
        /\ r \in 1..(b - a)
    BY <2>4
  <2>7. SubSeq(d, 3 + 1, r - 1) = SubSeq(q, 3 + 1, r - 1)
    BY <1>1, <2>6
  <2>8. SubSeq(d, 3 + 1, 3 + IdSize) = SubSeq(q, 3 + 1, 3 + IdSize)
    BY <1>1, <2>6
  <2>9. SubSeq(d, (3 + IdSize) + 1, r - 1) = SubSeq(q, (3 + IdSize) + 1, r - 1)
    BY <1>1, <2>6
  <2>10. d[r] = q[r]
    BY <1>1, <2>6
  <2>11. ChecksumOk(d) <=> ChecksumOk(q)
    BY <2>2, <2>3, <2>6, <2>7, <2>10 DEF ChecksumOk, r
  <2>12. Frame(d) = Frame(q)
    <3>1. SubSeq(d, 4, 3 + IdSize) = SubSeq(q, 4, 3 + IdSize)
      BY <2>6, <2>8
    <3>2. SubSeq(d, 4 + IdSize, r - 1) = SubSeq(q, 4 + IdSize, r - 1)
      BY <2>6, <2>9
    <3> QED
      BY <2>3, <3>1, <3>2 DEF Frame, r
  <2> QED
    BY <2>2, <2>3, <2>5, <2>6, <2>11, <2>12 DEF Complete, r
<1>4. Aligned(q) => Aligned(d) /\ (LengthOk(d) <=> LengthOk(q))
  BY <1>2 DEF LengthOk
<1> QED
  BY <1>3, <1>4 DEF q, d

-----------------------------------------------------------------------------
(***************************************************************************)
(* The accumulator                                                          *)
(***************************************************************************)

\* The slice has the length of the buffer; it is the buffer's content unless
\* the copy overlaps it.
LEMMA DataIs ==
    ASSUME NEW b \in Buffer
    PROVE  /\ Data(b) \in Seq(Byte) /\ Len(Data(b)) = Len(b.q)
           /\ ~Tears(b) => Data(b) = b.q
<1> DEFINE n == Len(b.q)
           q == b.q
           o == b.off
           t == [j \in 1..n |-> IF o + j <= n THEN q[o + j] ELSE q[j]]
<1>1. q \in Seq(Byte) /\ n \in Nat /\ DOMAIN q = 1..n /\ o \in Nat /\ q \in [1..n -> Byte]
  BY DEF Buffer
<1>2. Data(b) = IF Compacts(b) THEN t ELSE q
  BY <1>1 DEF Data
<1>3. \A j \in 1..n : o + j <= n => o + j \in 1..n
  BY <1>1
<1> HIDE DEF n, q, o
<1>4. t \in [1..n -> Byte]
  BY <1>1, <1>3
<1>5. t \in Seq(Byte) /\ Len(t) = n
  BY <1>1, <1>4
<1>6. ASSUME o \notin 1..(n - 1) PROVE t = q
  <2>1. o = 0 \/ o >= n
    BY <1>1, <1>6
  <2>2. ASSUME NEW j \in 1..n PROVE t[j] = q[j]
    <3>1. CASE o = 0
      <4>1. o + j = j
        BY <3>1
      <4> QED
        BY <4>1
    <3>2. CASE o >= n
      <4>1. ~(o + j <= n)
        BY <1>1, <3>2
      <4> QED
        BY <4>1
    <3> QED
      BY <2>1, <3>1, <3>2
  <2> QED
    BY <1>1, <1>4, <2>2
<1>7. ~Tears(b) => ~Compacts(b) \/ o \notin 1..(n - 1)
  BY DEF Tears, o, n
<1> HIDE DEF t
<1>8. Data(b) \in Seq(Byte) /\ Len(Data(b)) = n
  BY <1>1, <1>2, <1>5 DEF n, q
<1>9. ~Tears(b) => Data(b) = q
  BY <1>2, <1>6, <1>7
<1> QED
  BY <1>8, <1>9 DEF n, q

\* CompactBuffer, Next and Write, by what becomes of the unread bytes.
LEMMA BufferIs ==
    ASSUME NEW b \in Buffer
    PROVE  /\ CompactBuffer(b) \in Buffer /\ CompactBuffer(b).q = b.q
           /\ \A n \in 0..Len(b.q) :
                 /\ InNext(b, n) \in Buffer
                 /\ InNext(b, n).q = SubSeq(b.q, n + 1, Len(b.q))
           /\ \A p \in Seq(Byte) : Write(b, p) \in Buffer /\ Write(b, p).q = b.q \o p
<1>1. b.q \in Seq(Byte) /\ b.off \in Nat /\ b.cap \in Int /\ Len(b.q) \in Nat
  BY DEF Buffer
<1>2. CompactBuffer(b) \in Buffer /\ CompactBuffer(b).q = b.q
  BY DEF CompactBuffer, Buffer
<1>3. ASSUME NEW n \in 0..Len(b.q)
      PROVE  /\ InNext(b, n) \in Buffer
             /\ InNext(b, n).q = SubSeq(b.q, n + 1, Len(b.q))
  <2> DEFINE l == Len(b.q)
  <2>1. n \in Nat /\ l \in Nat /\ n <= l /\ l <= Len(b.q)
    BY <1>1
  <2>2. SubSeq(b.q, n + 1, l) \in Seq(Byte)
    BY <1>1, <2>1, SliceAt
  <2>3. b.off + n \in Nat
    BY <1>1, <2>1
  <2> QED
    BY <2>2, <2>3 DEF InNext, Buffer
<1>4. ASSUME NEW p \in Seq(Byte)
      PROVE  Write(b, p) \in Buffer /\ Write(b, p).q = b.q \o p
  <2> DEFINE n == Len(p)
  <2>1. n \in Nat
    OBVIOUS
  <2>2. b.q \o p \in Seq(Byte)
    BY <1>1, ConcatProperties
  <2> HIDE DEF n
  <2>3. Grow(b, n) \in Buffer /\ Grow(b, n).q = b.q
    <3> DEFINE r == IF b.q = <<>> THEN [b EXCEPT !.off = 0] ELSE b
               moved == Used(r) + n
               twice == 2 * (r.cap - r.off)
               c == IF moved < twice THEN twice ELSE moved
    <3>1. r \in Buffer /\ r.q = b.q
      BY DEF Buffer
    <3>2. r.off \in Nat /\ r.cap \in Int /\ Len(r.q) \in Nat
      BY <1>1, <3>1 DEF Buffer
    <3> HIDE DEF r
    <3>3. moved \in Int /\ twice \in Int
      BY <2>1, <3>2 DEF Used
    <3>4. c \in Int
      BY <3>3
    <3>5. Grow(b, n) \in {r, [r EXCEPT !.cap = MinAlloc], [r EXCEPT !.off = 0],
                          [r EXCEPT !.off = 0, !.cap = c]}
      BY DEF Grow, r
    <3> HIDE DEF c
    <3>6. MinAlloc \in Int
      BY SizesAssumption
    <3> DEFINE x == [r EXCEPT !.cap = MinAlloc]
               y == [r EXCEPT !.off = 0]
               z == [r EXCEPT !.off = 0, !.cap = c]
    <3>7. x \in Buffer /\ x.q = r.q
      BY <3>1, <3>6 DEF Buffer
    <3>8. y \in Buffer /\ y.q = r.q
      BY <3>1 DEF Buffer
    <3>9. z \in Buffer /\ z.q = r.q
      BY <3>1, <3>4 DEF Buffer
    <3> HIDE DEF x, y, z
    <3>10. Grow(b, n) \in {r, x, y, z}
      BY <3>5 DEF x, y, z
    <3> QED
      BY <3>1, <3>7, <3>8, <3>9, <3>10
  <2>4. Write(b, p) = IF Fits(b, n) THEN [b EXCEPT !.q = @ \o p]
                      ELSE [Grow(b, n) EXCEPT !.q = @ \o p]
    BY DEF Write, n
  <2> QED
    BY <2>2, <2>3, <2>4 DEF Buffer
<1> QED
  BY <1>2, <1>3, <1>4

-----------------------------------------------------------------------------
(***************************************************************************)
(* The steps                                                                *)
(***************************************************************************)

\* What a turn of the loop leaves of the buffer: all but the n bytes taken.
LEMMA NextLeaves ==
    ASSUME NEW b \in Buffer, NEW n \in 0..Len(b.q)
    PROVE  /\ InNext(CompactBuffer(b), n) \in Buffer
           /\ InNext(CompactBuffer(b), n).q = SubSeq(b.q, n + 1, Len(b.q))
<1> DEFINE c == CompactBuffer(b)
<1>1. c \in Buffer /\ c.q = b.q /\ n \in 0..Len(c.q)
  BY BufferIs
<1> HIDE DEF c
<1>2. InNext(c, n) \in Buffer /\ InNext(c, n).q = SubSeq(c.q, n + 1, Len(c.q))
  BY ONLY <1>1, BufferIs
<1> QED
  BY <1>1, <1>2 DEF c

\* The bytes of the line.
LEMMA StreamTyped ==
    ASSUME line \in Lines
    PROVE  Stream \in Seq(Byte) /\ Len(Stream) \in Nat
<1> DEFINE n  == Len(line)
           ss == [i \in DOMAIN line |-> line[i].bytes]
<1>1. line \in Seq(Piece)
  BY LinesAssumption
<1>2. n \in Nat /\ DOMAIN line = 1..n /\ \A i \in 1..n : line[i] \in Piece
  BY <1>1
<1>3. \A i \in 1..n : line[i].bytes \in Seq(Byte)
  BY <1>2 DEF Piece
<1>4. ss \in Seq(Seq(Byte))
  BY <1>2, <1>3
<1> HIDE DEF ss
<1>5. FlattenSeq(ss) \in Seq(Byte)
  BY <1>4, FlattenAt
<1> QED
  BY <1>5 DEF Stream, ss

\* The invariant when the line and what is read of it stay, and the bytes
\* consumed come to be c.
LEMMA Advance ==
    ASSUME Types, PlaceInv, FoundInv, line' = line, pos' = pos,
           NEW c \in Consumed..pos, acc'.q = SubSeq(Stream, c + 1, pos),
           \A e \in pos..Len(Stream) :
              emitted \o Found(Stream, e, Consumed + 1)
                = emitted' \o Found(Stream, e, c + 1),
           stage' = "read" => Found(Stream, pos, c + 1) = <<>>
    PROVE  PlaceInv' /\ FoundInv'
<1>1. Stream' = Stream
  BY DEF Stream
<1>2. Stream \in Seq(Byte) /\ Len(Stream) \in Nat
  BY StreamTyped DEF Types
<1>3. pos \in Nat /\ pos <= Len(Stream) /\ c \in Nat /\ c <= pos /\ c \in 0..pos
  BY <1>2 DEF Types, PlaceInv
<1>4. Len(SubSeq(Stream, c + 1, pos)) = pos - c
  BY <1>2, <1>3, SliceAt
<1>5. Consumed' = c
  BY <1>3, <1>4 DEF Consumed
<1>6. PlaceInv'
  BY <1>1, <1>3, <1>5 DEF PlaceInv
<1>7. FoundInv'
  BY <1>1, <1>5 DEF FoundInv, Found
<1> QED
  BY <1>6, <1>7

\* DecodeStream returns with the bytes of b: its short rest, in which nothing
\* is found as yet.
LEMMA ReturnStep ==
    ASSUME DecodeInv, stage = "decode", NEW b \in Buffer, Return(b),
           Len(b.q) < 3 + MaxLn,
           ~torn /\ ~Tears(acc) =>
              \E c \in Consumed..pos :
                 /\ b.q = SubSeq(Stream, c + 1, pos)
                 /\ \A e \in pos..Len(Stream) :
                       Found(Stream, e, Consumed + 1) = Found(Stream, e, c + 1)
                 /\ Found(Stream, pos, c + 1) = <<>>
    PROVE  DecodeInv'
<1>1. /\ line' = line /\ pos' = pos /\ emitted' = emitted /\ stage' = "read"
      /\ torn' = (torn \/ Tears(acc))
      /\ acc' = IF b.q = <<>> /\ b.cap > Reclaim THEN NewBuffer ELSE b
  BY DEF Return
<1>2. acc' \in Buffer /\ acc'.q = b.q
  <2>1. NewBuffer \in Buffer /\ NewBuffer.q = <<>>
    BY EmptySeq DEF NewBuffer, Buffer
  <2> QED
    BY <1>1, <2>1
<1>3. Stream' = Stream
  BY <1>1 DEF Stream
<1>4. Types'
  <2>1. torn' \in BOOLEAN
    BY <1>1 DEF DecodeInv, Types, Tears, Compacts
  <2> QED
    BY <1>1, <1>2, <1>3, <2>1 DEF DecodeInv, Types
<1>5. ResidueBounded'
  BY <1>2 DEF ResidueBounded, MaxLn
<1>6. ASSUME ~torn' PROVE PlaceInv' /\ FoundInv'
  <2>1. ~torn /\ ~Tears(acc)
    BY <1>1, <1>6
  <2>2. Types /\ PlaceInv /\ FoundInv
    BY <2>1 DEF DecodeInv
  <2>3. PICK c \in Consumed..pos :
           /\ b.q = SubSeq(Stream, c + 1, pos)
           /\ \A e \in pos..Len(Stream) :
                 Found(Stream, e, Consumed + 1) = Found(Stream, e, c + 1)
           /\ Found(Stream, pos, c + 1) = <<>>
    BY <2>1
  <2>4. \A e \in pos..Len(Stream) :
           emitted \o Found(Stream, e, Consumed + 1)
             = emitted' \o Found(Stream, e, c + 1)
    BY <1>1, <2>3
  <2> QED
    BY <1>1, <1>2, <2>2, <2>3, <2>4, Advance
<1> QED
  BY <1>4, <1>5, <1>6 DEF DecodeInv

\* A turn of the loop that consumes n bytes.
LEMMA ContinueStep ==
    ASSUME DecodeInv, stage = "decode", NEW n \in 0..Len(acc.q), Continue(n),
           emitted' \in Seq(Frames),
           ~torn /\ ~Tears(acc) =>
              \A e \in pos..Len(Stream) :
                 emitted \o Found(Stream, e, Consumed + 1)
                   = emitted' \o Found(Stream, e, Consumed + n + 1)
    PROVE  DecodeInv'
<1>1. /\ line' = line /\ pos' = pos /\ stage' = stage
      /\ torn' = (torn \/ Tears(acc)) /\ acc' = InNext(CompactBuffer(acc), n)
  BY DEF Continue
<1>2. acc \in Buffer /\ CompactBuffer(acc) \in Buffer /\ CompactBuffer(acc).q = acc.q
  BY BufferIs DEF DecodeInv, Types
<1>3. acc' \in Buffer /\ acc'.q = SubSeq(acc.q, n + 1, Len(acc.q))
  BY <1>1, <1>2, NextLeaves
<1>4. Stream' = Stream
  BY <1>1 DEF Stream
<1>5. Types'
  <2>1. torn' \in BOOLEAN
    BY <1>1 DEF DecodeInv, Types, Tears, Compacts
  <2> QED
    BY <1>1, <1>3, <1>4, <2>1 DEF DecodeInv, Types
<1>6. ResidueBounded'
  BY <1>1 DEF ResidueBounded
<1>7. ASSUME ~torn' PROVE PlaceInv' /\ FoundInv'
  <2> DEFINE c == Consumed + n
             l == Len(acc.q)
             k == Consumed
  <2>1. ~torn /\ ~Tears(acc)
    BY <1>1, <1>7
  <2>2. Types /\ PlaceInv /\ FoundInv
    BY <2>1 DEF DecodeInv
  <2>3. /\ Stream \in Seq(Byte) /\ Len(Stream) \in Nat /\ pos \in Nat
        /\ pos <= Len(Stream) /\ k \in Nat /\ k <= pos
        /\ acc.q = SubSeq(Stream, k + 1, pos) /\ l \in Nat
    BY <1>2, <2>2, StreamTyped DEF Types, PlaceInv, Buffer
  <2> HIDE DEF k
  <2>4. l = pos - k
    BY <2>3, SliceAt
  <2> HIDE DEF l
  <2>5. /\ n \in Nat /\ n <= l /\ l <= pos - k /\ k + n \in k..pos /\ k + l = pos
    BY <2>3, <2>4 DEF l
  <2>6. SubSeq(SubSeq(Stream, k + 1, pos), n + 1, l) = SubSeq(Stream, (k + n) + 1, k + l)
    BY <2>3, <2>5, SliceSlice
  <2>7. c \in Consumed..pos /\ acc'.q = SubSeq(Stream, c + 1, pos)
    BY <1>3, <2>3, <2>5, <2>6 DEF k, l
  <2>8. \A e \in pos..Len(Stream) :
           emitted \o Found(Stream, e, Consumed + 1)
             = emitted' \o Found(Stream, e, c + 1)
    BY <2>1
  <2>9. stage' # "read"
    BY <1>1
  <2> HIDE DEF c
  <2> QED
    BY <1>1, <2>2, <2>7, <2>8, <2>9, Advance
<1> QED
  BY <1>5, <1>6, <1>7 DEF DecodeInv

\* The accumulator as DecodeStream sees it, when nothing is torn.
LEMMA Held ==
    ASSUME DecodeInv, ~torn, ~Tears(acc)
    PROVE  /\ Types /\ PlaceInv /\ FoundInv /\ Data(acc) = acc.q
           /\ Stream \in Seq(Byte) /\ Len(Stream) \in Nat
           /\ pos \in Nat /\ pos <= Len(Stream)
           /\ Consumed \in Nat /\ Consumed <= pos
           /\ acc.q = SubSeq(Stream, Consumed + 1, pos)
           /\ Len(acc.q) = pos - Consumed
<1>1. Types /\ PlaceInv /\ FoundInv /\ acc \in Buffer
  BY DEF DecodeInv, Types
<1>2. Data(acc) = acc.q
  BY <1>1, DataIs
<1>3. /\ Stream \in Seq(Byte) /\ Len(Stream) \in Nat
      /\ pos \in Nat /\ pos <= Len(Stream) /\ Consumed \in Nat /\ Consumed <= pos
      /\ acc.q = SubSeq(Stream, Consumed + 1, pos)
  BY <1>1, StreamTyped DEF Types, PlaceInv
<1>4. Len(SubSeq(Stream, Consumed + 1, pos)) = pos - Consumed
  BY <1>3, SliceAt
<1> QED
  BY <1>1, <1>2, <1>3, <1>4

\* Held bytes without a preamble in them are noise, up to the last one.
LEMMA HeldNoise ==
    ASSUME DecodeInv, ~torn, ~Tears(acc), NEW j \in 0..(pos - Consumed - 1),
           \A i \in 1..j : ~AtHeader(acc.q, i),
           NEW e \in pos..Len(Stream)
    PROVE  Found(Stream, e, Consumed + 1) = Found(Stream, e, Consumed + j + 1)
<1> DEFINE c == Consumed
           s == Stream
<1>1. /\ s \in Seq(Byte) /\ Len(s) \in Nat /\ pos \in Nat /\ pos <= Len(s)
      /\ c \in Nat /\ c <= pos /\ acc.q = SubSeq(s, c + 1, pos)
  BY Held
<1> HIDE DEF c, s
<1>2. e \in Nat /\ pos <= e /\ e <= Len(s) /\ e \in 0..Len(s) /\ j \in 0..(pos - c - 1)
  BY <1>1 DEF c, s
<1>3. ASSUME NEW k \in (c + 1)..(c + j + 1 - 1) PROVE ~AtHeader(SubSeq(s, k, e), 1)
  <2> DEFINE i == k - c
  <2>1. i \in 1..j /\ i \in 1..(pos - c - 1) /\ c + i = k
    BY <1>1, <1>2
  <2> HIDE DEF i
  <2>2. AtHeader(SubSeq(s, c + 1, pos), i) <=> AtHeader(SubSeq(s, c + i, e), 1)
    BY <1>1, <1>2, <2>1, HeaderSame
  <2> QED
    BY <1>1, <2>1, <2>2
<1>4. c + 1 \in 1..(e + 1) /\ c + j + 1 \in (c + 1)..(e + 1)
  BY <1>1, <1>2
<1>5. Found(s, e, c + 1) = Found(s, e, c + j + 1)
  BY <1>1, <1>2, <1>3, <1>4, Skips
<1> QED
  BY <1>5 DEF c, s

\* A last byte alone holds no frame.
LEMMA LastByte ==
    ASSUME NEW s \in Seq(Byte), NEW e \in 1..Len(s)
    PROVE  Found(s, e, e) = <<>>
<1> DEFINE a == e - 1
           d == SubSeq(s, e, e)
<1>1. /\ a \in Nat /\ e \in Nat /\ a <= e /\ e <= Len(s) /\ a + 1 = e /\ e - a = 1
      /\ e \in 0..Len(s) /\ e \in 1..(e + 1) /\ e + 1 \in 1..(e + 1) /\ e <= e
      /\ e + 1 > e
  OBVIOUS
<1>2. Len(SubSeq(s, a + 1, e)) = e - a
  BY <1>1, SliceAt
<1>3. Len(d) = 1
  BY <1>1, <1>2
<1>4. ~AtHeader(d, 1)
  BY <1>3 DEF AtHeader
<1>5. ~Ends(d) /\ ~Takes(d)
  BY <1>4 DEF Ends, Takes, Complete, Aligned
<1>6. Found(s, e, e) = Found(s, e, e + 1)
  BY <1>1, <1>5, FoundIs
<1>7. Found(s, e, e + 1) = <<>>
  BY <1>1, FoundIs
<1> QED
  BY <1>6, <1>7

\* The bytes held at the end of what is read.
LEMMA HeldEnd ==
    ASSUME DecodeInv, ~torn, ~Tears(acc), Ends(acc.q)
    PROVE  Found(Stream, pos, Consumed + 1) = <<>>
<1>1. /\ Stream \in Seq(Byte) /\ pos \in 0..Len(Stream)
      /\ Consumed + 1 \in 1..(pos + 1) /\ acc.q = SubSeq(Stream, Consumed + 1, pos)
  BY Held
<1> DEFINE i == Consumed + 1
<1> HIDE DEF i
<1>2. /\ Stream \in Seq(Byte) /\ pos \in 0..Len(Stream) /\ i \in 1..(pos + 1)
      /\ Ends(SubSeq(Stream, i, pos))
  BY <1>1 DEF i
<1>3. Found(Stream, pos, i) = <<>>
  BY <1>2, FoundIs
<1> QED
  BY <1>3 DEF i

\* The sizes of the frame format.
LEMMA Sizes == MinLn \in Nat /\ MaxLn \in Nat /\ MinLn >= 3 /\ MaxLn >= 3
  BY SizesAssumption DEF MinLn, MaxLn

\* The returns that wait for more: nothing consumed, nothing found.
LEMMA WaitStep ==
    ASSUME DecodeInv, stage = "decode", Return(CompactBuffer(acc)),
           Len(acc.q) < 3 + MaxLn,
           ~torn /\ ~Tears(acc) => Found(Stream, pos, Consumed + 1) = <<>>
    PROVE  DecodeInv'
<1> DEFINE b == CompactBuffer(acc)
<1>1. b \in Buffer /\ b.q = acc.q
  BY BufferIs DEF DecodeInv, Types
<1>2. ASSUME ~torn, ~Tears(acc)
      PROVE  /\ Consumed \in Consumed..pos
             /\ b.q = SubSeq(Stream, Consumed + 1, pos)
             /\ Found(Stream, pos, Consumed + 1) = <<>>
  BY <1>1, <1>2, Held
<1> HIDE DEF b
<1>3. Return(b) /\ Len(b.q) < 3 + MaxLn
  BY <1>1 DEF b
<1> QED
  BY <1>1, <1>2, <1>3, ReturnStep

\* DecodeStream returns with too few bytes for a length.
LEMMA ShortStep ==
    ASSUME DecodeInv, Short
    PROVE  DecodeInv'
<1> DEFINE n == Len(acc.q)
<1>1. /\ stage = "decode" /\ Return(CompactBuffer(acc))
      /\ Len(Data(acc)) < 3 \/ (Len(Data(acc)) < 4 /\ AtHeader(Data(acc), 1))
  BY DEF Short
<1>2. Len(Data(acc)) = n /\ n \in Nat
  BY DataIs DEF DecodeInv, Types, Buffer
<1>3. n < 4 /\ n < 3 + MaxLn
  BY <1>1, <1>2, Sizes
<1>4. ASSUME ~torn, ~Tears(acc) PROVE Found(Stream, pos, Consumed + 1) = <<>>
  <2>1. /\ Data(acc) = acc.q /\ Stream \in Seq(Byte) /\ Len(Stream) \in Nat
        /\ pos \in Nat /\ pos <= Len(Stream) /\ Consumed \in Nat /\ Consumed <= pos
        /\ n = pos - Consumed
    BY <1>4, Held
  <2>2. CASE AtHeader(acc.q, 1)
    <3>1. Ends(acc.q)
      BY <1>3, <2>2 DEF Ends
    <3> QED
      BY <1>4, <3>1, HeldEnd
  <2>3. CASE ~AtHeader(acc.q, 1) /\ n = 0
    <3>1. Consumed = pos /\ pos \in 0..Len(Stream) /\ pos + 1 \in 1..(pos + 1)
          /\ pos + 1 > pos
      BY <2>1, <2>3
    <3>2. Found(Stream, pos, pos + 1) = <<>>
      BY <2>1, <3>1, FoundIs
    <3> QED
      BY <3>1, <3>2
  <2>4. CASE ~AtHeader(acc.q, 1) /\ n # 0
    <3> DEFINE j == n - 1
    <3>1. n \in {1, 2}
      BY <1>1, <1>2, <2>1, <2>4
    <3>2. /\ j \in 0..(pos - Consumed - 1) /\ (\A i \in 1..j : i = 1)
          /\ pos \in pos..Len(Stream) /\ Consumed + j + 1 = pos /\ pos \in 1..Len(Stream)
      BY <2>1, <3>1
    <3> HIDE DEF j
    <3>3. \A i \in 1..j : ~AtHeader(acc.q, i)
      BY <2>4, <3>2
    <3>4. Found(Stream, pos, Consumed + 1) = Found(Stream, pos, Consumed + j + 1)
      BY <1>4, <3>2, <3>3, HeldNoise
    <3>5. Found(Stream, pos, pos) = <<>>
      BY <2>1, <3>2, LastByte
    <3> QED
      BY <3>2, <3>4, <3>5
  <2> QED
    BY <2>2, <2>3, <2>4
<1> QED
  BY <1>1, <1>3, <1>4, WaitStep

\* DecodeStream waits for the rest of a frame.
LEMMA UnfinishedStep ==
    ASSUME DecodeInv, Wait
    PROVE  DecodeInv'
<1> DEFINE d == Data(acc)
<1>1. /\ stage = "decode" /\ Return(CompactBuffer(acc))
      /\ Aligned(d) /\ LengthOk(d) /\ Len(d) < Req(d)
  BY DEF Wait
<1>2. Len(d) = Len(acc.q) /\ Len(acc.q) \in Nat
  BY DataIs DEF DecodeInv, Types, Buffer
<1> HIDE DEF d
<1>3. Len(acc.q) < 3 + MaxLn
  BY <1>1, <1>2, Sizes DEF LengthOk, Req
<1>4. ASSUME ~torn, ~Tears(acc) PROVE Found(Stream, pos, Consumed + 1) = <<>>
  <2>1. d = acc.q
    BY <1>4, Held DEF d
  <2>2. Ends(acc.q)
    BY <1>1, <2>1 DEF Ends
  <2> QED
    BY <1>4, <2>2, HeldEnd
<1> QED
  BY <1>1, <1>3, <1>4, WaitStep

\* All but the last byte is dropped when there is no preamble.
LEMMA NoHeaderStep ==
    ASSUME DecodeInv, NoHeader
    PROVE  DecodeInv'
<1> DEFINE d == Data(acc)
           n == Len(d)
           b == [q |-> Residue(d), off |-> 0, cap |-> acc.cap]
<1>1. stage = "decode" /\ n >= 3 /\ ~HasHeader(d) /\ Return(b)
  BY DEF NoHeader
<1>2. acc \in Buffer /\ d \in Seq(Byte) /\ n = Len(acc.q) /\ n \in Nat
  BY DataIs DEF DecodeInv, Types
<1>3. Residue(d) = <<d[n]>> /\ d[n] \in Byte
  BY <1>1, <1>2 DEF Residue, Last
<1>4. b \in Buffer /\ b.q = <<d[n]>>
  BY <1>2, <1>3 DEF Buffer
<1>5. Len(b.q) < 3 + MaxLn
  <2>1. Len(<<d[n]>>) = 1
    OBVIOUS
  <2>2. Len(b.q) = 1
    BY <1>4, <2>1
  <2> HIDE DEF b
  <2> QED
    BY <2>2, Sizes
<1>6. ASSUME ~torn, ~Tears(acc)
      PROVE  \E c \in Consumed..pos :
                /\ b.q = SubSeq(Stream, c + 1, pos)
                /\ \A e \in pos..Len(Stream) :
                      Found(Stream, e, Consumed + 1) = Found(Stream, e, c + 1)
                /\ Found(Stream, pos, c + 1) = <<>>
  <2> DEFINE c == pos - 1
             k == Consumed
             j == n - 1
  <2>1. /\ d = acc.q /\ Stream \in Seq(Byte) /\ Len(Stream) \in Nat
        /\ pos \in Nat /\ pos <= Len(Stream) /\ k \in Nat /\ k <= pos
        /\ d = SubSeq(Stream, k + 1, pos) /\ n = pos - k
    BY <1>6, Held
  <2> HIDE DEF d, n, k, b
  <2>2. /\ c \in Nat /\ c \in k..pos /\ c <= pos /\ c + 1 = pos /\ pos - c = 1
        /\ j \in 0..(pos - k - 1) /\ k + j + 1 = pos /\ pos \in 1..Len(Stream)
        /\ n \in 1..(pos - k) /\ k + n = pos
    BY <1>1, <2>1
  <2>3. d[n] = Stream[pos]
    <3>1. \A i \in 1..(pos - k) : SubSeq(Stream, k + 1, pos)[i] = Stream[k + i]
      BY <2>1, SliceAt
    <3> QED
      BY <2>1, <2>2, <3>1
  <2>4. <<d[n]>> = SubSeq(Stream, c + 1, pos)
    <3> DEFINE t == <<d[n]>>
    <3>1. t \in Seq(Byte) /\ Len(t) = pos - c /\ t[1] = Stream[pos]
      BY <1>3, <2>2, <2>3
    <3>2. \A i \in 1..(pos - c) : i = 1 /\ c + i = pos
      BY <2>2
    <3> HIDE DEF t, c
    <3>3. \A i \in 1..(pos - c) : t[i] = Stream[c + i]
      BY <3>1, <3>2
    <3>4. t = SubSeq(Stream, c + 1, pos)
      BY <2>1, <2>2, <3>1, <3>3, SliceIs
    <3> QED
      BY <3>4 DEF t
  <2>5. \A i \in 1..j : ~AtHeader(acc.q, i)
    <3>1. DOMAIN d = 1..n /\ \A i \in 1..j : i \in 1..n
      BY <1>2, <2>1, <2>2 DEF n
    <3> QED
      BY <1>1, <2>1, <3>1 DEF HasHeader
  <2> HIDE DEF j, c
  <2>6. ASSUME NEW e \in pos..Len(Stream)
        PROVE  Found(Stream, e, Consumed + 1) = Found(Stream, e, c + 1)
    <3>1. Found(Stream, e, Consumed + 1) = Found(Stream, e, Consumed + j + 1)
      BY <1>6, <2>2, <2>5, HeldNoise DEF k
    <3> QED
      BY <2>2, <3>1 DEF k
  <2>7. Found(Stream, pos, c + 1) = <<>>
    BY <2>1, <2>2, LastByte
  <2>8. c \in Consumed..pos /\ b.q = SubSeq(Stream, c + 1, pos)
    BY <1>4, <2>2, <2>4 DEF k
  <2> QED
    BY <2>6, <2>7, <2>8
<1> HIDE DEF b
<1> QED
  BY <1>1, <1>4, <1>5, <1>6, ReturnStep

\* bytes.Index finds the first preamble.
LEMMA IndexIs ==
    ASSUME NEW d \in Seq(Byte), HasHeader(d)
    PROVE  /\ Index(d) \in 1..Len(d) /\ AtHeader(d, Index(d))
           /\ \A i \in 1..(Index(d) - 1) : ~AtHeader(d, i)
<1> DEFINE T == {i \in DOMAIN d : AtHeader(d, i)}
<1>1. DOMAIN d = 1..Len(d) /\ Len(d) \in Nat
  OBVIOUS
<1>2. T \in SUBSET Nat /\ T # {}
  BY <1>1 DEF HasHeader
<1>3. PICK m \in T : \A k \in T : m <= k
  BY <1>2, Least
<1>4. \A i \in 1..(m - 1) : i \in DOMAIN d /\ ~(m <= i)
  BY <1>1, <1>3
<1>5. m \in DOMAIN d /\ AtHeader(d, m) /\ \A i \in 1..(m - 1) : ~AtHeader(d, i)
  BY <1>3, <1>4
<1> QED
  BY <1>1, <1>5 DEF Index

\* What precedes the first preamble is dropped.
LEMMA AlignStep ==
    ASSUME DecodeInv, Align
    PROVE  DecodeInv'
<1> DEFINE d == Data(acc)
           x == Index(d)
           j == x - 1
<1>1. stage = "decode" /\ HasHeader(d) /\ Continue(j) /\ emitted' = emitted
  BY DEF Align
<1>2. d \in Seq(Byte) /\ Len(d) = Len(acc.q) /\ Len(d) \in Nat /\ DOMAIN d = 1..Len(d)
  BY DataIs DEF DecodeInv, Types
<1>3. x \in 1..Len(d) /\ \A i \in 1..(x - 1) : ~AtHeader(d, i)
  BY <1>1, <1>2, IndexIs
<1> HIDE DEF x
<1>4. j \in 0..Len(acc.q)
  BY <1>2, <1>3
<1>5. emitted' \in Seq(Frames)
  BY <1>1 DEF DecodeInv, Types
<1>6. ASSUME ~torn, ~Tears(acc), NEW e \in pos..Len(Stream)
      PROVE  emitted \o Found(Stream, e, Consumed + 1)
                = emitted' \o Found(Stream, e, Consumed + j + 1)
  <2>1. d = acc.q /\ Len(acc.q) = pos - Consumed /\ pos \in Nat /\ Consumed \in Nat
    BY <1>6, Held
  <2>2. j \in 0..(pos - Consumed - 1) /\ \A i \in 1..j : ~AtHeader(acc.q, i)
    BY <1>2, <1>3, <2>1
  <2> HIDE DEF j
  <2>3. Found(Stream, e, Consumed + 1) = Found(Stream, e, Consumed + j + 1)
    BY <1>6, <2>2, HeldNoise
  <2> QED
    BY <1>1, <2>3
<1> HIDE DEF j
<1> QED
  BY <1>1, <1>4, <1>5, <1>6, ContinueStep

\* What is found at a frame that the bytes from a + 1 to b show to be bad, or
\* to be complete and intact, whatever follows them.
LEMMA FrameFound ==
    ASSUME NEW s \in Seq(Byte), NEW a \in Nat, NEW b \in Nat, NEW e \in Nat,
           a <= b, b <= e, e <= Len(s)
    PROVE  LET q == SubSeq(s, a + 1, b)
           IN  /\ (Aligned(q) /\ ~LengthOk(q)) \/ (Complete(q) /\ ~ChecksumOk(q)) =>
                     Found(s, e, a + 1) = Found(s, e, a + 1 + 1)
               /\ Complete(q) /\ ChecksumOk(q) =>
                     Found(s, e, a + 1) = <<Frame(q)>> \o Found(s, e, a + Req(q) + 1)
<1> SUFFICES ASSUME NEW q, q = SubSeq(s, a + 1, b), Aligned(q)
             PROVE  /\ ~LengthOk(q) \/ (Complete(q) /\ ~ChecksumOk(q)) =>
                          Found(s, e, a + 1) = Found(s, e, a + 1 + 1)
                    /\ Complete(q) /\ ChecksumOk(q) =>
                          Found(s, e, a + 1)
                            = <<Frame(q)>> \o Found(s, e, a + Req(q) + 1)
  BY DEF Complete
<1> DEFINE d == SubSeq(s, a + 1, e)
           i == a + 1
<1>1. /\ Aligned(q) => Aligned(d) /\ (LengthOk(d) <=> LengthOk(q))
      /\ Complete(q) => /\ Complete(d) /\ Req(d) = Req(q) /\ Req(q) \in 1..(b - a)
                        /\ ChecksumOk(d) <=> ChecksumOk(q)
                        /\ Frame(d) = Frame(q)
  BY FrameSame
<1>2. Len(q) = b - a /\ Len(d) = e - a
  BY Longer
<1>3. b - a >= 4
  BY <1>2 DEF Aligned
<1>4. i \in 1..(e + 1) /\ i <= e /\ Len(d) \in Nat /\ e \in 0..Len(s)
  BY <1>2, <1>3
<1>5. /\ ~Ends(d) /\ Takes(d) => Found(s, e, i) = <<Frame(d)>> \o Found(s, e, i + Req(d))
      /\ ~Ends(d) /\ ~Takes(d) => Found(s, e, i) = Found(s, e, i + 1)
  BY <1>4, FoundIs
<1> HIDE DEF d
<1>6. Len(d) >= 4 /\ ~(Len(d) < 4)
  BY <1>1, <1>4 DEF Aligned
<1>7. ASSUME Complete(q) PROVE ~Ends(d)
  <2>1. Req(d) \in Nat /\ Len(d) >= Req(d)
    BY <1>1, <1>7 DEF Complete
  <2>2. ~(Len(d) < Req(d))
    BY <1>4, <2>1
  <2> QED
    BY <1>6, <2>2 DEF Ends
<1>8. ASSUME ~LengthOk(q) PROVE ~Ends(d) /\ ~Takes(d)
  BY <1>1, <1>6, <1>8 DEF Ends, Takes, Complete
<1>9. ASSUME Complete(q), ~ChecksumOk(q) PROVE ~Ends(d) /\ ~Takes(d)
  BY <1>1, <1>7, <1>9 DEF Takes
<1>10. ASSUME Complete(q), ChecksumOk(q)
       PROVE  /\ Req(q) \in Nat
              /\ Found(s, e, i) = <<Frame(q)>> \o Found(s, e, a + Req(q) + 1)
  <2>1. ~Ends(d) /\ Takes(d)
    BY <1>1, <1>7, <1>10 DEF Takes
  <2>2. Req(q) \in Nat
    BY <1>1, <1>10
  <2>3. i + Req(q) = a + Req(q) + 1
    BY <2>2
  <2> QED
    BY <1>1, <1>5, <1>10, <2>1, <2>2, <2>3
<1>11. ~LengthOk(q) \/ (Complete(q) /\ ~ChecksumOk(q)) =>
          Found(s, e, i) = Found(s, e, i + 1)
  BY <1>5, <1>8, <1>9
<1> QED
  BY <1>10, <1>11

\* The same of the bytes held.
LEMMA HeldFrame ==
    ASSUME DecodeInv, ~torn, ~Tears(acc), NEW e \in pos..Len(Stream), Aligned(acc.q)
    PROVE  /\ ~LengthOk(acc.q) \/ (Complete(acc.q) /\ ~ChecksumOk(acc.q)) =>
                Found(Stream, e, Consumed + 1) = Found(Stream, e, Consumed + 1 + 1)
           /\ Complete(acc.q) /\ ChecksumOk(acc.q) =>
                Found(Stream, e, Consumed + 1)
                  = <<Frame(acc.q)>> \o Found(Stream, e, Consumed + Req(acc.q) + 1)
<1>1. /\ Stream \in Seq(Byte) /\ Len(Stream) \in Nat /\ pos \in Nat
      /\ Consumed \in Nat /\ Consumed <= pos
      /\ acc.q = SubSeq(Stream, Consumed + 1, pos)
  BY Held
<1> DEFINE c == Consumed
           q == acc.q
           s == Stream
<1>2. /\ s \in Seq(Byte) /\ c \in Nat /\ pos \in Nat /\ e \in Nat /\ c <= pos
      /\ pos <= e /\ e <= Len(s) /\ q = SubSeq(s, c + 1, pos) /\ Aligned(q)
  BY <1>1
<1> HIDE DEF c, q, s
<1>3. /\ ~LengthOk(q) \/ (Complete(q) /\ ~ChecksumOk(q)) =>
            Found(s, e, c + 1) = Found(s, e, c + 1 + 1)
      /\ Complete(q) /\ ChecksumOk(q) =>
            Found(s, e, c + 1) = <<Frame(q)>> \o Found(s, e, c + Req(q) + 1)
  <2>1. LET r == SubSeq(s, c + 1, pos)
        IN  /\ (Aligned(r) /\ ~LengthOk(r)) \/ (Complete(r) /\ ~ChecksumOk(r)) =>
                  Found(s, e, c + 1) = Found(s, e, c + 1 + 1)
            /\ Complete(r) /\ ChecksumOk(r) =>
                  Found(s, e, c + 1) = <<Frame(r)>> \o Found(s, e, c + Req(r) + 1)
    BY ONLY <1>2, FrameFound
  <2> QED
    BY <1>2, <2>1
<1> QED
  BY <1>3 DEF c, q, s

\* One byte is skipped after a bad length or a bad checksum.
LEMMA SkipStep ==
    ASSUME DecodeInv, BadLength \/ BadChecksum
    PROVE  DecodeInv'
<1> DEFINE d == Data(acc)
<1>1. /\ stage = "decode" /\ Aligned(d) /\ Continue(1) /\ emitted' = emitted
      /\ ~LengthOk(d) \/ (Complete(d) /\ ~ChecksumOk(d))
  BY DEF BadLength, BadChecksum, Skip, Complete
<1>2. Len(d) = Len(acc.q) /\ Len(d) \in Nat
  BY DataIs DEF DecodeInv, Types
<1> HIDE DEF d
<1>3. 1 \in 0..Len(acc.q)
  BY <1>1, <1>2 DEF Aligned
<1>4. emitted' \in Seq(Frames)
  BY <1>1 DEF DecodeInv, Types
<1>5. ASSUME ~torn, ~Tears(acc), NEW e \in pos..Len(Stream)
      PROVE  emitted \o Found(Stream, e, Consumed + 1)
                = emitted' \o Found(Stream, e, Consumed + 1 + 1)
  <2>1. d = acc.q
    BY <1>5, Held DEF d
  <2>2. Found(Stream, e, Consumed + 1) = Found(Stream, e, Consumed + 1 + 1)
    BY <1>1, <1>5, <2>1, HeldFrame
  <2> QED
    BY <1>1, <2>2
<1> QED
  BY <1>1, <1>3, <1>4, <1>5, ContinueStep

\* A frame is emitted and consumed.
LEMMA EmitStep ==
    ASSUME DecodeInv, Emit
    PROVE  DecodeInv'
<1> DEFINE d == Data(acc)
           f == Frame(d)
           r == Req(d)
<1>1. /\ stage = "decode" /\ Complete(d) /\ ChecksumOk(d) /\ Continue(r)
      /\ emitted' = Append(emitted, f)
  BY DEF Emit
<1>2. d \in Seq(Byte) /\ Len(d) = Len(acc.q) /\ Len(d) \in Nat /\ emitted \in Seq(Frames)
  BY DataIs DEF DecodeInv, Types
<1> HIDE DEF d
<1>3. f \in Frames
  BY <1>2 DEF Frames
<1>4. r \in 0..Len(acc.q)
  <2>1. d[3] \in MinLn..MaxLn /\ r = 3 + d[3] /\ Len(d) >= r
    BY <1>1 DEF Complete, LengthOk, Req
  <2> HIDE DEF r
  <2> QED
    BY <1>2, <2>1, Sizes
<1> HIDE DEF f, r
<1>5. emitted' \in Seq(Frames) /\ emitted' = emitted \o <<f>>
  BY <1>1, <1>2, <1>3, AppendProperties, AppendIsConcat
<1>6. ASSUME ~torn, ~Tears(acc), NEW e \in pos..Len(Stream)
      PROVE  emitted \o Found(Stream, e, Consumed + 1)
                = emitted' \o Found(Stream, e, Consumed + r + 1)
  <2> DEFINE g == Found(Stream, e, Consumed + r + 1)
  <2>1. d = acc.q /\ Stream \in Seq(Byte) /\ Len(Stream) \in Nat /\ pos \in Nat
        /\ Consumed \in Nat /\ Len(acc.q) = pos - Consumed
    BY <1>6, Held DEF d
  <2>2. Aligned(d)
    BY <1>1 DEF Complete
  <2>3. Found(Stream, e, Consumed + 1) = <<f>> \o g
    BY <1>1, <1>6, <2>1, <2>2, HeldFrame DEF f, r
  <2>4. e \in 0..Len(Stream) /\ Consumed + r + 1 \in 1..(e + 1)
    BY <1>4, <2>1
  <2>5. g \in Seq(Frames)
    BY <2>1, <2>4, FoundIs
  <2> HIDE DEF g
  <2>6. <<f>> \in Seq(Frames)
    BY <1>3
  <2>7. (emitted \o <<f>>) \o g = emitted \o (<<f>> \o g)
    BY <1>2, <2>5, <2>6, ConcatAssociative
  <2> QED
    BY <1>5, <2>3, <2>7 DEF g
<1> QED
  BY <1>1, <1>4, <1>5, <1>6, ContinueStep

\* A read appends to what is held.
LEMMA ReadStep ==
    ASSUME DecodeInv, NEW n \in 1..ReadBufSize, Read(n)
    PROVE  DecodeInv'
<1> DEFINE z == pos + n
           p == SubSeq(Stream, pos + 1, z)
<1>1. /\ stage = "read" /\ z <= Len(Stream) /\ acc' = Write(acc, p) /\ pos' = z
      /\ stage' = "decode" /\ line' = line /\ emitted' = emitted /\ torn' = torn
  BY DEF Read
<1>2. Stream \in Seq(Byte) /\ Len(Stream) \in Nat /\ Types
  BY StreamTyped DEF DecodeInv, Types
<1>3. /\ pos \in Nat /\ n \in Nat /\ z \in Nat /\ pos <= z /\ z \in 0..Len(Stream)
      /\ acc \in Buffer /\ acc.q \in Seq(Byte)
  BY <1>1, <1>2, SizesAssumption DEF Types, Buffer
<1> HIDE DEF z
<1>4. p \in Seq(Byte)
  BY <1>1, <1>2, <1>3, SliceAt
<1>5. acc' \in Buffer /\ acc'.q = acc.q \o p
  BY <1>1, <1>3, <1>4, BufferIs
<1>6. Stream' = Stream
  BY <1>1 DEF Stream
<1>7. Types'
  BY <1>1, <1>2, <1>3, <1>5, <1>6 DEF Types
<1>8. ResidueBounded'
  BY <1>1 DEF ResidueBounded
<1>9. ASSUME ~torn' PROVE PlaceInv' /\ FoundInv'
  <2> DEFINE c == Consumed
  <2>1. PlaceInv /\ FoundInv
    BY <1>1, <1>9 DEF DecodeInv
  <2>2. c \in Nat /\ c <= pos /\ acc.q = SubSeq(Stream, c + 1, pos) /\ c <= z
    BY <1>3, <2>1 DEF PlaceInv
  <2> HIDE DEF c
  <2>3. acc'.q = SubSeq(Stream, c + 1, z)
    <3>1. /\ Stream \in Seq(Byte) /\ c \in Nat /\ pos \in Nat /\ z \in Nat
          /\ c <= pos /\ pos <= z /\ z <= Len(Stream)
      BY <1>1, <1>2, <1>3, <2>2
    <3>2. SubSeq(Stream, c + 1, pos) \o SubSeq(Stream, pos + 1, z)
            = SubSeq(Stream, c + 1, z)
      BY ONLY <3>1, SliceJoin
    <3> QED
      BY <1>5, <2>2, <3>2
  <2>4. Len(SubSeq(Stream, c + 1, z)) = z - c
    BY <1>1, <1>2, <1>3, <2>2, SliceAt
  <2>5. Consumed' = c
    BY <1>1, <1>3, <2>2, <2>3, <2>4 DEF Consumed
  <2>6. PlaceInv'
    BY <1>1, <1>3, <1>6, <2>2, <2>3, <2>5 DEF PlaceInv
  <2>7. \A e \in z..Len(Stream) :
           Found(Stream, e, 1) = emitted \o Found(Stream, e, c + 1)
    <3>1. \A e \in z..Len(Stream) : e \in pos..Len(Stream)
      BY <1>2, <1>3
    <3> QED
      BY <2>1, <3>1 DEF FoundInv, c
  <2>8. FoundInv'
    BY <1>1, <1>6, <2>5, <2>7 DEF FoundInv, Found
  <2> QED
    BY <2>6, <2>8
<1> QED
  BY <1>7, <1>8, <1>9 DEF DecodeInv

\* The invariant holds before the first read.
LEMMA DecodeInit == Init => DecodeInv
<1> SUFFICES ASSUME Init PROVE DecodeInv
  OBVIOUS
<1>1. /\ line \in Lines /\ pos = 0 /\ acc = NewBuffer /\ stage = "read"
      /\ emitted = <<>> /\ torn = FALSE
  BY DEF Init
<1>2. Stream \in Seq(Byte) /\ Len(Stream) \in Nat
  BY <1>1, StreamTyped
<1>3. acc \in Buffer /\ acc.q = <<>> /\ Len(acc.q) = 0
  BY <1>1, EmptySeq DEF NewBuffer, Buffer
<1>4. Types
  <2>1. pos \in 0..Len(Stream)
    BY <1>1, <1>2
  <2>2. torn \in BOOLEAN
    BY <1>1
  <2> QED
    BY <1>1, <1>3, <2>1, <2>2, EmptySeq DEF Types
<1>5. ResidueBounded
  BY <1>3, Sizes DEF ResidueBounded
<1>6. Consumed = 0
  <2>1. Consumed = pos - Len(acc.q)
    BY DEF Consumed
  <2>2. Consumed = 0 - 0
    BY <1>1, <1>3, <2>1
  <2> QED
    BY <2>2
<1>7. PlaceInv
  <2>1. SubSeq(Stream, 0 + 1, 0) = <<>>
    BY SubSeqEmpty
  <2> QED
    BY <1>1, <1>3, <1>6, <2>1 DEF PlaceInv
<1>8. FoundInv
  <2>1. ASSUME NEW e \in 0..Len(Stream)
        PROVE  Found(Stream, e, 1) = <<>> \o Found(Stream, e, 1)
    <3>1. 1 \in 1..(e + 1)
      BY <1>2
    <3>2. Found(Stream, e, 1) \in Seq(Frames)
      BY <1>2, <3>1, FoundIs
    <3> QED
      BY <3>2, ConcatEmptySeq
  <2>2. Found(Stream, 0, 1) = <<>>
    <3>1. 1 \in 1..(0 + 1) /\ 0 \in 0..Len(Stream) /\ 1 > 0
      BY <1>2
    <3> QED
      BY <1>2, <3>1, FoundIs
  <2>3. 0 + 1 = 1
    OBVIOUS
  <2> QED
    BY <1>1, <1>6, <2>1, <2>2, <2>3 DEF FoundInv
<1> QED
  BY <1>4, <1>5, <1>7, <1>8 DEF DecodeInv

\* Every read and every turn of the loop of DecodeStream keeps the invariant.
LEMMA DecodeStep == DecodeInv /\ [Next]_vars => DecodeInv'
<1> SUFFICES ASSUME DecodeInv, [Next]_vars PROVE DecodeInv'
  OBVIOUS
<1>1. CASE UNCHANGED vars
  <2>1. /\ line' = line /\ pos' = pos /\ acc' = acc /\ stage' = stage
        /\ emitted' = emitted /\ torn' = torn
    BY <1>1 DEF vars
  <2>2. Stream' = Stream /\ Consumed' = Consumed
    BY <2>1 DEF Stream, Consumed
  <2>3. FoundInv' = FoundInv
    BY <2>1, <2>2 DEF FoundInv, Found
  <2>4. Types' = Types /\ ResidueBounded' = ResidueBounded /\ PlaceInv' = PlaceInv
    BY <2>1, <2>2 DEF Types, ResidueBounded, PlaceInv
  <2> QED
    BY <2>1, <2>3, <2>4 DEF DecodeInv
<1>2. CASE Next
  BY <1>2, ReadStep, ShortStep, NoHeaderStep, AlignStep, SkipStep, UnfinishedStep,
     EmitStep DEF Next, DecodeStream
<1> QED
  BY <1>1, <1>2

\* The invariant holds throughout.
LEMMA DecodeAlways == Spec => []DecodeInv
  BY DecodeInit, DecodeStep, PTL DEF Spec

\* What the reference decoder finds in all that has been read.
LEMMA AllFound ==
    ASSUME DecodeInv, ~torn, stage = "read"
    PROVE  emitted = Found(Stream, pos, 1)
<1>1. Types /\ FoundInv
  BY DEF DecodeInv
<1>2. Len(Stream) \in Nat /\ pos \in pos..Len(Stream) /\ emitted \in Seq(Frames)
  BY <1>1, StreamTyped DEF Types
<1>3. Found(Stream, pos, 1) = emitted \o <<>>
  BY <1>1, <1>2 DEF FoundInv
<1>4. emitted \o <<>> = emitted
  BY <1>2, ConcatEmptySeq
<1> QED
  BY <1>3, <1>4

\* For any line and any sizes of the reads: whenever DecodeStream has returned,
\* it has emitted exactly the frames that the bytes read so far contain, as
\* long as CompactBuffer has not moved bytes under the slice being decoded.
THEOREM ReadsDoNotMatter == Spec => []ChunkInvariant
<1>1. DecodeInv => ChunkInvariant
  <2> SUFFICES ASSUME DecodeInv, ~torn, stage = "read"
               PROVE  emitted = Parse(SubSeq(Stream, 1, pos))
    BY DEF ChunkInvariant, Decoded
  <2> QED
    BY AllFound DEF Found, Parse
<1> QED
  BY <1>1, DecodeAlways, PTL

\* For any line, torn or not: between two reads the accumulator holds less than
\* one frame of the greatest length.
THEOREM ResidueStaysSmall == Spec => []ResidueBounded
  BY DecodeAlways, PTL DEF DecodeInv

-----------------------------------------------------------------------------
(***************************************************************************)
(* DecodeStream returns                                                     *)
(***************************************************************************)

\* in.Next(n) leaves n bytes less.
LEMMA NextShortens ==
    ASSUME DecodeInv, NEW n \in 1..Len(acc.q), Continue(n)
    PROVE  Len(acc'.q) < Len(acc.q)
<1> DEFINE q == acc.q
           l == Len(acc.q)
<1>1. acc \in Buffer /\ CompactBuffer(acc) \in Buffer /\ CompactBuffer(acc).q = acc.q
  BY BufferIs DEF DecodeInv, Types
<1>2. q \in Seq(Byte) /\ l \in Nat /\ l = Len(q) /\ n \in 1..l /\ n \in 0..Len(q)
  BY <1>1 DEF Buffer
<1>3. acc'.q = SubSeq(q, n + 1, l)
  <2>1. acc' = InNext(CompactBuffer(acc), n)
    BY DEF Continue
  <2>2. InNext(CompactBuffer(acc), n).q = SubSeq(acc.q, n + 1, Len(acc.q))
    BY <1>1, <1>2, NextLeaves
  <2> QED
    BY <2>1, <2>2
<1> HIDE DEF q, l
<1>4. Len(SubSeq(q, n + 1, l)) = l - n
  BY <1>2, SliceAt
<1> QED
  BY <1>2, <1>3, <1>4 DEF l

\* A turn of the loop ends the call or shortens the buffer.
TurnConsumes == stage = "decode" => stage' = "read" \/ Len(acc'.q) < Len(acc.q)

\* For any line, torn or not: every turn of the loop of DecodeStream that does
\* not return consumes at least one byte (in.Next with 1 or more), so a call
\* makes no more turns than the accumulator holds bytes.
THEOREM TurnsConsume == Spec => [][TurnConsumes]_vars
<1>1. DecodeInv /\ [Next]_vars => [TurnConsumes]_vars
  <2> SUFFICES ASSUME DecodeInv, Next, stage = "decode", stage' # "read"
               PROVE  Len(acc'.q) < Len(acc.q)
    BY DEF TurnConsumes
  <2> DEFINE d == Data(acc)
             x == Index(d)
             l == Len(acc.q)
  <2>1. d \in Seq(Byte) /\ Len(d) = l /\ l \in Nat
    BY DataIs DEF DecodeInv, Types
  <2>2. Align \/ BadLength \/ BadChecksum \/ Emit
    BY DEF Next, DecodeStream, Read, Short, NoHeader, Wait, Return
  <2>3. CASE Align
    <3>1. HasHeader(d) /\ x > 1 /\ Continue(x - 1)
      BY <2>3 DEF Align
    <3>2. x \in 1..Len(d)
      BY <2>1, <3>1, IndexIs
    <3> HIDE DEF x, d
    <3>3. x - 1 \in 1..Len(acc.q)
      BY <2>1, <3>1, <3>2
    <3> QED
      BY <3>1, <3>3, NextShortens
  <2>4. CASE BadLength \/ BadChecksum
    <3>1. Continue(1) /\ Aligned(d)
      BY <2>4 DEF BadLength, BadChecksum, Complete, Skip
    <3>2. 1 \in 1..Len(acc.q)
      BY <2>1, <3>1 DEF Aligned
    <3> QED
      BY <3>1, <3>2, NextShortens
  <2>5. CASE Emit
    <3>1. Continue(Req(d)) /\ Complete(d)
      BY <2>5 DEF Emit
    <3>2. LengthOk(d) /\ Len(d) >= Req(d)
      BY <3>1 DEF Complete
    <3> HIDE DEF d
    <3>3. Req(d) \in Nat /\ Req(d) >= 1
      BY <3>2, Sizes DEF LengthOk, Req
    <3>4. Req(d) \in 1..Len(acc.q)
      BY <2>1, <3>2, <3>3
    <3> QED
      BY <3>1, <3>4, NextShortens
  <2> QED
    BY <2>2, <2>3, <2>4, <2>5
<1> QED
  BY <1>1, DecodeAlways, PTL DEF Spec

\* The branches of the loop, by their conditions.
SomeBranch(d) ==
    \/ Len(d) < 3 \/ (Len(d) < 4 /\ AtHeader(d, 1))
    \/ Len(d) >= 3 /\ ~HasHeader(d)
    \/ Len(d) >= 3 /\ HasHeader(d) /\ Index(d) > 1
    \/ Aligned(d) /\ ~LengthOk(d)
    \/ Aligned(d) /\ LengthOk(d) /\ Len(d) < Req(d)
    \/ Complete(d) /\ ~ChecksumOk(d)
    \/ Complete(d) /\ ChecksumOk(d)

\* ... and no slice, torn or not, leaves DecodeStream without a branch to take.
\* Together with TurnsConsume this is why it returns once it is scheduled.
THEOREM BranchesCover == Spec => [](stage = "decode" => SomeBranch(Data(acc)))
<1>1. DecodeInv => SomeBranch(Data(acc))
  <2> SUFFICES ASSUME DecodeInv PROVE SomeBranch(Data(acc))
    OBVIOUS
  <2> DEFINE d == Data(acc)
             x == Index(d)
  <2>1. d \in Seq(Byte) /\ Len(d) \in Nat
    BY DataIs DEF DecodeInv, Types
  <2>2. ASSUME HasHeader(d), ~(x > 1) PROVE AtHeader(d, 1)
    <3>1. x \in 1..Len(d) /\ AtHeader(d, x)
      BY <2>1, <2>2, IndexIs
    <3>2. x = 1
      BY <2>1, <2>2, <3>1
    <3> QED
      BY <3>1, <3>2
  <2>3. LengthOk(d) => Req(d) \in Nat
    BY Sizes DEF LengthOk, Req
  <2> HIDE DEF d
  <2>4. Len(d) < 3 \/ Len(d) >= 4 \/ (Len(d) >= 3 /\ Len(d) < 4)
    BY <2>1
  <2>5. AtHeader(d, 1) /\ Len(d) >= 4 => SomeBranch(d)
    <3>1. LengthOk(d) => Len(d) < Req(d) \/ Len(d) >= Req(d)
      BY <2>1, <2>3
    <3> QED
      BY <3>1 DEF SomeBranch, Aligned, Complete
  <2>6. Len(d) >= 4 => Len(d) >= 3
    BY <2>1
  <2> QED
    BY <2>2, <2>4, <2>5, <2>6 DEF SomeBranch, d, x
<1> QED
  BY <1>1, DecodeAlways, PTL

-----------------------------------------------------------------------------
(***************************************************************************)
(* A line of frames                                                         *)
(***************************************************************************)

\* The bytes that canUARTSend makes: preamble, length, content, checksum.
LEMMA SentBytes ==
    ASSUME NEW X, NEW raw \in Seq(X), NEW m, m = Len(raw)
    PROVE  LET q == canUARTSend(raw)
           IN  /\ m \in Nat /\ Len(q) = 3 + m + 1
               /\ q[1] = Pre0 /\ q[2] = Pre1 /\ q[3] = m + 1
               /\ SubSeq(q, 3 + 1, 3 + m) = raw
               /\ q[3 + m + 1] = (Pre0 + (m + 1) + Sum(raw)) % ByteMod
               /\ \A j \in 1..m : q[3 + j] = raw[j]
<1> DEFINE ck == (Pre0 + (m + 1) + Sum(raw)) % ByteMod
           h  == <<Pre0, Pre1, m + 1>>
           t  == <<ck>>
           Y  == X \cup {Pre0, Pre1, m + 1, ck}
           u  == h \o raw
           q  == u \o t
           k  == 3 + m
<1>1. canUARTSend(raw) = q
  BY DEF canUARTSend
<1>2. m \in Nat
  OBVIOUS
<1>3. raw \in Seq(Y)
  BY SeqMonotonic
<1>4. h \in Seq(Y) /\ 3 = Len(h) /\ h[1] = Pre0 /\ h[2] = Pre1 /\ h[3] = m + 1
  OBVIOUS
<1>5. t \in Seq(Y) /\ 1 = Len(t) /\ t[1] = ck
  OBVIOUS
<1> HIDE DEF ck, h, t, Y
<1>6. /\ u \in Seq(Y) /\ Len(u) = 3 + m
      /\ \A j \in 1..3 : u[j] = h[j]
      /\ \A j \in 1..m : u[3 + j] = raw[j]
  <2> DEFINE x == 3
  <2>1. x = Len(h)
    BY <1>4
  <2> HIDE DEF x
  <2>2. /\ h \o raw \in Seq(Y) /\ Len(h \o raw) = x + m
        /\ \A j \in 1..x : (h \o raw)[j] = h[j]
        /\ \A j \in 1..m : (h \o raw)[x + j] = raw[j]
    BY <1>3, <1>4, <2>1, ConcatAt
  <2> QED
    BY <2>2 DEF x
<1> HIDE DEF u
<1>7. k = Len(u) /\ k \in Nat
  BY <1>2, <1>6
<1> HIDE DEF k
<1>8. /\ q \in Seq(Y) /\ Len(q) = k + 1
      /\ \A j \in 1..k : q[j] = u[j]
      /\ \A j \in 1..1 : q[k + j] = t[j]
  <2> DEFINE x == 1
  <2>1. x = Len(t)
    BY <1>5
  <2> HIDE DEF x
  <2>2. /\ u \o t \in Seq(Y) /\ Len(u \o t) = k + x
        /\ \A j \in 1..k : (u \o t)[j] = u[j]
        /\ \A j \in 1..x : (u \o t)[k + j] = t[j]
    BY <1>5, <1>6, <1>7, <2>1, ConcatAt
  <2> QED
    BY <2>2 DEF x
<1> HIDE DEF q
<1>9. /\ k = 3 + m /\ 1 \in 1..3 /\ 2 \in 1..3 /\ 3 \in 1..3 /\ 1 \in 1..1
      /\ 1 \in 1..k /\ 2 \in 1..k /\ 3 \in 1..k /\ \A j \in 1..m : 3 + j \in 1..k
  BY <1>2 DEF k
<1>10. q[1] = Pre0 /\ q[2] = Pre1 /\ q[3] = m + 1 /\ q[k + 1] = ck
  BY <1>4, <1>5, <1>6, <1>8, <1>9
<1>11. \A j \in 1..m : q[3 + j] = raw[j]
  BY <1>6, <1>8, <1>9
<1>12. raw = SubSeq(q, 3 + 1, k)
  <2>1. 3 \in Nat /\ k \in Nat /\ 3 <= k /\ k <= Len(q) /\ k - 3 = m
    BY <1>2, <1>7, <1>8, <1>9
  <2>2. Len(raw) = k - 3 /\ \A j \in 1..(k - 3) : raw[j] = q[3 + j]
    BY <1>11, <2>1
  <2> QED
    BY <1>3, <1>8, <2>1, <2>2, SliceIs
<1> QED
  BY <1>1, <1>2, <1>8, <1>9, <1>10, <1>11, <1>12 DEF ck

\* A frame's piece is complete and intact, and is read as that frame.
LEMMA PieceFrame ==
    ASSUME NEW p \in Piece, p.frame # <<>>, Len(p.frame[1].data) >= 2
    PROVE  /\ p.bytes \in Seq(Byte) /\ Complete(p.bytes) /\ ChecksumOk(p.bytes)
           /\ Frame(p.bytes) = p.frame[1] /\ Req(p.bytes) = Len(p.bytes)
<1> DEFINE q    == p.bytes
           f    == p.frame[1]
           data == f.data
           id   == SubSeq(q, 4, 3 + IdSize)
           U    == Byte \cup {q[i] : i \in 4..(3 + IdSize)}
           raw  == id \o data
           l    == Len(data)
           m    == IdSize + l
<1>1. q \in Seq(Byte) /\ p.frame \in Seq([id : Seq(Byte), data : Seq(Byte)])
  BY DEF Piece
<1>2. /\ Len(p.frame) = 1 /\ Len(id) = IdSize /\ l <= 2 + MaxDlc
      /\ f.id = Extended(id) /\ q = canUARTSend(raw)
  BY DEF Piece
<1>3. f \in [id : Seq(Byte), data : Seq(Byte)]
  <2>1. 1 \in 1..Len(p.frame)
    BY <1>2
  <2> QED
    BY <1>1, <2>1, ElementOfSeq
<1>4. data \in Seq(Byte) /\ l \in Nat /\ l >= 2 /\ f = [id |-> f.id, data |-> data]
  BY <1>3
<1>5. IdSize \in Nat /\ MaxDlc \in Nat
  BY SizesAssumption
<1>6. id \in Seq(U) /\ data \in Seq(U)
  <2>1. 4 \in Int /\ 3 + IdSize \in Int /\ \A i \in 4..(3 + IdSize) : q[i] \in U
    BY <1>5
  <2>2. id \in Seq(U)
    <3> HIDE DEF U, q
    <3> QED
      BY <2>1, SubSeqProperties
  <2>3. Byte \subseteq U
    OBVIOUS
  <2> QED
    BY <1>4, <2>2, <2>3, SeqMonotonic
<1> HIDE DEF id, U, q, f, data
<1>7. /\ raw \in Seq(U) /\ Len(raw) = m
      /\ \A j \in 1..l : raw[IdSize + j] = data[j]
  <2>1. IdSize = Len(id) /\ l = Len(data)
    BY <1>2
  <2> HIDE DEF l
  <2> QED
    BY <1>6, <2>1, ConcatAt
<1> HIDE DEF raw, l
<1>8. m \in Nat /\ m = Len(raw) /\ m >= 2
  BY <1>4, <1>5, <1>7
<1> HIDE DEF m
<1>9. /\ Len(q) = 3 + m + 1 /\ q[1] = Pre0 /\ q[2] = Pre1 /\ q[3] = m + 1
      /\ SubSeq(q, 3 + 1, 3 + m) = raw
      /\ q[3 + m + 1] = (Pre0 + (m + 1) + Sum(raw)) % ByteMod
      /\ \A j \in 1..m : q[3 + j] = raw[j]
  <2>1. raw \in Seq(U) /\ m = Len(raw)
    BY <1>7, <1>8
  <2>2. LET r == canUARTSend(raw)
        IN  /\ m \in Nat /\ Len(r) = 3 + m + 1
            /\ r[1] = Pre0 /\ r[2] = Pre1 /\ r[3] = m + 1
            /\ SubSeq(r, 3 + 1, 3 + m) = raw
            /\ r[3 + m + 1] = (Pre0 + (m + 1) + Sum(raw)) % ByteMod
            /\ \A j \in 1..m : r[3 + j] = raw[j]
    BY ONLY <2>1, SentBytes
  <2>3. q = canUARTSend(raw)
    BY <1>2
  <2> QED
    BY ONLY <2>2, <2>3
<1>10. /\ Req(q) = 3 + (m + 1) /\ 3 + (m + 1) = 3 + m + 1 /\ Req(q) - 1 = 3 + m
       /\ Len(q) \in Nat /\ Len(q) >= Req(q) /\ Len(q) >= 4 /\ 1 < Len(q)
       /\ Req(q) = Len(q) /\ 3 + 1 = 4 /\ 1 + 1 = 2
  BY <1>8, <1>9 DEF Req
<1>11. LengthOk(q)
  <2>1. m = IdSize + l
    BY DEF m
  <2>2. m + 1 \in (2 + IdSize + 0 + 1)..(2 + IdSize + MaxDlc + 1)
    BY <1>2, <1>4, <1>5, <2>1
  <2> QED
    BY <1>9, <2>2 DEF LengthOk, MinLn, MaxLn
<1>12. Complete(q)
  BY <1>9, <1>10, <1>11 DEF Complete, Aligned, AtHeader
<1>13. ChecksumOk(q)
  <2>1. SubSeq(q, 4, Req(q) - 1) = raw
    BY <1>9, <1>10
  <2>2. q[Req(q)] = (Pre0 + q[3] + Sum(raw)) % ByteMod
    BY <1>9, <1>10
  <2> QED
    BY <2>1, <2>2 DEF ChecksumOk
<1>14. SubSeq(q, 4 + IdSize, Req(q) - 1) = data
  <2> DEFINE a == 3 + IdSize
             b == 3 + m
  <2>1. /\ a \in Nat /\ b \in Nat /\ a <= b /\ b <= Len(q) /\ b - a = l
        /\ a + 1 = 4 + IdSize
    <3>1. m = IdSize + l
      BY DEF m
    <3>2. Len(q) = b + 1
      BY <1>9
    <3>3. /\ l \in Nat /\ IdSize \in Nat /\ m \in Nat
      BY <1>4, <1>5, <1>8
    <3> QED
      BY ONLY <3>1, <3>2, <3>3 DEF a, b
  <2>2. ASSUME NEW j \in 1..l PROVE data[j] = q[a + j]
    <3>1. IdSize + j \in 1..m /\ 3 + (IdSize + j) = a + j
      BY <1>4, <1>5 DEF m
    <3> QED
      BY <1>7, <1>9, <3>1
  <2>3. Len(data) = b - a /\ \A j \in 1..(b - a) : data[j] = q[a + j]
    BY <2>1, <2>2 DEF l
  <2> HIDE DEF a, b
  <2>4. data = SubSeq(q, a + 1, b)
    <3>1. q \in Seq(Byte) /\ data \in Seq(Byte)
      BY <1>1, <1>4
    <3>2. a \in Nat /\ b \in Nat /\ a <= b /\ b <= Len(q)
      BY <2>1
    <3> QED
      BY ONLY <2>3, <3>1, <3>2, SliceIs
  <2> QED
    BY <1>10, <2>1, <2>4 DEF b
<1>15. Frame(q) = [id |-> f.id, data |-> data]
  BY <1>2, <1>14 DEF Frame, id
<1> QED
  BY <1>1, <1>4, <1>10, <1>12, <1>13, <1>15 DEF q, f, data

\* The reference decoder finds the frame of a piece where its bytes are.
LEMMA PieceFound ==
    ASSUME NEW s \in Seq(Byte), NEW a \in Nat, NEW b \in Nat, NEW e \in Nat,
           b <= e, e <= Len(s),
           NEW p \in Piece, p.frame # <<>>, Len(p.frame[1].data) >= 2,
           b = a + Len(p.bytes), \A j \in 1..Len(p.bytes) : s[a + j] = p.bytes[j]
    PROVE  Found(s, e, a + 1) = <<p.frame[1]>> \o Found(s, e, b + 1)
<1> DEFINE q == p.bytes
           n == Len(q)
           l == Len(s)
<1>1. /\ q \in Seq(Byte) /\ Complete(q) /\ ChecksumOk(q)
      /\ Frame(q) = p.frame[1] /\ Req(q) = n
  BY PieceFrame
<1>2. n \in Nat /\ l \in Nat /\ n = Len(q) /\ b = a + n /\ l = Len(s)
  BY <1>1
<1>3. \A j \in 1..n : q[j] = s[a + j]
  OBVIOUS
<1> HIDE DEF q, n, l
<1>4. a <= b /\ b <= l /\ b - a = n
  BY <1>2
<1>5. Len(q) = b - a /\ \A j \in 1..(b - a) : q[j] = s[a + j]
  BY <1>2, <1>3, <1>4
<1>6. q = SubSeq(s, a + 1, b)
  BY <1>1, <1>2, <1>4, <1>5, SliceIs
<1>7. Aligned(q)
  BY <1>1 DEF Complete
<1>8. Found(s, e, a + 1) = <<Frame(q)>> \o Found(s, e, a + Req(q) + 1)
  <2>1. /\ s \in Seq(Byte) /\ a \in Nat /\ b \in Nat /\ e \in Nat /\ a <= b
        /\ b <= e /\ e <= Len(s) /\ q = SubSeq(s, a + 1, b) /\ Aligned(q)
    BY <1>4, <1>6, <1>7
  <2>2. Complete(q) /\ ChecksumOk(q) =>
           Found(s, e, a + 1) = <<Frame(q)>> \o Found(s, e, a + Req(q) + 1)
    <3>1. LET r == SubSeq(s, a + 1, b)
          IN  Complete(r) /\ ChecksumOk(r) =>
                 Found(s, e, a + 1) = <<Frame(r)>> \o Found(s, e, a + Req(r) + 1)
      BY ONLY <2>1, FrameFound
    <3> QED
      BY <2>1, <3>1
  <2> QED
    BY <1>1, <2>2
<1> QED
  BY <1>1, <1>2, <1>8

\* ... and so, from the last piece to the first, all of the line's.
LEMMA LineFound ==
    ASSUME line \in Lines,
           \A i \in DOMAIN line :
              line[i].frame # <<>> /\ Len(line[i].frame[1].data) >= 2
    PROVE  Found(Stream, Len(Stream), 1) = [i \in DOMAIN line |-> line[i].frame[1]]
<1> DEFINE n  == Len(line)
           ss == [i \in DOMAIN line |-> line[i].bytes]
           F  == [i \in DOMAIN line |-> line[i].frame[1]]
           e  == Len(Stream)
           V  == {line[i].frame[1] : i \in DOMAIN line}
<1>1. line \in Seq(Piece)
  BY LinesAssumption
<1>2. n \in Nat /\ DOMAIN line = 1..n /\ \A i \in 1..n : line[i] \in Piece
  BY <1>1
<1>3. \A i \in 1..n : line[i].bytes \in Seq(Byte)
  BY <1>2 DEF Piece
<1>4. ss \in Seq(Seq(Byte)) /\ Len(ss) = n /\ \A i \in 1..n : ss[i] = line[i].bytes
  BY <1>2, <1>3
<1>5. F \in Seq(V) /\ Len(F) = n /\ \A i \in 1..n : F[i] = line[i].frame[1]
  BY <1>2
<1>6. Stream = FlattenSeq(ss)
  BY DEF Stream
<1> HIDE DEF ss, F, V, n
<1>7. /\ Stream \in Seq(Byte) /\ Before(ss, 0) = 0 /\ Before(ss, n) = e
      /\ \A m \in 0..n : Before(ss, m) \in Nat /\ Before(ss, m) <= e
      /\ \A m \in 1..n :
            /\ Before(ss, m) = Before(ss, m - 1) + Len(ss[m])
            /\ \A j \in 1..Len(ss[m]) : Stream[Before(ss, m - 1) + j] = ss[m][j]
  <2>1. /\ FlattenSeq(ss) \in Seq(Byte)
        /\ Before(ss, 0) = 0 /\ Before(ss, Len(ss)) = Len(FlattenSeq(ss))
        /\ \A m \in 0..Len(ss) :
              Before(ss, m) \in Nat /\ Before(ss, m) <= Len(FlattenSeq(ss))
        /\ \A m \in 1..Len(ss) :
              /\ Before(ss, m) = Before(ss, m - 1) + Len(ss[m])
              /\ \A j \in 1..Len(ss[m]) :
                    FlattenSeq(ss)[Before(ss, m - 1) + j] = ss[m][j]
    <3>1. ss \in Seq(Seq(Byte))
      BY <1>4
    <3> QED
      BY ONLY <3>1, FlattenAt
  <2> QED
    BY <1>4, <1>6, <2>1
<1>8. e \in Nat /\ e <= Len(Stream)
  BY <1>7
<1> DEFINE S == {m \in 0..n : Found(Stream, e, Before(ss, m) + 1) = SubSeq(F, m + 1, n)}
<1>9. n \in S
  <2>1. Found(Stream, e, e + 1) = <<>>
    <3>1. e \in 0..Len(Stream) /\ e + 1 \in 1..(e + 1) /\ e + 1 > e
      BY <1>8
    <3> QED
      BY <1>7, <3>1, FoundIs
  <2>2. SubSeq(F, n + 1, n) = <<>>
    BY <1>2, SubSeqEmpty
  <2>3. n \in 0..n
    BY <1>2
  <2> QED
    BY <1>7, <2>1, <2>2, <2>3
<1>10. ASSUME NEW m \in 1..n, m \in S PROVE m - 1 \in S
  <2> DEFINE p == line[m]
             a == Before(ss, m - 1)
             b == Before(ss, m)
  <2>1. m - 1 \in 0..n /\ m \in 0..n /\ m \in 1..Len(F) /\ n \in m..Len(F)
        /\ (m - 1) + 1 = m
    BY <1>2, <1>5
  <2>2. p \in Piece /\ p.frame # <<>> /\ Len(p.frame[1].data) >= 2 /\ ss[m] = p.bytes
        /\ F[m] = p.frame[1]
    BY <1>2, <1>4, <1>5
  <2>3. /\ a \in Nat /\ b \in Nat /\ b <= e /\ b = a + Len(p.bytes)
        /\ \A j \in 1..Len(p.bytes) : Stream[a + j] = p.bytes[j]
    BY <1>7, <2>1, <2>2
  <2> HIDE DEF p, a, b
  <2>4. Found(Stream, e, a + 1) = <<p.frame[1]>> \o Found(Stream, e, b + 1)
    <3> DEFINE s == Stream
    <3>1. /\ s \in Seq(Byte) /\ a \in Nat /\ b \in Nat /\ e \in Nat
          /\ b <= e /\ e <= Len(s) /\ p \in Piece /\ p.frame # <<>>
          /\ Len(p.frame[1].data) >= 2 /\ b = a + Len(p.bytes)
          /\ \A j \in 1..Len(p.bytes) : s[a + j] = p.bytes[j]
      BY <1>7, <1>8, <2>2, <2>3
    <3> HIDE DEF s, e
    <3>2. Found(s, e, a + 1) = <<p.frame[1]>> \o Found(s, e, b + 1)
      BY ONLY <3>1, PieceFound, SMTT(30)
    <3> QED
      BY <3>2 DEF s
  <2>5. Found(Stream, e, b + 1) = SubSeq(F, m + 1, n)
    BY <1>10 DEF b
  <2>6. SubSeq(F, m, n) = <<F[m]>> \o SubSeq(F, m + 1, n)
    BY <1>5, <2>1, SubSeqRecursiveFirst
  <2>7. Found(Stream, e, a + 1) = SubSeq(F, (m - 1) + 1, n)
    BY <2>1, <2>2, <2>4, <2>5, <2>6
  <2> QED
    BY <2>1, <2>7 DEF a
<1> HIDE DEF S
<1>11. \A m \in 0..n : m \in S
  BY <1>2, <1>9, <1>10, DownFrom
<1>12. 0 \in S
  BY <1>2, <1>11
<1>13. Found(Stream, e, 0 + 1) = SubSeq(F, 0 + 1, n)
  BY <1>7, <1>12 DEF S
<1>14. SubSeq(F, 1, Len(F)) = F
  BY <1>5, SubSeqFull
<1> QED
  BY <1>5, <1>13, <1>14 DEF F

\* For any line of frames with two to MaxDlc bytes of payload, however it is
\* read: when DecodeStream has returned from the last read, it has emitted
\* these frames, all of them, bit for bit and in order.
THEOREM FramesComeThrough == Spec => []FramesDecoded
<1>1. DecodeInv => FramesDecoded
  <2> SUFFICES ASSUME DecodeInv, ~torn, stage = "read", pos = Len(Stream),
                      \A i \in DOMAIN line :
                         line[i].frame # <<>> /\ Len(line[i].frame[1].data) \in 2..MaxDlc
               PROVE  emitted = [i \in DOMAIN line |-> line[i].frame[1]]
    BY DEF FramesDecoded
  <2>0. \A i \in DOMAIN line :
           line[i].frame # <<>> /\ Len(line[i].frame[1].data) >= 2
    BY SizesAssumption
  <2>1. line \in Lines
    BY DEF DecodeInv, Types
  <2>2. emitted = Found(Stream, pos, 1)
    BY AllFound
  <2> QED
    BY <2>0, <2>1, <2>2, LineFound
<1> QED
  BY <1>1, DecodeAlways, PTL
=============================================================================
