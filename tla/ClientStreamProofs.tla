------------------------- MODULE ClientStreamProofs -------------------------
(***************************************************************************)
(* For any script, any cut into segments and any deadlines: the frames that *)
(* the reader passes on, and how it ends.  The inductive invariant says     *)
(* where in the script a reader that has not slipped stands.                *)
(***************************************************************************)
EXTENDS ClientStream, InductionLemmas

\* The frames that can be passed on.
E == Len(Expected)

\* Where the item under way begins, less one.
Here == Whole(Len(sent))

\* The identifier of the item under way.
ThisId == SubSeq(Stream, Here + 1, Here + IdSize)

Types ==
    /\ script \in Scripts
    /\ pos \in Nat /\ arrived \in Nat /\ pos <= arrived /\ arrived <= Len(Stream)
    /\ eof \in BOOLEAN /\ expired \in BOOLEAN /\ slipped \in BOOLEAN
    /\ expiries \in Nat /\ got \in Seq(Nat)
    /\ part \in {"id", "len", "data"}
    /\ outcome \in {"none", "eof", "error"}

\* What has been passed on is a part of what is expected.
SentInv ==
    /\ Len(sent) \in 0..E /\ sent \in Seq(Frame)
    /\ \A i \in 1..Len(sent) : sent[i] = Expected[i]

\* What Decode holds is what the stream has at its place.
PlaceInv ==
    /\ part = "id" =>
          /\ Len(got) < IdSize /\ pos = Here + Len(got)
          /\ got = SubSeq(Stream, Here + 1, pos)
          /\ frame = NoFrame
    /\ part = "len" =>
          /\ got = <<>> /\ pos = Here + IdSize
          /\ frame = [id |-> ThisId, data |-> <<>>]
    /\ part = "data" =>
          /\ Len(sent) < E /\ need = Len(Expected[Len(sent) + 1].data)
          /\ Len(got) < need /\ pos = Here + IdSize + 1 + Len(got)
          /\ got = SubSeq(Stream, Here + IdSize + 1 + 1, pos)
          /\ frame = [id |-> ThisId, data |-> <<>>]

\* What arrived goes beyond the frames, or ends inside of one.
Ragged ==
    \/ arrived > Whole(E)
    \/ eof /\ \A m \in 0..E : arrived # Whole(m)

\* How the reader ended.
EndInv ==
    /\ outcome = "eof" => /\ eof /\ pos = arrived
                          /\ part # "data" /\ got = <<>>
    /\ outcome = "error" /\ expiries = 0 => Ragged
    /\ expired \/ slipped => expiries > 0

StreamInv ==
    /\ Types /\ EndInv
    /\ ~slipped => SentInv
    /\ ~slipped /\ outcome # "error" => PlaceInv

-----------------------------------------------------------------------------
(***************************************************************************)
(* The layout of the stream                                                 *)
(***************************************************************************)

\* Length undoes what EncodeTo does to the length, with or without the flag.
LEMMA MaskedLength ==
    ASSUME NEW n \in 0..MaxLen, NEW flag \in {0, LenMask}
    PROVE  Length(n + flag) = n
<1>1. n \in Nat /\ LenMask \in Nat /\ n < LenMask /\ LenMask > 0
  BY StreamAssumption
<1>2. n % LenMask = n
  BY <1>1
<1>3. (n + LenMask) % LenMask = n
  BY <1>1
<1> QED
  BY <1>1, <1>2, <1>3 DEF Length

\* The bytes of a frame: identifier, length, payload.
LEMMA ItemBytes ==
    ASSUME NEW it \in Item, it.frame # <<>>
    PROVE  LET f == it.frame[1]
           IN  /\ f \in Frame /\ it.bytes \in Seq(Nat)
               /\ Len(it.bytes) = IdSize + 1 + Len(f.data)
               /\ \A j \in 1..IdSize : it.bytes[j] = f.id[j]
               /\ Length(it.bytes[IdSize + 1]) = Len(f.data)
               /\ \A j \in 1..Len(f.data) : it.bytes[IdSize + 1 + j] = f.data[j]
<1> DEFINE f == it.frame[1]
           n == Len(f.data)
<1>1. it.bytes \in Seq(Nat) /\ it.frame \in Seq(Frame) /\ Len(it.frame) = 1
  BY DEF Item
<1>2. f \in Frame
  BY <1>1
<1>3. PICK flag \in {0, LenMask} : it.bytes = EncodeTo(f, flag)
  BY DEF Item
<1>4. f.id \in Seq(Nat) /\ f.data \in Seq(Nat) /\ Len(f.id) = IdSize
      /\ n \in 0..MaxLen /\ IdSize \in Nat /\ LenMask \in Nat
  BY <1>2, StreamAssumption DEF Frame
<1>5. Length(n + flag) = n
  BY <1>4, MaskedLength
<1> DEFINE l == <<n + flag>>
<1>6. l \in Seq(Nat) /\ Len(l) = 1 /\ l[1] = n + flag
  BY <1>4
<1>7. it.bytes = (f.id \o l) \o f.data
  BY <1>3 DEF EncodeTo
<1> HIDE DEF f, n, l
<1>8. /\ f.id \o l \in Seq(Nat) /\ Len(f.id \o l) = IdSize + 1
      /\ \A j \in 1..IdSize : (f.id \o l)[j] = f.id[j]
      /\ \A j \in 1..1 : (f.id \o l)[IdSize + j] = l[j]
  <2> DEFINE id == f.id
             k == IdSize
             o == 1
  <2>1. id \in Seq(Nat) /\ l \in Seq(Nat) /\ k = Len(id) /\ o = Len(l)
    BY <1>4, <1>6
  <2> HIDE DEF id, k, o
  <2>2. /\ id \o l \in Seq(Nat) /\ Len(id \o l) = k + o
        /\ \A j \in 1..k : (id \o l)[j] = id[j]
        /\ \A j \in 1..o : (id \o l)[k + j] = l[j]
    BY <2>1, ConcatAt
  <2> QED
    BY <2>2 DEF id, k, o
<1>9. Len(f.data) = n
  BY DEF n
<1> DEFINE h == f.id \o l
           w == h \o f.data
           k == IdSize + 1
<1>10. h \in Seq(Nat) /\ k = Len(h) /\ n = Len(f.data) /\ f.data \in Seq(Nat)
  BY <1>4, <1>8, <1>9
<1> HIDE DEF h, k
<1>11. /\ Len(w) = k + n
       /\ \A j \in 1..k : w[j] = h[j]
       /\ \A j \in 1..n : w[k + j] = f.data[j]
  BY <1>10, ConcatAt
<1>12. it.bytes = w
  BY <1>7 DEF h
<1> HIDE DEF w
<1>13. k = IdSize + 1 /\ \A j \in 1..(IdSize + 1) : j \in 1..k
  BY DEF k
<1>14. h[IdSize + 1] = n + flag
  <2>1. 1 \in 1..1
    OBVIOUS
  <2>2. h[IdSize + 1] = l[1]
    BY <1>8, <2>1 DEF h
  <2> QED
    BY <1>6, <2>2
<1>15. \A j \in 1..IdSize : it.bytes[j] = f.id[j]
  BY <1>4, <1>8, <1>11, <1>12, <1>13 DEF h
<1>16. it.bytes[IdSize + 1] = n + flag
  BY <1>4, <1>11, <1>12, <1>13, <1>14
<1>17. /\ Len(it.bytes) = IdSize + 1 + n
       /\ \A j \in 1..n : it.bytes[IdSize + 1 + j] = f.data[j]
  BY <1>11, <1>12, <1>13
<1> QED
  BY <1>1, <1>2, <1>5, <1>9, <1>15, <1>16, <1>17 DEF f

\* Expected holds the frames of the script up to the first bad item.
LEMMA ExpectedIs ==
    ASSUME script \in Scripts
    PROVE  /\ script \in Seq(Item) /\ Expected \in Seq(Frame) /\ E \in 0..Len(script)
           /\ \A i \in 1..E : /\ script[i].frame # <<>>
                              /\ Expected[i] = script[i].frame[1]
           /\ E < Len(script) => script[E + 1].frame = <<>>
<1> DEFINE n   == Len(script)
           bad == {i \in DOMAIN script : script[i].frame = <<>>}
           m   == IF bad = {} THEN Len(script) ELSE Min(bad) - 1
<1>1. script \in Seq(Item)
  BY ScriptsAssumption
<1>2. n \in Nat /\ DOMAIN script = 1..n /\ \A i \in 1..n : script[i] \in Item
  BY <1>1
<1>3. /\ m \in 0..n /\ \A i \in 1..m : script[i].frame # <<>>
      /\ m < n => script[m + 1].frame = <<>>
  <2>1. CASE bad = {}
    BY <1>2, <2>1
  <2>2. CASE bad # {}
    <3>1. bad \in SUBSET Nat /\ bad \in SUBSET (1..n)
      BY <1>2
    <3>2. \E x \in bad : \A y \in bad : x <= y
      BY <2>2, <3>1, Least
    <3>3. Min(bad) \in bad /\ \A y \in bad : Min(bad) <= y
      BY <3>2 DEF Min
    <3> DEFINE b == Min(bad)
    <3> HIDE DEF b
    <3>4. b \in 1..n /\ script[b].frame = <<>>
      BY <3>1, <3>3 DEF b
    <3>5. \A i \in 1..n : script[i].frame = <<>> => b <= i
      BY <1>2, <3>3 DEF b
    <3>6. m = b - 1
      BY <2>2 DEF b
    <3> HIDE DEF m, n
    <3>7. m \in 0..n /\ m + 1 = b /\ \A i \in 1..m : i \in 1..n /\ ~(b <= i)
      BY <1>2, <3>4, <3>6
    <3> QED
      BY <3>4, <3>5, <3>7
  <2> QED
    BY <2>1, <2>2
<1>4. Expected = [i \in 1..m |-> script[i].frame[1]]
  BY DEF Expected
<1> HIDE DEF m, n, bad
<1>5. ASSUME NEW i \in 1..m PROVE script[i].frame[1] \in Frame
  <2>1. script[i] \in Item /\ script[i].frame # <<>>
    BY <1>2, <1>3
  <2> QED
    BY <2>1, ItemBytes
<1>6. Expected \in Seq(Frame) /\ Len(Expected) = m
  BY <1>3, <1>4, <1>5
<1> QED
  BY <1>1, <1>3, <1>4, <1>6 DEF E, n

\* Whole in the terms of the lemmas on FlattenSeq.
LEMMA WholeIs ==
    ASSUME script \in Seq(Item)
    PROVE  LET ss == [i \in DOMAIN script |-> script[i].bytes]
           IN  /\ ss \in Seq(Seq(Nat)) /\ Len(ss) = Len(script)
               /\ Stream = FlattenSeq(ss)
               /\ \A m \in 0..Len(script) : Whole(m) = Before(ss, m)
<1> DEFINE n  == Len(script)
           ss == [i \in DOMAIN script |-> script[i].bytes]
<1>1. n \in Nat /\ DOMAIN script = 1..n /\ \A i \in 1..n : script[i] \in Item
  OBVIOUS
<1>2. \A i \in 1..n : script[i].bytes \in Seq(Nat)
  BY <1>1 DEF Item
<1>3. ss = [i \in 1..n |-> script[i].bytes]
  BY <1>1
<1>4. ss \in Seq(Seq(Nat)) /\ Len(ss) = n
  BY <1>1, <1>2, <1>3
<1>5. ASSUME NEW m \in 0..n PROVE Whole(m) = Before(ss, m)
  <2>1. \A i \in 1..m : i \in 1..n
    BY <1>1
  <2>2. \A i \in 1..m : ss[i] = script[i].bytes
    BY <1>3, <2>1
  <2>3. [i \in 1..m |-> ss[i]] = [i \in 1..m |-> script[i].bytes]
    BY <2>2
  <2> QED
    BY <2>3 DEF Whole, Before
<1> QED
  BY <1>4, <1>5 DEF Stream

\* Where frame m + 1 is in the stream.
Placed(m) ==
    LET f == Expected[m + 1]
    IN  /\ Whole(m + 1) = Whole(m) + IdSize + 1 + Len(f.data)
        /\ f.id = SubSeq(Stream, Whole(m) + 1, Whole(m) + IdSize)
        /\ Length(Stream[Whole(m) + IdSize + 1]) = Len(f.data)
        /\ f.data = SubSeq(Stream, Whole(m) + IdSize + 1 + 1, Whole(m + 1))

\* What follows the last frame, if anything does, is a bad item.
Layout ==
    /\ Stream \in Seq(Nat) /\ Expected \in Seq(Frame) /\ E \in Nat
    /\ Whole(0) = 0
    /\ \A m \in 0..E : Whole(m) \in Nat /\ Whole(m) <= Len(Stream)
    /\ \A i, j \in 0..E : i <= j => Whole(i) <= Whole(j)
    /\ \A m \in 0..(E - 1) : Placed(m)
    /\ Whole(E) < Len(Stream) =>
          /\ Whole(E) + IdSize + 1 <= Len(Stream)
          /\ Length(Stream[Whole(E) + IdSize + 1]) > MaxLen

\* The bytes of item m + 1 follow those of the items before it.
LEMMA ItemAt ==
    ASSUME script \in Seq(Item)
    PROVE  /\ Stream \in Seq(Nat) /\ Whole(0) = 0 /\ Whole(Len(script)) = Len(Stream)
           /\ \A m \in 0..Len(script) : Whole(m) \in Nat /\ Whole(m) <= Len(Stream)
           /\ \A m \in 0..(Len(script) - 1) :
                 LET b == script[m + 1].bytes
                 IN  /\ b \in Seq(Nat) /\ Whole(m + 1) = Whole(m) + Len(b)
                     /\ \A j \in 1..Len(b) : Stream[Whole(m) + j] = b[j]
<1> DEFINE n  == Len(script)
           ss == [i \in DOMAIN script |-> script[i].bytes]
<1>1. n \in Nat /\ DOMAIN script = 1..n /\ Len(script) = n
  OBVIOUS
<1>2. /\ ss \in Seq(Seq(Nat)) /\ Len(ss) = n /\ Stream = FlattenSeq(ss)
      /\ \A m \in 0..n : Whole(m) = Before(ss, m)
  BY WholeIs
<1>3. \A i \in 1..n : ss[i] = script[i].bytes /\ ss[i] \in Seq(Nat)
  BY <1>1, <1>2
<1> HIDE DEF ss, n
<1>4. /\ FlattenSeq(ss) \in Seq(Nat)
      /\ Before(ss, 0) = 0 /\ Before(ss, n) = Len(FlattenSeq(ss))
      /\ \A m \in 0..n :
            Before(ss, m) \in Nat /\ Before(ss, m) <= Len(FlattenSeq(ss))
      /\ \A m \in 1..n :
            /\ Before(ss, m) = Before(ss, m - 1) + Len(ss[m])
            /\ \A j \in 1..Len(ss[m]) :
                  FlattenSeq(ss)[Before(ss, m - 1) + j] = ss[m][j]
  BY <1>2, FlattenAt
<1>5. 0 \in 0..n /\ n \in 0..n
  BY <1>1
<1>6. ASSUME NEW m \in 0..(n - 1)
      PROVE  LET b == script[m + 1].bytes
             IN  /\ b \in Seq(Nat) /\ Whole(m + 1) = Whole(m) + Len(b)
                 /\ \A j \in 1..Len(b) : Stream[Whole(m) + j] = b[j]
  <2>1. m + 1 \in 1..n /\ m + 1 \in 0..n /\ m \in 0..n /\ (m + 1) - 1 = m
    BY <1>1
  <2>2. /\ Before(ss, m + 1) = Before(ss, m) + Len(ss[m + 1])
        /\ \A j \in 1..Len(ss[m + 1]) :
              FlattenSeq(ss)[Before(ss, m) + j] = ss[m + 1][j]
    BY <1>4, <2>1
  <2>3. Whole(m + 1) = Before(ss, m + 1) /\ Whole(m) = Before(ss, m)
    BY <1>2, <2>1
  <2>4. ss[m + 1] = script[m + 1].bytes /\ ss[m + 1] \in Seq(Nat)
    BY <1>3, <2>1
  <2> QED
    BY <1>2, <2>2, <2>3, <2>4
<1> QED
  BY <1>1, <1>2, <1>4, <1>5, <1>6

\* The frames of a script are where Placed says.
LEMMA FramePlaced ==
    ASSUME script \in Scripts, NEW m \in 0..(E - 1)
    PROVE  Placed(m) /\ m + 1 \in 0..E /\ Whole(m) \in Nat /\ Whole(m + 1) \in Nat
<1> DEFINE n == Len(script)
           w == Whole(m)
           v == Whole(m + 1)
           b == script[m + 1].bytes
           f == script[m + 1].frame[1]
           d == Len(f.data)
<1>1. /\ script \in Seq(Item) /\ E \in 0..n
      /\ \A i \in 1..E : /\ script[i].frame # <<>>
                         /\ Expected[i] = script[i].frame[1]
  BY ExpectedIs
<1>2. n \in Nat /\ m + 1 \in 1..E /\ m + 1 \in 1..n /\ m \in 0..(n - 1)
      /\ m \in 0..n /\ m + 1 \in 0..n /\ m + 1 \in 0..E
  BY <1>1
<1>3. script[m + 1] \in Item /\ script[m + 1].frame # <<>> /\ Expected[m + 1] = f
  BY <1>1, <1>2
<1>4. /\ Stream \in Seq(Nat) /\ w \in Nat /\ v \in Nat /\ v <= Len(Stream)
      /\ b \in Seq(Nat) /\ v = w + Len(b)
      /\ \A j \in 1..Len(b) : Stream[w + j] = b[j]
  BY <1>1, <1>2, ItemAt
<1>5. /\ f \in Frame /\ Len(b) = IdSize + 1 + d
      /\ \A j \in 1..IdSize : b[j] = f.id[j]
      /\ Length(b[IdSize + 1]) = d
      /\ \A j \in 1..d : b[IdSize + 1 + j] = f.data[j]
  BY <1>3, ItemBytes
<1>6. /\ f.id \in Seq(Nat) /\ f.data \in Seq(Nat) /\ Len(f.id) = IdSize
      /\ d \in Nat /\ IdSize \in Nat
  BY <1>5, StreamAssumption DEF Frame
<1> DEFINE id == f.id
           data == f.data
<1>7. d = Len(data) /\ id = f.id /\ data = f.data
  OBVIOUS
<1> HIDE DEF n, w, v, b, f, d, id, data
<1>8. v = w + IdSize + 1 + d
  BY <1>4, <1>5, <1>6
<1>9. id = SubSeq(Stream, w + 1, w + IdSize)
  <2>1. ASSUME NEW j \in 1..IdSize PROVE id[j] = Stream[w + j]
    <3>1. j \in 1..Len(b)
      BY <1>5, <1>6
    <3> QED
      BY <1>4, <1>5, <1>7, <3>1
  <2> DEFINE z == w + IdSize
  <2>2. z \in Nat /\ z - w = IdSize /\ w <= z /\ z <= Len(Stream)
    BY <1>4, <1>6, <1>8
  <2>3. id \in Seq(Nat) /\ Len(id) = z - w /\ \A j \in 1..(z - w) : id[j] = Stream[w + j]
    BY <1>6, <1>7, <2>1, <2>2
  <2> HIDE DEF z
  <2>4. id = SubSeq(Stream, w + 1, z)
    BY <1>4, <2>2, <2>3, SliceIs
  <2> QED
    BY <2>4 DEF z
<1>10. Length(Stream[w + IdSize + 1]) = d
  <2>1. IdSize + 1 \in 1..Len(b) /\ w + (IdSize + 1) = w + IdSize + 1
    BY <1>4, <1>5, <1>6
  <2> QED
    BY <1>4, <1>5, <2>1
<1>11. data = SubSeq(Stream, w + IdSize + 1 + 1, v)
  <2> DEFINE z == w + IdSize + 1
  <2>0. w \in Nat /\ d \in Nat /\ IdSize \in Nat
    BY <1>4, <1>6
  <2>1. ASSUME NEW j \in 1..d PROVE data[j] = Stream[z + j]
    <3>1. IdSize + 1 + j \in 1..(IdSize + 1 + d) /\ w + (IdSize + 1 + j) = z + j
      BY ONLY <2>0, j \in 1..d DEF z
    <3>2. IdSize + 1 + j \in 1..Len(b)
      BY <1>5, <3>1
    <3> QED
      BY <1>4, <1>5, <1>7, <3>1, <3>2
  <2>2. z \in Nat /\ v - z = d /\ z <= v
    BY ONLY <2>0, <1>8 DEF z
  <2>3. data \in Seq(Nat) /\ Len(data) = v - z /\ \A j \in 1..(v - z) : data[j] = Stream[z + j]
    BY <1>6, <1>7, <2>1, <2>2
  <2> HIDE DEF z
  <2>4. data = SubSeq(Stream, z + 1, v)
    BY <1>4, <1>6, <2>2, <2>3, SliceIs
  <2> QED
    BY <2>4 DEF z
<1> QED
  BY <1>2, <1>3, <1>4, <1>7, <1>8, <1>9, <1>10, <1>11 DEF Placed, w, v

\* Every script has the layout above.
LEMMA LayoutHolds ==
    ASSUME script \in Scripts
    PROVE  Layout
<1> DEFINE n == Len(script)
<1>1. /\ script \in Seq(Item) /\ Expected \in Seq(Frame) /\ E \in 0..n
      /\ E < n => script[E + 1].frame = <<>>
  BY ExpectedIs
<1>2. n \in Nat /\ \A i \in 1..n : script[i] \in Item
  BY <1>1
<1>3. /\ Stream \in Seq(Nat) /\ Whole(0) = 0 /\ Whole(n) = Len(Stream)
      /\ \A m \in 0..n : Whole(m) \in Nat /\ Whole(m) <= Len(Stream)
      /\ \A m \in 0..(n - 1) :
            LET b == script[m + 1].bytes
            IN  /\ b \in Seq(Nat) /\ Whole(m + 1) = Whole(m) + Len(b)
                /\ \A j \in 1..Len(b) : Stream[Whole(m) + j] = b[j]
  BY <1>1, ItemAt
<1> HIDE DEF n
<1>4. E \in Nat /\ \A m \in 0..E : Whole(m) \in Nat /\ Whole(m) <= Len(Stream)
  BY <1>1, <1>2, <1>3
<1>5. \A m \in 0..(E - 1) : Placed(m) /\ Whole(m) <= Whole(m + 1)
  <2> TAKE m \in 0..(E - 1)
  <2>1. Placed(m) /\ Whole(m) \in Nat /\ m + 1 \in 0..E /\ Whole(m + 1) \in Nat
    BY FramePlaced
  <2>2. m \in 0..(n - 1)
    BY <1>1, <1>2
  <2> DEFINE b == script[m + 1].bytes
  <2>3. b \in Seq(Nat) /\ Whole(m + 1) = Whole(m) + Len(b)
    BY <1>3, <2>2
  <2>4. Len(b) \in Nat
    BY <2>3
  <2> HIDE DEF b
  <2> QED
    BY <2>1, <2>3, <2>4
<1>6. ASSUME NEW i \in 0..E, NEW j \in 0..E, i <= j PROVE Whole(i) <= Whole(j)
  <2> DEFINE S == {k \in 0..E : k < i \/ Whole(i) <= Whole(k)}
  <2>1. 0 \in S
    BY <1>4
  <2>2. ASSUME NEW k \in 0..(E - 1), k \in S PROVE k + 1 \in S
    <3>1. k \in 0..E /\ k + 1 \in 0..E /\ Whole(k) \in Nat /\ Whole(k + 1) \in Nat
          /\ Whole(k) <= Whole(k + 1) /\ Whole(i) \in Nat
      BY <1>4, <1>5
    <3>2. CASE k + 1 = i
      BY <3>1, <3>2
    <3>3. CASE k + 1 # i
      BY <2>2, <3>1, <3>3, <1>4
    <3> QED
      BY <3>2, <3>3
  <2> HIDE DEF S
  <2>3. \A k \in 0..E : k \in S
    BY <1>4, <2>1, <2>2, UpTo
  <2>4. ~(j < i) /\ j \in S
    BY <1>4, <1>6, <2>3
  <2> QED
    BY <2>4 DEF S
<1>7. ASSUME Whole(E) < Len(Stream)
      PROVE  /\ Whole(E) + IdSize + 1 <= Len(Stream)
             /\ Length(Stream[Whole(E) + IdSize + 1]) > MaxLen
  <2> DEFINE b == script[E + 1].bytes
             l == Len(Stream)
  <2>1. l \in Nat /\ Whole(E) \in Nat /\ Whole(E) # Whole(n) /\ l = Len(Stream)
    BY <1>3, <1>4, <1>7
  <2>2. E \in 0..(n - 1) /\ E + 1 \in 1..n /\ E + 1 \in 0..n /\ E < n
    BY <1>1, <1>2, <2>1
  <2>3. script[E + 1] \in Item /\ script[E + 1].frame = <<>>
    BY <1>1, <1>2, <2>2
  <2>4. Len(b) > IdSize /\ Length(b[IdSize + 1]) > MaxLen
    BY <2>3 DEF Item
  <2>5. /\ b \in Seq(Nat) /\ Whole(E + 1) = Whole(E) + Len(b)
        /\ \A j \in 1..Len(b) : Stream[Whole(E) + j] = b[j]
        /\ Whole(E + 1) <= l
    BY <1>3, <2>2
  <2>6. Len(b) \in Nat /\ IdSize \in Nat
    BY <2>5, StreamAssumption
  <2> HIDE DEF b, l
  <2>7. IdSize + 1 \in 1..Len(b) /\ Whole(E) + (IdSize + 1) = Whole(E) + IdSize + 1
    BY <2>1, <2>4, <2>6
  <2>8. Stream[Whole(E) + IdSize + 1] = b[IdSize + 1]
    BY <2>5, <2>7
  <2> QED
    BY <2>1, <2>4, <2>5, <2>6, <2>8
<1> QED
  BY <1>1, <1>3, <1>4, <1>5, <1>6, <1>7 DEF Layout

-----------------------------------------------------------------------------
(***************************************************************************)
(* The steps                                                                *)
(***************************************************************************)

\* The script stays, and with it all that is computed from it.
LEMMA Fixed ==
    ASSUME script' = script
    PROVE  /\ Stream' = Stream /\ Expected' = Expected /\ E' = E
           /\ Here' = Whole(Len(sent'))
           /\ ThisId' = SubSeq(Stream, Whole(Len(sent')) + 1, Whole(Len(sent')) + IdSize)
           /\ arrived' = arrived /\ (eof => eof') /\ Ragged => Ragged'
           /\ Whole(E)' = Whole(E)
<1>1. Stream' = Stream
  BY DEF Stream
<1>2. Expected' = Expected
  BY DEF Expected
<1>3. E' = E
  BY <1>2 DEF E
<1>4. Here' = Whole(Len(sent'))
  BY DEF Here, Whole
<1>5. ThisId' = SubSeq(Stream, Whole(Len(sent')) + 1, Whole(Len(sent')) + IdSize)
  BY <1>1, <1>4 DEF ThisId
<1>6. ASSUME arrived' = arrived, eof => eof', Ragged PROVE Ragged'
  BY <1>3, <1>6 DEF Ragged, Whole
<1>7. Whole(E)' = Whole(E)
  BY <1>3 DEF Whole
<1> QED
  BY <1>1, <1>2, <1>3, <1>4, <1>5, <1>6, <1>7

\* The reader's place as seen from a state in which only the peer or the clock
\* has moved.
LEMMA SamePlace ==
    ASSUME script' = script, UNCHANGED readerVars
    PROVE  SentInv' = SentInv /\ PlaceInv' = PlaceInv
<1>1. /\ pos' = pos /\ part' = part /\ got' = got /\ frame' = frame /\ need' = need
      /\ sent' = sent
  BY DEF readerVars
<1>2. Stream' = Stream /\ Expected' = Expected /\ E' = E /\ Here' = Whole(Len(sent'))
  BY Fixed
<1>3. Here' = Here /\ ThisId' = ThisId
  BY <1>1, <1>2 DEF Here, ThisId
<1>4. SentInv' = SentInv
  BY <1>1, <1>2 DEF SentInv
<1>5. PlaceInv' = PlaceInv
  BY <1>1, <1>2, <1>3 DEF PlaceInv, NoFrame
<1> QED
  BY <1>4, <1>5

\* The invariant holds when the connection is accepted.
LEMMA StreamInit == Init => StreamInv
<1> SUFFICES ASSUME Init PROVE StreamInv
  OBVIOUS
<1>1. Layout
  BY LayoutHolds DEF Init
<1>2. Types
  <2>1. Len(Stream) \in Nat
    BY <1>1 DEF Layout
  <2>2. pos \in Nat /\ arrived \in Nat /\ pos <= arrived /\ arrived <= Len(Stream)
        /\ expiries \in Nat
    BY <2>1 DEF Init
  <2>3. eof \in BOOLEAN /\ expired \in BOOLEAN /\ slipped \in BOOLEAN
    BY DEF Init
  <2> QED
    BY <2>2, <2>3 DEF Types, Init
<1>3. EndInv
  BY DEF EndInv, Init
<1>4. SentInv
  <2>1. E \in Nat
    BY <1>1 DEF Layout
  <2> QED
    BY <2>1 DEF SentInv, Init
<1>5. PlaceInv
  <2>1. Here = 0
    BY <1>1 DEF Layout, Here, Init
  <2>2. SubSeq(Stream, 0 + 1, 0) = <<>>
    BY SubSeqEmpty
  <2> QED
    BY <2>1, <2>2, StreamAssumption DEF PlaceInv, Init
<1> QED
  BY <1>2, <1>3, <1>4, <1>5 DEF StreamInv

\* The network and the clock do not disturb it.
LEMMA NetworkStep ==
    ASSUME StreamInv,
           (\E k \in 1..Len(Stream) : Arrive(k)) \/ PeerClose \/ Expire
    PROVE  StreamInv'
<1>1. script' = script /\ UNCHANGED readerVars
  BY DEF Arrive, PeerClose, Expire
<1>2. SentInv' = SentInv /\ PlaceInv' = PlaceInv
  BY <1>1, SamePlace
<1>3. /\ outcome' = outcome /\ slipped' = slipped /\ pos' = pos /\ part' = part
      /\ got' = got
  BY <1>1 DEF readerVars
<1>4. Stream' = Stream /\ (arrived' = arrived /\ (eof => eof') /\ Ragged => Ragged')
      /\ Whole(E)' = Whole(E)
  BY <1>1, Fixed
<1>5. Layout /\ Len(Stream) \in Nat /\ Whole(E) \in Nat
  BY LayoutHolds DEF StreamInv, Types, Layout
<1>6. Types' /\ EndInv'
  <2>1. CASE \E k \in 1..Len(Stream) : Arrive(k)
    <3>1. PICK k \in 1..Len(Stream) : Arrive(k)
      BY <2>1
    <3>2. /\ ~eof /\ arrived + k <= Len(Stream) /\ arrived' = arrived + k
          /\ eof' = eof /\ expired' = expired /\ expiries' = expiries
      BY <3>1 DEF Arrive
    <3>3. Types'
      BY <1>1, <1>3, <1>4, <1>5, <3>2 DEF StreamInv, Types
    <3>4. Ragged => Ragged'
      <4>1. arrived \in Nat /\ arrived' \in Nat /\ arrived <= arrived'
        BY <1>5, <3>2 DEF StreamInv, Types
      <4>2. Ragged => arrived > Whole(E)
        BY <3>2 DEF Ragged
      <4>3. arrived > Whole(E) => arrived' > Whole(E)
        BY <1>5, <4>1
      <4>4. arrived' > Whole(E)' => Ragged'
        BY DEF Ragged
      <4> QED
        BY <1>4, <4>2, <4>3, <4>4
    <3>5. EndInv'
      BY <1>3, <3>2, <3>4 DEF StreamInv, EndInv
    <3> QED
      BY <3>3, <3>5
  <2>2. CASE PeerClose
    <3>1. ~eof /\ eof' = TRUE /\ arrived' = arrived /\ expired' = expired
          /\ expiries' = expiries
      BY <2>2 DEF PeerClose
    <3>2. Types'
      BY <1>1, <1>3, <1>4, <3>1 DEF StreamInv, Types
    <3>3. EndInv'
      BY <1>3, <1>4, <3>1 DEF StreamInv, EndInv
    <3> QED
      BY <3>2, <3>3
  <2>3. CASE Expire
    <3>1. outcome = "none" /\ expired' = TRUE /\ expiries' = expiries + 1
          /\ arrived' = arrived /\ eof' = eof
      BY <2>3 DEF Expire
    <3>2. Types'
      BY <1>1, <1>3, <1>4, <3>1 DEF StreamInv, Types
    <3>3. EndInv'
      BY <1>3, <3>1 DEF StreamInv, Types, EndInv
    <3> QED
      BY <3>2, <3>3, EmptySeq
  <2> QED
    BY <2>1, <2>2, <2>3
<1> QED
  BY <1>2, <1>3, <1>6 DEF StreamInv

\* A Read takes the next k bytes of the stream.
LEMMA Taken ==
    ASSUME StreamInv, NEW k \in Nat, TakeBytes(k)
    PROVE  /\ pos \in Nat /\ pos' = pos + k /\ pos' \in Nat /\ pos' <= arrived
           /\ arrived <= Len(Stream) /\ Len(Stream) \in Nat /\ Layout
           /\ Bytes(k) \in Seq(Nat) /\ Len(Bytes(k)) = k
           /\ \A i \in 1..k : Bytes(k)[i] = Stream[pos + i]
           /\ outcome = "none"
<1>1. Layout /\ Stream \in Seq(Nat) /\ Len(Stream) \in Nat
  BY LayoutHolds DEF StreamInv, Types, Layout
<1> DEFINE z == pos + k
<1>2. /\ pos \in Nat /\ z \in Nat /\ z = pos' /\ z <= arrived /\ arrived \in Nat
      /\ arrived <= Len(Stream) /\ outcome = "none" /\ z - pos = k
  BY DEF StreamInv, Types, TakeBytes
<1>3. pos \in Nat /\ z \in Nat /\ pos <= z /\ z <= Len(Stream) /\ Stream \in Seq(Nat)
  BY <1>1, <1>2
<1> HIDE DEF z
<1>4. /\ SubSeq(Stream, pos + 1, z) \in Seq(Nat)
      /\ Len(SubSeq(Stream, pos + 1, z)) = z - pos
      /\ \A i \in 1..(z - pos) : SubSeq(Stream, pos + 1, z)[i] = Stream[pos + i]
  BY ONLY <1>3, SliceAt
<1> QED
  BY <1>1, <1>2, <1>4 DEF Bytes, z

\* What has been gathered of a part grows by what the Read returns.
LEMMA Gathered ==
    ASSUME StreamInv, NEW k \in Nat, TakeBytes(k), NEW h \in Nat, h <= pos,
           got = SubSeq(Stream, h + 1, pos)
    PROVE  /\ Len(got) = pos - h /\ Len(got \o Bytes(k)) = pos' - h
           /\ got \o Bytes(k) = SubSeq(Stream, h + 1, pos')
<1>1. /\ pos \in Nat /\ pos' = pos + k /\ pos' \in Nat /\ pos' <= arrived
      /\ arrived <= Len(Stream) /\ Len(Stream) \in Nat /\ Layout
  BY Taken
<1>2. Stream \in Seq(Nat) /\ arrived \in Nat
  BY <1>1 DEF Layout, StreamInv, Types
<1> DEFINE z == pos'
<1>3. /\ Stream \in Seq(Nat) /\ pos \in Nat /\ z \in Nat /\ pos <= z /\ z <= Len(Stream)
      /\ h \in Nat /\ h <= pos /\ h <= z /\ pos <= Len(Stream)
  BY <1>1, <1>2
<1>4. Bytes(k) = SubSeq(Stream, pos + 1, z)
  BY <1>1 DEF Bytes
<1> HIDE DEF z
<1>5. SubSeq(Stream, h + 1, pos) \o SubSeq(Stream, pos + 1, z) = SubSeq(Stream, h + 1, z)
  BY ONLY <1>3, SliceJoin
<1>6. Len(SubSeq(Stream, h + 1, pos)) = pos - h
  BY ONLY <1>3, SliceAt
<1>7. Len(SubSeq(Stream, h + 1, z)) = z - h
  BY ONLY <1>3, SliceAt
<1> QED
  BY <1>4, <1>5, <1>6, <1>7 DEF z

\* A Read of the identifier.
LEMMA ReadIdStep ==
    ASSUME StreamInv, NEW k \in 1..IdSize, ReadId(k)
    PROVE  StreamInv'
<1>1. k \in Nat /\ IdSize \in Nat /\ TakeBytes(k) /\ part = "id"
      /\ Len(got) + k <= IdSize
  BY StreamAssumption DEF ReadId
<1>2. /\ script' = script /\ arrived' = arrived /\ eof' = eof /\ expiries' = expiries
      /\ expired' = expired /\ need' = need /\ sent' = sent /\ outcome' = outcome
      /\ slipped' = slipped
  BY DEF ReadId, wireVars
<1>3. /\ pos \in Nat /\ pos' = pos + k /\ pos' \in Nat /\ pos' <= arrived
      /\ Layout /\ outcome = "none"
  BY <1>1, Taken
<1>4. Stream' = Stream /\ Expected' = Expected /\ E' = E /\ Here' = Whole(Len(sent'))
  BY <1>2, Fixed
<1>5. Here' = Here /\ ThisId' = ThisId
  BY <1>2, <1>4 DEF Here, ThisId
<1>6. Types'
  <2>1. part' \in {"id", "len", "data"}
    BY <1>1 DEF ReadId
  <2>2. got' \in Seq(Nat)
    <3>1. got \in Seq(Nat) /\ Bytes(k) \in Seq(Nat)
      BY <1>1, Taken DEF StreamInv, Types
    <3>2. got \o Bytes(k) \in Seq(Nat)
      BY <3>1, ConcatProperties
    <3>3. got' = got \o Bytes(k) \/ got' = <<>>
      BY DEF ReadId
    <3> QED
      BY <3>2, <3>3, EmptySeq
  <2> QED
    BY <1>2, <1>3, <1>4, <2>1, <2>2 DEF StreamInv, Types
<1>7. EndInv'
  BY <1>2, <1>3 DEF StreamInv, EndInv
<1>8. SentInv' = SentInv
  BY <1>2, <1>4 DEF SentInv
<1>9. ASSUME ~slipped PROVE PlaceInv'
  <2>1. SentInv /\ PlaceInv
    BY <1>3, <1>9 DEF StreamInv
  <2>2. Here \in Nat
    BY <1>3, <2>1 DEF Here, SentInv, Layout
  <2>3. Len(got) < IdSize /\ pos = Here + Len(got) /\ got = SubSeq(Stream, Here + 1, pos)
        /\ frame = NoFrame
    BY <1>1, <2>1 DEF PlaceInv
  <2>4. Len(got) \in Nat /\ Here <= pos
    <3>1. Len(got) \in Nat
      BY DEF StreamInv, Types
    <3> QED
      BY <2>2, <2>3, <3>1
  <2>5. /\ Len(got) = pos - Here /\ Len(got \o Bytes(k)) = pos' - Here
        /\ got \o Bytes(k) = SubSeq(Stream, Here + 1, pos')
    BY <1>1, <2>2, <2>3, <2>4, Gathered
  <2>6. CASE Len(got) + k < IdSize
    <3>1. got' = got \o Bytes(k) /\ part' = "id" /\ frame' = NoFrame
      BY <1>1, <2>3, <2>6 DEF ReadId
    <3>2. Len(got') = pos' - Here /\ got' = SubSeq(Stream, Here + 1, pos')
      BY <2>5, <3>1
    <3>3. pos' = Here + Len(got') /\ Len(got') < IdSize
      BY <1>1, <1>3, <2>2, <2>4, <2>5, <2>6, <3>2
    <3> QED
      BY <1>4, <1>5, <3>1, <3>2, <3>3 DEF PlaceInv, NoFrame
  <2>7. CASE ~(Len(got) + k < IdSize)
    <3>1. pos' = Here + IdSize
      BY <1>1, <1>3, <2>2, <2>4, <2>5, <2>7
    <3>2. frame' = [frame EXCEPT !.id = got \o Bytes(k)] /\ part' = "len" /\ got' = <<>>
      BY <1>1, <2>7 DEF ReadId
    <3>3. frame' = [id |-> ThisId, data |-> <<>>]
      BY <2>3, <2>5, <3>1, <3>2 DEF NoFrame, ThisId
    <3> QED
      BY <1>4, <1>5, <3>1, <3>2, <3>3 DEF PlaceInv
  <2> QED
    BY <2>6, <2>7
<1> QED
  BY <1>2, <1>6, <1>7, <1>8, <1>9 DEF StreamInv

\* A frame delivered at its end in the stream leaves the reader before the
\* next one.
LEMMA Delivered ==
    ASSUME Layout, SentInv, script' = script, Len(sent) < E,
           Deliver(Expected[Len(sent) + 1]), pos' = Whole(Len(sent) + 1)
    PROVE  SentInv' /\ PlaceInv'
<1> DEFINE m == Len(sent)
           f == Expected[m + 1]
<1>1. /\ sent \in Seq(Frame) /\ m \in Nat /\ \A i \in 1..m : sent[i] = Expected[i]
      /\ E \in Nat /\ Expected \in Seq(Frame) /\ m + 1 \in 1..E /\ m + 1 \in 0..E
  BY DEF SentInv, Layout
<1>2. f \in Frame /\ pos' \in Nat
  BY <1>1 DEF E, Layout
<1>3. sent' = Append(sent, f) /\ part' = "id" /\ got' = <<>> /\ frame' = NoFrame
  BY DEF Deliver, Restart
<1>4. /\ Stream' = Stream /\ Expected' = Expected /\ E' = E
      /\ Here' = Whole(Len(sent'))
  BY Fixed
<1> HIDE DEF f
<1>5. /\ sent' \in Seq(Frame) /\ Len(sent') = m + 1
      /\ \A i \in 1..m : sent'[i] = sent[i]
      /\ sent'[m + 1] = f
  BY <1>1, <1>2, <1>3, AppendProperties
<1> HIDE DEF m
<1>6. \A i \in 1..(m + 1) : sent'[i] = Expected[i]
  BY <1>1, <1>5 DEF f
<1>7. SentInv'
  BY <1>1, <1>4, <1>5, <1>6 DEF SentInv
<1>8. Here' = pos'
  BY <1>4, <1>5 DEF m
<1>9. SubSeq(Stream, pos' + 1, pos') = <<>>
  BY <1>2, SubSeqEmpty
<1>10. PlaceInv'
  BY <1>2, <1>3, <1>4, <1>8, <1>9, StreamAssumption DEF PlaceInv, NoFrame
<1> QED
  BY <1>7, <1>10

\* A Read of the payload; the last one delivers the frame.
LEMMA ReadDataStep ==
    ASSUME StreamInv, NEW k \in 1..MaxLen, ReadData(k)
    PROVE  StreamInv'
<1>1. k \in Nat /\ IdSize \in Nat /\ MaxLen \in Nat /\ TakeBytes(k) /\ part = "data"
      /\ Len(got) + k <= need
  BY StreamAssumption DEF ReadData
<1>2. /\ script' = script /\ arrived' = arrived /\ eof' = eof /\ expiries' = expiries
      /\ expired' = expired /\ outcome' = outcome /\ slipped' = slipped
  BY DEF ReadData, wireVars
<1>3. /\ pos \in Nat /\ pos' = pos + k /\ pos' \in Nat /\ pos' <= arrived
      /\ Layout /\ outcome = "none"
  BY <1>1, Taken
<1>4. Stream' = Stream /\ Expected' = Expected /\ E' = E /\ Here' = Whole(Len(sent'))
  BY <1>2, Fixed
<1>5. Types'
  <2>1. part' \in {"id", "len", "data"}
    BY <1>1 DEF ReadData, Deliver, Restart
  <2>2. got' \in Seq(Nat)
    <3>1. got \in Seq(Nat) /\ Bytes(k) \in Seq(Nat)
      BY <1>1, Taken DEF StreamInv, Types
    <3>2. got \o Bytes(k) \in Seq(Nat)
      BY <3>1, ConcatProperties
    <3>3. got' = got \o Bytes(k) \/ got' = <<>>
      BY DEF ReadData, Deliver, Restart
    <3> QED
      BY <3>2, <3>3, EmptySeq
  <2> QED
    BY <1>2, <1>3, <1>4, <2>1, <2>2 DEF StreamInv, Types
<1>6. EndInv'
  BY <1>2, <1>3 DEF StreamInv, EndInv
<1>7. ASSUME ~slipped PROVE SentInv' /\ PlaceInv'
  <2> DEFINE m == Len(sent)
             f == Expected[m + 1]
             h == Here + IdSize + 1
  <2>1. SentInv /\ PlaceInv
    BY <1>3, <1>7 DEF StreamInv
  <2>2. /\ m < E /\ need = Len(f.data) /\ Len(got) < need /\ pos = h + Len(got)
        /\ got = SubSeq(Stream, h + 1, pos) /\ frame = [id |-> ThisId, data |-> <<>>]
    BY <1>1, <2>1 DEF PlaceInv
  <2>3. /\ m \in 0..(E - 1) /\ m + 1 \in 1..E /\ m + 1 \in 0..E /\ Here = Whole(m)
        /\ E \in Nat /\ Expected \in Seq(Frame) /\ m \in Nat
    <3>1. E \in Nat /\ Expected \in Seq(Frame)
      BY <1>3 DEF Layout
    <3>2. m \in 0..E /\ m < E /\ Here = Whole(m)
      BY <2>1, <2>2 DEF SentInv, Here
    <3> HIDE DEF m
    <3>3. m \in 0..(E - 1) /\ m + 1 \in 1..E /\ m + 1 \in 0..E /\ m \in Nat
      BY ONLY <3>1, <3>2
    <3> QED
      BY <3>1, <3>2, <3>3
  <2>4. Placed(m) /\ Here \in Nat /\ Whole(m + 1) \in Nat
    BY <1>3, <2>3 DEF Layout
  <2>5. f \in Frame
    BY <2>3 DEF E
  <2>6. /\ f.id \in Seq(Nat) /\ f.data \in Seq(Nat) /\ f = [id |-> f.id, data |-> f.data]
        /\ need \in Nat
    BY <2>2, <2>5 DEF Frame
  <2>7. Len(got) \in Nat
    BY DEF StreamInv, Types
  <2>8. h \in Nat /\ h <= pos
    <3>1. h \in Nat /\ pos = h + Len(got)
      BY <1>1, <2>2, <2>4
    <3> HIDE DEF h
    <3> QED
      BY <2>7, <3>1
  <2>9. /\ f.id = ThisId /\ Whole(m + 1) = h + need
        /\ f.data = SubSeq(Stream, h + 1, Whole(m + 1))
    BY <2>2, <2>3, <2>4 DEF Placed, ThisId
  <2> HIDE DEF h, f, m
  <2>10. /\ Len(got) = pos - h /\ Len(got \o Bytes(k)) = pos' - h
         /\ got \o Bytes(k) = SubSeq(Stream, h + 1, pos')
    BY <1>1, <2>2, <2>8, Gathered
  <2>11. CASE Len(got) + k < need
    <3>1. got' = got \o Bytes(k) /\ part' = part /\ frame' = frame /\ need' = need
          /\ sent' = sent
      BY <2>11 DEF ReadData
    <3>2. Here' = Here /\ ThisId' = ThisId
      BY <1>4, <3>1 DEF Here, ThisId
    <3>3. SentInv'
      BY <1>4, <2>1, <3>1 DEF SentInv
    <3>4. Len(got') = pos' - h /\ got' = SubSeq(Stream, h + 1, pos')
      BY <2>10, <3>1
    <3>5. pos' = h + Len(got') /\ Len(got') < need
      <4> DEFINE g == Len(got)
                 y == Len(got')
                 z == pos'
      <4>1. /\ g \in Nat /\ k \in Nat /\ need \in Nat /\ h \in Nat /\ pos \in Nat
            /\ g + k < need /\ g = pos - h /\ z = pos + k /\ y = z - h
        BY <1>1, <1>3, <2>6, <2>7, <2>8, <2>10, <2>11, <3>4
      <4> HIDE DEF g, y, z
      <4>2. z = h + y /\ y < need
        BY ONLY <4>1
      <4> QED
        BY <4>2 DEF y, z
    <3>6. PlaceInv'
      BY <1>1, <1>4, <2>2, <3>1, <3>2, <3>4, <3>5 DEF PlaceInv, h, f, m
    <3> QED
      BY <3>3, <3>6
  <2>12. CASE ~(Len(got) + k < need)
    <3>2. pos' = Whole(m + 1)
      <4> DEFINE g == Len(got)
                 w == Whole(m + 1)
                 z == pos'
      <4>1. /\ g \in Nat /\ k \in Nat /\ need \in Nat /\ h \in Nat /\ pos \in Nat
            /\ g + k <= need /\ ~(g + k < need) /\ pos = h + g /\ z = pos + k
            /\ w = h + need
        BY <1>1, <1>3, <2>2, <2>6, <2>7, <2>8, <2>9, <2>12
      <4> HIDE DEF g, w, z
      <4>2. z = w
        BY <4>1
      <4> QED
        BY <4>2 DEF z, w
    <3>3. [frame EXCEPT !.data = got \o Bytes(k)] = f
      <4>1. got \o Bytes(k) = f.data
        BY <2>9, <2>10, <3>2
      <4>2. [frame EXCEPT !.data = f.data] = [id |-> f.id, data |-> f.data]
        <5>1. frame = [id |-> f.id, data |-> <<>>]
          BY <2>2, <2>9
        <5> QED
          BY <5>1
      <4> QED
        BY <2>6, <4>1, <4>2
    <3>4. Deliver(f)
      BY <2>12, <3>3 DEF ReadData
    <3> QED
      BY <1>2, <1>3, <2>1, <2>2, <3>2, <3>4, Delivered DEF f, m
  <2> QED
    BY <2>11, <2>12
<1> QED
  BY <1>2, <1>5, <1>6, <1>7 DEF StreamInv

\* A Read of the length byte: an error, a frame without a payload, or the
\* payload follows.
LEMMA ReadLenStep ==
    ASSUME StreamInv, ReadLen
    PROVE  StreamInv'
<1> DEFINE ln == Length(Bytes(1)[1])
<1>1. /\ part = "len" /\ TakeBytes(1) /\ IdSize \in Nat /\ MaxLen \in Nat
      /\ script' = script /\ arrived' = arrived /\ eof' = eof /\ expiries' = expiries
      /\ expired' = expired /\ slipped' = slipped
  BY StreamAssumption DEF ReadLen, wireVars
<1>2. \/ /\ ln > MaxLen /\ outcome' = "error" /\ part' = part /\ got' = got
         /\ frame' = frame /\ need' = need /\ sent' = sent
      \/ ln = 0 /\ Deliver(frame) /\ outcome' = outcome
      \/ /\ ln \in 1..MaxLen /\ need' = ln /\ part' = "data" /\ got' = got
         /\ frame' = frame /\ sent' = sent /\ outcome' = outcome
  BY DEF ReadLen
<1> HIDE DEF ln
<1>3. /\ pos \in Nat /\ pos' = pos + 1 /\ pos' \in Nat /\ pos' <= arrived
      /\ arrived <= Len(Stream) /\ Len(Stream) \in Nat /\ Layout /\ outcome = "none"
      /\ ln = Length(Stream[pos + 1])
  <2>1. 1 \in Nat /\ 1 \in 1..1
    OBVIOUS
  <2> QED
    BY <1>1, <2>1, Taken DEF ln
<1>4. Stream' = Stream /\ Expected' = Expected /\ E' = E /\ Here' = Whole(Len(sent'))
      /\ (arrived' = arrived /\ (eof => eof') /\ Ragged => Ragged')
  BY <1>1, Fixed
<1>5. Types'
  <2>1. part' \in {"id", "len", "data"} /\ outcome' \in {"none", "eof", "error"}
    BY <1>1, <1>2, <1>3 DEF Deliver, Restart
  <2>2. got' \in Seq(Nat)
    BY <1>2, EmptySeq DEF StreamInv, Types, Deliver, Restart
  <2> QED
    BY <1>1, <1>3, <1>4, <2>1, <2>2 DEF StreamInv, Types
<1>6. ASSUME ~slipped
      PROVE  /\ SentInv'
             /\ outcome' = "error" => Ragged
             /\ outcome' # "error" => PlaceInv'
  <2> DEFINE m == Len(sent)
             h == Here + IdSize + 1
  <2>1. SentInv /\ PlaceInv
    BY <1>3, <1>6 DEF StreamInv
  <2>2. /\ got = <<>> /\ pos = Here + IdSize /\ frame = [id |-> ThisId, data |-> <<>>]
    BY <1>1, <2>1 DEF PlaceInv
  <2>3. /\ m \in 0..E /\ E \in Nat /\ Expected \in Seq(Frame) /\ Here = Whole(m)
        /\ Here \in Nat
    BY <1>3, <2>1 DEF SentInv, Layout, Here
  <2>4. h = pos' /\ ln = Length(Stream[h])
    BY <1>1, <1>3, <2>2, <2>3
  <2>5. sent' = sent => SentInv'
    BY <1>4, <2>1 DEF SentInv
  <2>6. CASE m < E
    <3> DEFINE f == Expected[m + 1]
    <3>1. m \in 0..(E - 1) /\ m + 1 \in 1..E /\ m + 1 \in 0..E
      BY <2>3, <2>6
    <3>2. f \in Frame
      BY <2>3, <3>1 DEF E
    <3>3. /\ f.id \in Seq(Nat) /\ f.data \in Seq(Nat) /\ Len(f.data) \in 0..MaxLen
          /\ f = [id |-> f.id, data |-> f.data]
      BY <1>1, <3>2 DEF Frame
    <3>4. /\ ln = Len(f.data) /\ f.id = ThisId /\ Whole(m + 1) = h + Len(f.data)
      BY <1>3, <2>3, <2>4, <3>1 DEF Layout, Placed, ThisId
    <3> HIDE DEF f, h
    <3>5. CASE ln = 0
      <4>1. Deliver(frame) /\ outcome' = outcome
        BY <1>1, <1>2, <3>5
      <4>2. f.data = <<>> /\ pos' = Whole(m + 1)
        <5>1. Len(f.data) = 0
          BY <3>4, <3>5
        <5>2. f.data = <<>>
          BY <3>3, <5>1, EmptySeq
        <5>3. pos' = Whole(m + 1)
          BY <1>3, <2>4, <3>4, <5>1
        <5> QED
          BY <5>2, <5>3
      <4>3. frame = f
        BY <2>2, <3>3, <3>4, <4>2
      <4>4. SentInv' /\ PlaceInv'
        BY <1>1, <1>3, <2>1, <2>6, <4>1, <4>2, <4>3, Delivered DEF f
      <4> QED
        BY <1>3, <4>1, <4>4
    <3>6. CASE ln # 0
      <4>1. /\ need' = ln /\ part' = "data" /\ got' = got /\ frame' = frame
            /\ sent' = sent /\ outcome' = outcome /\ ln > 0
        BY <1>1, <1>2, <3>3, <3>4, <3>6
      <4>2. Here' = Here /\ ThisId' = ThisId
        BY <1>4, <4>1 DEF Here, ThisId
      <4>3. got' = SubSeq(Stream, h + 1, pos') /\ Len(got') = 0
        BY <1>3, <2>2, <2>4, <4>1, SubSeqEmpty
      <4>4. pos' = h + Len(got')
        BY <1>3, <2>4, <4>3
      <4>5. PlaceInv'
        BY <1>4, <2>2, <2>6, <3>4, <4>1, <4>2, <4>3, <4>4 DEF PlaceInv, f, h
      <4> QED
        BY <1>3, <2>5, <4>1, <4>5
    <3> QED
      BY <3>5, <3>6
  <2>7. CASE ~(m < E)
    <3>1. m = E /\ Whole(E) = Here
      BY <2>3, <2>7
    <3>2. arrived \in Nat
      BY DEF StreamInv, Types
    <3>3. Whole(E) < arrived /\ Whole(E) < Len(Stream)
      BY <1>1, <1>3, <2>2, <2>3, <3>1, <3>2
    <3>4. ln > MaxLen
      BY <1>3, <2>4, <3>1, <3>3 DEF Layout
    <3>5. sent' = sent /\ outcome' = "error"
      BY <1>1, <1>2, <3>4
    <3>6. Ragged
      BY <2>3, <3>1, <3>2, <3>3 DEF Ragged
    <3> QED
      BY <2>5, <3>5, <3>6
  <2> QED
    BY <2>6, <2>7
<1>7. EndInv'
  <2>1. outcome' # "eof"
    BY <1>2, <1>3
  <2>2. outcome' = "error" /\ expiries' = 0 => Ragged'
    BY <1>1, <1>4, <1>6 DEF StreamInv, EndInv, Types
  <2> QED
    BY <1>1, <2>1, <2>2 DEF StreamInv, EndInv
<1> QED
  BY <1>1, <1>5, <1>6, <1>7 DEF StreamInv

\* A deadline that expires.
LEMMA TimeoutStep ==
    ASSUME StreamInv, Timeout
    PROVE  StreamInv'
<1>1. /\ script' = script /\ arrived' = arrived /\ eof' = eof /\ expiries' = expiries
      /\ pos' = pos /\ sent' = sent /\ outcome = "none" /\ expired
  BY DEF Timeout, wireVars
<1>2. expiries > 0 /\ expiries \in Nat
  BY <1>1 DEF StreamInv, EndInv, Types
<1>3. /\ Stream' = Stream /\ Expected' = Expected /\ E' = E
      /\ Here' = Whole(Len(sent'))
  BY <1>1, Fixed
<1>4. SentInv' = SentInv
  BY <1>1, <1>3 DEF SentInv
<1>5. CASE IsTimeout
  <2>1. /\ expired' = FALSE /\ part' = "id" /\ got' = <<>> /\ frame' = NoFrame
        /\ slipped' = (slipped \/ part = "len" \/ got # <<>>) /\ outcome' = outcome
    BY <1>5 DEF Timeout, Restart
  <2>2. Types'
    <3>1. slipped' \in BOOLEAN /\ expired' \in BOOLEAN
      BY <2>1 DEF StreamInv, Types
    <3> QED
      BY <1>1, <1>3, <2>1, <3>1, EmptySeq DEF StreamInv, Types
  <2>3. EndInv'
    BY <1>1, <1>2, <2>1 DEF EndInv
  <2>4. ASSUME ~slipped' PROVE SentInv' /\ PlaceInv'
    <3>1. ~slipped /\ part = "id" /\ got = <<>>
      BY <1>5, <2>1, <2>4 DEF IsTimeout
    <3>2. SentInv /\ PlaceInv /\ Layout
      BY <1>1, <3>1, LayoutHolds DEF StreamInv, Types
    <3>3. Here' = Here /\ Here \in Nat
      BY <1>1, <1>3, <3>2 DEF Here, SentInv, Layout
    <3>4. pos = Here /\ got = SubSeq(Stream, Here + 1, pos) /\ Len(got) < IdSize
      BY <3>1, <3>2, <3>3 DEF PlaceInv
    <3>5. got' = got
      BY <2>1, <3>1
    <3>6. PlaceInv'
      BY <1>1, <1>3, <2>1, <3>1, <3>3, <3>4, <3>5 DEF PlaceInv, NoFrame
    <3> QED
      BY <1>4, <3>2, <3>6
  <2> QED
    BY <2>2, <2>3, <2>4 DEF StreamInv
<1>6. CASE ~IsTimeout
  <2>1. /\ outcome' = "error" /\ expired' = expired /\ part' = part /\ got' = got
        /\ slipped' = slipped
    BY <1>6 DEF Timeout
  <2>2. Types'
    BY <1>1, <1>3, <2>1 DEF StreamInv, Types
  <2>3. EndInv'
    BY <1>1, <1>2, <2>1 DEF EndInv
  <2> QED
    BY <1>4, <2>1, <2>2, <2>3 DEF StreamInv
<1> QED
  BY <1>5, <1>6

\* The end of the stream, inside a frame or between two.
LEMMA EndStep ==
    ASSUME StreamInv, EndOfStream
    PROVE  StreamInv'
<1>1. /\ script' = script /\ arrived' = arrived /\ eof' = eof /\ expiries' = expiries
      /\ pos' = pos /\ sent' = sent /\ outcome = "none" /\ expired' = expired
      /\ part' = part /\ got' = got /\ frame' = frame /\ need' = need
      /\ slipped' = slipped /\ eof /\ pos = arrived /\ outcome' = EndError
  BY DEF EndOfStream, wireVars
<1>2. /\ Stream' = Stream /\ Expected' = Expected /\ E' = E
      /\ Here' = Whole(Len(sent'))
      /\ (arrived' = arrived /\ (eof => eof') /\ Ragged => Ragged')
  BY <1>1, Fixed
<1>3. Here' = Here /\ ThisId' = ThisId
  BY <1>1, <1>2 DEF Here, ThisId
<1>4. SentInv' = SentInv /\ PlaceInv' = PlaceInv
  BY <1>1, <1>2, <1>3 DEF SentInv, PlaceInv, NoFrame
<1>5. Types'
  <2>1. outcome' \in {"none", "eof", "error"}
    BY <1>1 DEF EndError
  <2> QED
    BY <1>1, <1>2, <2>1 DEF StreamInv, Types
<1>6. ASSUME outcome' = "error", expiries = 0 PROVE Ragged
  <2>1. ~slipped
    BY <1>6 DEF StreamInv, EndInv
  <2>2. SentInv /\ PlaceInv /\ Layout
    BY <1>1, <2>1, LayoutHolds DEF StreamInv, Types
  <2>3. part = "data" \/ got # <<>>
    BY <1>1, <1>6 DEF EndError
  <2> DEFINE m == Len(sent)
             g == Len(got)
  <2>4. /\ m \in 0..E /\ E \in Nat /\ Here = Whole(m) /\ Here \in Nat
        /\ got \in Seq(Nat) /\ g \in Nat /\ IdSize \in Nat /\ arrived \in Nat
        /\ part \in {"id", "len", "data"}
    BY <2>2, StreamAssumption DEF SentInv, Layout, Here, StreamInv, Types
  <2>5. m < E => /\ Placed(m) /\ m + 1 \in 0..E /\ Whole(m + 1) \in Nat
                 /\ Len(Expected[m + 1].data) \in Nat
    <3>1. m < E => m \in 0..(E - 1) /\ m + 1 \in 0..E /\ m + 1 \in 1..E
      BY <2>4
    <3>2. m < E => Expected[m + 1] \in Frame
      BY <2>2, <3>1 DEF Layout, E
    <3> QED
      BY <2>2, <3>1, <3>2 DEF Layout, Frame
  <2>6. arrived > Whole(m) /\ (m < E => arrived < Whole(m + 1))
    <3>1. CASE part = "data"
      <4>1. m < E /\ g < Len(Expected[m + 1].data) /\ pos = Here + IdSize + 1 + g
        BY <2>2, <3>1 DEF PlaceInv
      <4>2. Whole(m + 1) = Whole(m) + IdSize + 1 + Len(Expected[m + 1].data)
        BY <2>5, <4>1 DEF Placed
      <4> DEFINE w == Whole(m + 1)
                 d == Len(Expected[m + 1].data)
      <4>3. /\ Here \in Nat /\ IdSize \in Nat /\ g \in Nat /\ d \in Nat /\ g < d
            /\ w = Here + IdSize + 1 + d /\ arrived = Here + IdSize + 1 + g
        BY <1>1, <2>4, <2>5, <4>1, <4>2
      <4> HIDE DEF g, w, d
      <4>4. arrived > Here /\ arrived < w
        BY ONLY <4>3
      <4> QED
        BY <2>4, <4>4 DEF w
    <3>2. CASE part # "data"
      <4>1. part = "id" /\ g < IdSize /\ pos = Here + g
        BY <2>2, <2>3, <2>4, <3>2 DEF PlaceInv
      <4>2. g > 0
        BY <2>3, <2>4, <3>2, EmptySeq
      <4>3. m < E => Whole(m + 1) = Whole(m) + IdSize + 1 + Len(Expected[m + 1].data)
        BY <2>5 DEF Placed
      <4> HIDE DEF m, g
      <4>4. arrived > Whole(m)
        BY <1>1, <2>4, <4>1, <4>2
      <4>5. m < E => arrived < Whole(m + 1)
        <5> DEFINE w == Whole(m + 1)
                   d == Len(Expected[m + 1].data)
        <5> SUFFICES ASSUME m < E PROVE arrived < w
          OBVIOUS
        <5>1. /\ Here \in Nat /\ IdSize \in Nat /\ g \in Nat /\ d \in Nat /\ g < IdSize
              /\ w = Here + IdSize + 1 + d /\ arrived = Here + g
          BY <1>1, <2>4, <2>5, <4>1, <4>3
        <5> HIDE DEF w, d
        <5> QED
          BY ONLY <5>1
      <4> QED
        BY <4>4, <4>5
    <3> QED
      BY <3>1, <3>2
  <2> HIDE DEF m, g
  <2>7. ASSUME NEW j \in 0..E, ~(arrived > Whole(E)) PROVE arrived # Whole(j)
    <3>1. m < E
      BY <2>4, <2>6, <2>7
    <3>2. Whole(j) \in Nat /\ Whole(m) \in Nat /\ Whole(m + 1) \in Nat
          /\ (j <= m => Whole(j) <= Whole(m))
          /\ (m + 1 <= j => Whole(m + 1) <= Whole(j))
      BY <2>2, <2>4, <2>5, <3>1 DEF Layout
    <3>3. j <= m \/ m + 1 <= j
      BY <2>4
    <3> QED
      BY <2>4, <2>6, <3>1, <3>2, <3>3
  <2> QED
    BY <1>1, <2>7 DEF Ragged
<1>7. EndInv'
  BY <1>1, <1>2, <1>6 DEF EndInv, EndError, StreamInv
<1> QED
  BY <1>1, <1>4, <1>5, <1>7 DEF StreamInv

\* Every step of the peer, the clock and the reader keeps the invariant.
LEMMA StreamStep == StreamInv /\ [Next]_vars => StreamInv'
<1> SUFFICES ASSUME StreamInv, [Next]_vars PROVE StreamInv'
  OBVIOUS
<1>1. CASE UNCHANGED vars
  <2>1. script' = script /\ UNCHANGED readerVars
        /\ arrived' = arrived /\ eof' = eof /\ expired' = expired /\ expiries' = expiries
    BY <1>1 DEF vars, readerVars
  <2>2. SentInv' = SentInv /\ PlaceInv' = PlaceInv
    BY <2>1, SamePlace
  <2>3. Stream' = Stream /\ (arrived' = arrived /\ (eof => eof') /\ Ragged => Ragged')
    BY <2>1, Fixed
  <2>4. Types' /\ EndInv'
    BY <2>1, <2>3 DEF readerVars, StreamInv, Types, EndInv
  <2> QED
    BY <2>1, <2>2, <2>4 DEF StreamInv, readerVars
<1>2. CASE Next
  BY <1>2, NetworkStep, ReadIdStep, ReadLenStep, ReadDataStep, TimeoutStep, EndStep
  DEF Next, Reader
<1> QED
  BY <1>1, <1>2

\* The invariant holds throughout.
LEMMA StreamAlways == Spec => []StreamInv
  BY StreamInit, StreamStep, PTL DEF Spec

\* For any script, however startReader's stream is cut into segments and
\* whenever its deadline expires: as long as no deadline has expired inside a
\* header, what Codec.Decode passes on is a prefix of what the client sent.
THEOREM ClientOrderKept == Spec => []DecodedInOrder
<1>1. StreamInv => DecodedInOrder
  <2> SUFFICES ASSUME StreamInv, ~slipped PROVE IsPrefix(sent, Expected)
    BY DEF DecodedInOrder, InStep
  <2> DEFINE m == Len(sent)
  <2>1. SentInv /\ Layout
    BY LayoutHolds DEF StreamInv, Types
  <2>2. /\ sent \in Seq(Frame) /\ Expected \in Seq(Frame) /\ m \in Nat /\ 0 \in Nat
        /\ m <= Len(Expected) /\ 0 <= m /\ \A i \in 1..m : sent[i] = Expected[i]
    BY <2>1 DEF SentInv, Layout, E
  <2>3. Len(sent) = m - 0 /\ \A i \in 1..(m - 0) : sent[i] = Expected[0 + i]
    BY <2>2
  <2>4. SubSeq(sent, 1, Len(sent)) = sent
    BY <2>2, SubSeqFull
  <2> HIDE DEF m
  <2>5. sent = SubSeq(Expected, 0 + 1, m)
    BY <2>2, <2>3, SliceIs
  <2> QED
    BY <2>2, <2>4, <2>5 DEF IsPrefix, m
<1> QED
  BY <1>1, StreamAlways, PTL

\* For any script, unless the stream stops right after an identifier: a reader
\* that ends with io.EOF has passed on all that arrived; one that ends with an
\* error, no deadline having expired, has met a bad item or a cut frame.
THEOREM EndIsHonest == Spec => []EndReported
<1>1. StreamInv => EndReported
  <2> SUFFICES ASSUME StreamInv PROVE EndReported
    OBVIOUS
  <2>1. ASSUME outcome = "eof", ~slipped, ~BareIdentifier
        PROVE  Len(sent) <= Len(Expected) /\ arrived = Whole(Len(sent))
    <3>1. SentInv /\ PlaceInv /\ Layout /\ pos = arrived /\ part # "data" /\ got = <<>>
      BY <2>1, LayoutHolds DEF StreamInv, Types, EndInv
    <3>2. Len(sent) \in 0..Len(Expected) /\ Here = Whole(Len(sent)) /\ Here \in Nat
      BY <3>1 DEF SentInv, E, Here, Layout
    <3>3. part = "id" \/ part = "len"
      BY <3>1 DEF StreamInv, Types
    <3>4. pos = Here \/ pos = Here + IdSize
      BY <3>1, <3>2, <3>3 DEF PlaceInv
    <3>5. arrived # Whole(Len(sent)) + IdSize
      BY <2>1, <3>2 DEF BareIdentifier
    <3> QED
      BY <3>1, <3>2, <3>4, <3>5
  <2>2. ASSUME outcome = "error", expiries = 0
        PROVE  \/ arrived > Whole(Len(Expected))
               \/ eof /\ \A m \in 0..Len(Expected) : arrived # Whole(m)
    BY <2>2 DEF StreamInv, EndInv, Ragged, E
  <2> QED
    BY <2>1, <2>2 DEF EndReported
<1> QED
  BY <1>1, StreamAlways, PTL
=============================================================================
