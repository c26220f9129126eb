--------------------------- MODULE Transport_proofs ---------------------------
(***************************************************************************)
(* The byte path neither loses nor invents a byte or a frame, for FIFOs of *)
(* any size, any bytes on the line and any checksum: IInv is inductive and *)
(* each safety property of Transport follows from it, HandledOnce as long  *)
(* as a backlog does not make rxDataCount wrap.                            *)
(***************************************************************************)
EXTENDS Transport, FifoOps_proofs

-----------------------------------------------------------------------------
(***************************************************************************)
(* Frames in a sequence of bytes                                           *)
(***************************************************************************)

LEMMA ConstantFacts ==
  /\ MaxLen \in Nat /\ HeaderSize \in Nat /\ HeaderSize >= 2
  /\ MinPacket \in Nat /\ MinPacket = HeaderSize + 1
  /\ \A b \in Byte : b \in Nat /\ b <= MaxLen
  /\ RxSize \in Nat \ {0} /\ TxSize \in Nat \ {0} /\ CountMod \in Nat \ {0}
BY TransportAssumption DEF MinPacket

LEMMA ElementAt ==
  ASSUME NEW S, NEW s \in Seq(S), NEW i \in 1 .. Len(s)
  PROVE  s[i] \in S
BY ElementOfSeq

\* A header at an offset gives a frame of a size the length byte allows.
LEMMA FrameFields ==
  ASSUME NEW s \in Seq(Byte), NEW at \in Nat, at + MinPacket <= Len(s)
  PROVE  /\ DataLen(s, at) \in Byte
         /\ DataLen(s, at) \in Nat /\ DataLen(s, at) <= MaxLen
         /\ FrameSize(s, at) = DataLen(s, at) + MinPacket
         /\ FrameSize(s, at) \in Nat /\ FrameSize(s, at) >= MinPacket
<1>1. at + HeaderSize \in 1 .. Len(s)
  BY ConstantFacts, LenProperties
<1>2. DataLen(s, at) \in Byte
  BY <1>1, ElementAt DEF DataLen
<1>3. DataLen(s, at) \in Nat /\ DataLen(s, at) <= MaxLen
  BY <1>2, ConstantFacts
<1>4. FrameSize(s, at) = DataLen(s, at) + MinPacket
  BY DEF FrameSize
<1> QED
  BY <1>2, <1>3, <1>4, ConstantFacts

\* The m elements after the first i.
LEMMA Window ==
  ASSUME NEW S, NEW s \in Seq(S), NEW i \in Nat, NEW m \in Nat, i + m <= Len(s)
  PROVE  /\ SubSeq(s, i + 1, i + m) \in Seq(S)
         /\ Len(SubSeq(s, i + 1, i + m)) = m
         /\ \A k \in 1 .. m : SubSeq(s, i + 1, i + m)[k] = s[i + k]
<1>1. PICK a \in Int, b \in Int : a = i + 1 /\ b = i + m
  OBVIOUS
<1>2. \A k \in a .. b : s[k] \in S
  <2>1. Len(s) \in Nat
    BY LenProperties
  <2>2. ASSUME NEW k \in a .. b
        PROVE  k \in 1 .. Len(s)
    BY <1>1, <2>1
  <2> QED  BY <2>2, ElementAt
<1>3. /\ SubSeq(s, a, b) \in Seq(S)
      /\ Len(SubSeq(s, a, b)) = IF a <= b THEN b - a + 1 ELSE 0
      /\ \A k \in 1 .. b - a + 1 : SubSeq(s, a, b)[k] = s[a + k - 1]
  BY ONLY a \in Int, b \in Int, <1>2, SubSeqProperties
<1>4. b - a + 1 = m /\ (IF a <= b THEN b - a + 1 ELSE 0) = m
  BY <1>1
<1>5. \A k \in 1 .. m : a + k - 1 = i + k
  BY <1>1
<1> QED
  BY <1>1, <1>3, <1>4, <1>5

\* Two windows with the same bytes are the same sequence.
LEMMA SameWindow ==
  ASSUME NEW S, NEW s \in Seq(S), NEW t \in Seq(S), NEW i \in Nat, NEW j \in Nat,
         NEW m \in Nat, i + m <= Len(s), j + m <= Len(t),
         \A k \in 1 .. m : s[i + k] = t[j + k]
  PROVE  /\ SubSeq(s, i + 1, i + m) = SubSeq(t, j + 1, j + m)
         /\ SubSeq(s, i + 1, i + m) \in Seq(S)
<1>1. /\ SubSeq(s, i + 1, i + m) \in Seq(S)
      /\ Len(SubSeq(s, i + 1, i + m)) = m
      /\ \A k \in 1 .. m : SubSeq(s, i + 1, i + m)[k] = s[i + k]
  BY Window
<1>2. /\ SubSeq(t, j + 1, j + m) \in Seq(S)
      /\ Len(SubSeq(t, j + 1, j + m)) = m
      /\ \A k \in 1 .. m : SubSeq(t, j + 1, j + m)[k] = t[j + k]
  BY Window
<1> QED
  BY <1>1, <1>2, SeqEqual

\* What the parser sees at an offset depends only on the bytes from there on:
\* on n of them, if the frame is no longer than that.
LEMMA SameFrame ==
  ASSUME NEW s \in Seq(Byte), NEW t \in Seq(Byte), NEW i \in Nat, NEW j \in Nat,
         NEW n \in Nat, MinPacket <= n, i + n <= Len(s), j + n <= Len(t),
         \A k \in 1 .. n : s[i + k] = t[j + k]
  PROVE  /\ IsStart(s, i) <=> IsStart(t, j)
         /\ FrameSize(s, i) = FrameSize(t, j)
         /\ FrameSize(s, i) <= n =>
              /\ Body(s, i) = Body(t, j) /\ Body(s, i) \in Seq(Byte)
              /\ CrcMatches(s, i) <=> CrcMatches(t, j)
<1>1. 1 \in 1 .. n /\ HeaderSize \in 1 .. n
  BY ConstantFacts
<1>2. IsStart(s, i) <=> IsStart(t, j)
  BY <1>1 DEF IsStart
<1>3. DataLen(s, i) = DataLen(t, j)
  BY <1>1 DEF DataLen
<1>4. FrameSize(s, i) = FrameSize(t, j)
  BY <1>3 DEF FrameSize
<1>5. ASSUME FrameSize(s, i) <= n
      PROVE  /\ Body(s, i) = Body(t, j) /\ Body(s, i) \in Seq(Byte)
             /\ CrcMatches(s, i) <=> CrcMatches(t, j)
  <2>1. PICK m \in Nat : m = HeaderSize + DataLen(s, i) /\ m + 1 = FrameSize(s, i)
    <3>1. i + MinPacket <= Len(s)
      BY ConstantFacts, LenProperties
    <3>2. DataLen(s, i) \in Nat /\ FrameSize(s, i) = DataLen(s, i) + MinPacket
      BY <3>1, FrameFields
    <3>3. PICK d \in Nat : d = DataLen(s, i)
      BY <3>2
    <3>4. HeaderSize \in Nat /\ MinPacket = HeaderSize + 1
      BY ConstantFacts
    <3>5. HeaderSize + d \in Nat /\ (HeaderSize + d) + 1 = d + MinPacket
      BY ONLY d \in Nat, <3>4
    <3> QED  BY <3>2, <3>3, <3>5
  <2>2. m + 1 <= n /\ i + m <= Len(s) /\ j + m <= Len(t)
    BY <1>5, <2>1, LenProperties
  <2>3. \A k \in 1 .. m : s[i + k] = t[j + k]
    BY <2>2
  <2>4. /\ SubSeq(s, i + 1, i + m) = SubSeq(t, j + 1, j + m)
        /\ SubSeq(s, i + 1, i + m) \in Seq(Byte)
    BY ONLY s \in Seq(Byte), t \in Seq(Byte), i \in Nat, j \in Nat, <2>2, <2>3, SameWindow
  <2>5. i + HeaderSize + DataLen(s, i) = i + m /\ j + HeaderSize + DataLen(t, j) = j + m
    <3>1. DataLen(s, i) = m - HeaderSize
      <4>1. i + MinPacket <= Len(s)
        BY ConstantFacts, LenProperties
      <4> QED  BY <2>1, <4>1, FrameFields, ConstantFacts
    <3> QED  BY <1>3, <3>1, ConstantFacts
  <2>6. Body(s, i) = Body(t, j) /\ Body(s, i) \in Seq(Byte)
    BY <2>4, <2>5 DEF Body
  <2>7. s[i + FrameSize(s, i)] = t[j + FrameSize(t, j)]
    <3>1. m + 1 \in 1 .. n
      BY <2>2
    <3> QED  BY <1>4, <2>1, <3>1
  <2> QED
    BY <2>6, <2>7 DEF CrcMatches
<1> QED
  BY <1>2, <1>4, <1>5

\* More bytes change neither a frame that was there nor a rejection.
LEMMA Extends ==
  ASSUME NEW s \in Seq(Byte), NEW more \in Seq(Byte), NEW at \in Nat,
         at + MinPacket <= Len(s)
  PROVE  /\ FrameSize(s \o more, at) = FrameSize(s, at)
         /\ ValidFrameAt(s, at) => ValidFrameAt(s \o more, at)
         /\ Rejected(s, at) => Rejected(s \o more, at)
<1>1. PICK t \in Seq(Byte) : /\ t = s \o more /\ Len(t) >= Len(s)
                             /\ \A k \in 1 .. Len(s) : t[k] = s[k]
  <2>1. /\ s \o more \in Seq(Byte) /\ Len(s \o more) = Len(s) + Len(more)
        /\ \A k \in 1 .. Len(s) + Len(more) :
             (s \o more)[k] = IF k <= Len(s) THEN s[k] ELSE more[k - Len(s)]
    BY ONLY s \in Seq(Byte), more \in Seq(Byte), ConcatProperties
  <2>2. Len(s) \in Nat /\ Len(more) \in Nat
    BY LenProperties
  <2>3. /\ Len(s \o more) >= Len(s)
        /\ \A k \in 1 .. Len(s) : (s \o more)[k] = s[k]
    BY <2>1, <2>2
  <2> QED  BY <2>1, <2>3
<1>2. PICK n \in Nat : n = Len(s) - at /\ MinPacket <= n /\ at + n <= Len(s)
  <2>1. Len(s) \in Nat /\ MinPacket \in Nat
    BY LenProperties, ConstantFacts
  <2>2. /\ Len(s) - at \in Nat /\ MinPacket <= Len(s) - at
        /\ at + (Len(s) - at) <= Len(s)
    BY <2>1
  <2> QED  BY <2>2
<1>3. at + n <= Len(t)
  BY <1>1, <1>2, LenProperties
<1>4. \A k \in 1 .. n : s[at + k] = t[at + k]
  BY <1>1, <1>2, LenProperties
<1>5. /\ IsStart(s, at) <=> IsStart(t, at)
      /\ FrameSize(s, at) = FrameSize(t, at)
      /\ FrameSize(s, at) <= n => (CrcMatches(s, at) <=> CrcMatches(t, at))
  BY <1>2, <1>3, <1>4, SameFrame
<1>6. /\ FrameSize(s, at) \in Nat /\ Len(s) \in Nat /\ Len(t) \in Nat /\ MinPacket \in Nat
      /\ at + FrameSize(s, at) <= Len(s) => FrameSize(s, at) <= n
  BY <1>2, FrameFields, LenProperties, ConstantFacts
<1>7. at + MinPacket <= Len(t)
  BY <1>1, <1>6
<1>8. at + FrameSize(s, at) <= Len(s) => at + FrameSize(s, at) <= Len(t)
  BY <1>1, <1>6
<1>9. ValidFrameAt(s, at) => ValidFrameAt(t, at)
  BY <1>5, <1>6, <1>7, <1>8 DEF ValidFrameAt
<1>10. Rejected(s, at) => Rejected(t, at)
  BY <1>5, <1>6, <1>7, <1>8 DEF Rejected
<1> QED
  BY <1>1, <1>5, <1>9, <1>10

-----------------------------------------------------------------------------
(***************************************************************************)
(* The parts of IInv                                                       *)
(***************************************************************************)

\* What IInv says of the frames found so far.
Found ==
  /\ FramesInOrder
  /\ \A at \in 0 .. consumed - 1 : Rejected(accepted, at) \/ InFoundFrame(at)

LEMMA FoundKept ==
  ASSUME Found, UNCHANGED <<accepted, consumed, frames>>
  PROVE  Found'
BY DEF Found, FramesInOrder, InFoundFrame, FrameEnd

\* More accepted bytes leave the frames and the rejections as they are.
LEMMA FoundAccepts ==
  ASSUME TypeOK, Found, NEW bytes \in Seq(Byte), accepted' = accepted \o bytes,
         UNCHANGED <<consumed, frames>>
  PROVE  Found'
<1>1. accepted \in Seq(Byte) /\ frames \in Seq(Nat) /\ consumed \in Nat
  BY LenProperties DEF TypeOK
<1>2. ASSUME NEW at \in Nat
      PROVE  /\ ValidFrameAt(accepted, at) =>
                  ValidFrameAt(accepted', at) /\ FrameSize(accepted', at) = FrameSize(accepted, at)
             /\ Rejected(accepted, at) => Rejected(accepted', at)
  <2>1. CASE at + MinPacket <= Len(accepted)
    BY <1>1, <2>1, Extends
  <2>2. CASE ~ (at + MinPacket <= Len(accepted))
    BY <2>2 DEF ValidFrameAt, Rejected
  <2> QED  BY <2>1, <2>2
<1>3. \A i \in 1 .. Len(frames) : frames[i] \in Nat
  BY <1>1, ElementAt
<1>4. \A i \in 1 .. Len(frames) :
        ValidFrameAt(accepted', frames[i]) /\ FrameEnd(i)' = FrameEnd(i)
  BY <1>2, <1>3 DEF Found, FramesInOrder, FrameEnd
<1>5. FramesInOrder'
  BY <1>4 DEF Found, FramesInOrder
<1>6. ASSUME NEW at \in 0 .. consumed - 1
      PROVE  Rejected(accepted', at) \/ InFoundFrame(at)'
  <2>1. at \in Nat
    BY <1>1
  <2> QED  BY <1>2, <1>4, <2>1 DEF Found, InFoundFrame
<1> QED
  BY <1>5, <1>6 DEF Found

LEMMA Fifos ==
  ASSUME TypeOK
  PROVE  GoodFifo(rxfifo, RxSize, Byte) /\ GoodFifo(txfifo, TxSize, Byte)
BY DEF TypeOK, GoodFifo

\* What was left of s, then more, is what is left of both together.
LEMMA SuffixOfConcat ==
  ASSUME NEW S, NEW s \in Seq(S), NEW more \in Seq(S), NEW c \in 0 .. Len(s)
  PROVE  SubSeq(s, c + 1, Len(s)) \o more = SubSeq(s \o more, c + 1, Len(s \o more))
<1>1. /\ s \o more \in Seq(S) /\ Len(s \o more) = Len(s) + Len(more)
      /\ \A k \in 1 .. Len(s) + Len(more) :
           (s \o more)[k] = IF k <= Len(s) THEN s[k] ELSE more[k - Len(s)]
  BY ConcatProperties
<1>2. PICK n \in Nat, m \in Nat, t \in Seq(S) :
        n = Len(s) /\ m = Len(more) /\ t = s \o more /\ Len(t) = n + m
  BY <1>1, LenProperties
<1>3. c \in 0 .. n /\ c \in 0 .. Len(t)
  BY <1>2
<1>4. PICK r \in Seq(S) :
        /\ r = SubSeq(s, c + 1, n) /\ Len(r) = n - c
        /\ \A i \in 1 .. n - c : r[i] = s[c + i]
  <2>1. /\ SubSeq(s, c + 1, Len(s)) \in Seq(S)
        /\ Len(SubSeq(s, c + 1, Len(s))) = Len(s) - c
        /\ \A i \in 1 .. Len(s) - c : SubSeq(s, c + 1, Len(s))[i] = s[c + i]
    BY SubSeqFromAfter
  <2> QED  BY <1>2, <2>1
<1>5. /\ r \o more \in Seq(S) /\ Len(r \o more) = (n - c) + m
      /\ \A k \in 1 .. (n - c) + m :
           (r \o more)[k] = IF k <= n - c THEN r[k] ELSE more[k - (n - c)]
  <2>1. /\ r \o more \in Seq(S) /\ Len(r \o more) = Len(r) + Len(more)
        /\ \A k \in 1 .. Len(r) + Len(more) :
             (r \o more)[k] = IF k <= Len(r) THEN r[k] ELSE more[k - Len(r)]
    BY ConcatProperties
  <2> QED  BY <1>2, <1>4, <2>1
<1>6. /\ SubSeq(t, c + 1, Len(t)) \in Seq(S)
      /\ Len(SubSeq(t, c + 1, Len(t))) = Len(t) - c
      /\ \A i \in 1 .. Len(t) - c : SubSeq(t, c + 1, Len(t))[i] = t[c + i]
  BY <1>3, SubSeqFromAfter
<1>7. ASSUME NEW k \in 1 .. (n - c) + m
      PROVE  (r \o more)[k] = SubSeq(t, c + 1, Len(t))[k]
  <2>1. /\ k \in 1 .. Len(t) - c /\ c + k \in 1 .. n + m
        /\ k - (n - c) = (c + k) - n /\ (k <= n - c <=> c + k <= n)
        /\ (k <= n - c => k \in 1 .. n - c)
    BY <1>2, <1>3
  <2>2. t[c + k] = IF c + k <= n THEN s[c + k] ELSE more[(c + k) - n]
    BY <1>1, <1>2, <2>1
  <2>3. SubSeq(t, c + 1, Len(t))[k] = t[c + k]
    BY <1>6, <2>1
  <2> QED  BY <1>4, <1>5, <2>1, <2>2, <2>3
<1>8. (n - c) + m = Len(t) - c
  BY <1>2, <1>3
<1>9. r \o more = SubSeq(t, c + 1, Len(t))
  BY <1>5, <1>6, <1>7, <1>8, SeqEqual
<1> QED
  BY <1>2, <1>4, <1>9

\* While the parser runs, its copy from loc on and the accepted bytes that are
\* not consumed are the same bytes, and rxfifo holds them.
LEMMA ScanView ==
  ASSUME IInv, pc = "scan"
  PROVE  \E n \in Nat :
           /\ n = rxfifo.numItems
           /\ loc + n = Len(rxdata) /\ consumed + n = Len(accepted)
           /\ \A k \in 1 .. n : rxdata[loc + k] = accepted[consumed + k]
<1>1. /\ GoodFifo(rxfifo, RxSize, Byte)
      /\ rxdata \in Seq(Byte) /\ accepted \in Seq(Byte)
      /\ loc \in 0 .. Len(rxdata) /\ consumed \in 0 .. Len(accepted)
  BY Fifos DEF IInv, TypeOK
<1>2. /\ Contents(rxfifo) = SubSeq(rxdata, loc + 1, Len(rxdata))
      /\ Contents(rxfifo) = SubSeq(accepted, consumed + 1, Len(accepted))
  BY DEF IInv, CopyInStep, RxStream
<1>3. RxSize \in Nat \ {0}
  BY ConstantFacts
<1>4. Len(Contents(rxfifo)) = rxfifo.numItems /\ rxfifo.numItems \in 0 .. RxSize
  BY <1>1, <1>3, ContentsType
<1>5. /\ Len(Contents(rxfifo)) = Len(rxdata) - loc
      /\ \A k \in 1 .. Len(rxdata) - loc : Contents(rxfifo)[k] = rxdata[loc + k]
  BY <1>1, <1>2, SubSeqFromAfter
<1>6. /\ Len(Contents(rxfifo)) = Len(accepted) - consumed
      /\ \A k \in 1 .. Len(accepted) - consumed :
           Contents(rxfifo)[k] = accepted[consumed + k]
  BY <1>1, <1>2, SubSeqFromAfter
<1>7. PICK n \in Nat : n = rxfifo.numItems
  BY <1>3, <1>4
<1>8. Len(rxdata) \in Nat /\ Len(accepted) \in Nat
  BY <1>1, LenProperties
<1>9. Len(rxdata) - loc = n /\ Len(accepted) - consumed = n
  BY <1>4, <1>5, <1>6, <1>7
<1>10. loc + n = Len(rxdata) /\ consumed + n = Len(accepted)
  BY <1>1, <1>8, <1>9
<1>11. \A k \in 1 .. n : rxdata[loc + k] = accepted[consumed + k]
  BY <1>5, <1>6, <1>9
<1> QED
  BY <1>7, <1>10, <1>11

\* The parser consumes bytes that rxfifo holds.
LEMMA ConsumeStep ==
  ASSUME IInv, pc = "scan", NEW c \in Nat, c <= rxfifo.numItems, Consume(c),
         UNCHANGED <<rxdata, accepted>>
  PROVE  /\ rxfifo' \in FifoOf(RxSize, Byte) /\ WellFormed(rxfifo')
         /\ RxStream' /\ CopyInStep'
         /\ loc' \in Nat /\ loc' <= Len(rxdata)
         /\ consumed' \in 0 .. Len(accepted) /\ consumed' = consumed + c
<1>1. /\ GoodFifo(rxfifo, RxSize, Byte)
      /\ rxdata \in Seq(Byte) /\ accepted \in Seq(Byte)
      /\ loc \in 0 .. Len(rxdata) /\ consumed \in 0 .. Len(accepted)
  BY Fifos DEF IInv, TypeOK
<1>2. /\ Contents(rxfifo) = SubSeq(rxdata, loc + 1, Len(rxdata))
      /\ Contents(rxfifo) = SubSeq(accepted, consumed + 1, Len(accepted))
  BY DEF IInv, CopyInStep, RxStream
<1>3. RxSize \in Nat \ {0}
  BY ConstantFacts
<1>4. PICK n \in Nat : /\ n = rxfifo.numItems
                       /\ loc + n = Len(rxdata) /\ consumed + n = Len(accepted)
  BY ScanView
<1>5. /\ GoodFifo(rxfifo', RxSize, Byte)
      /\ Contents(rxfifo') = SubSeq(Contents(rxfifo), c + 1, Len(Contents(rxfifo)))
  <2>1. rxfifo' = FIFO_IncrementOutPtr(rxfifo, c)
    BY DEF Consume
  <2>2. /\ GoodFifo(FIFO_IncrementOutPtr(rxfifo, c), RxSize, Byte)
        /\ Contents(FIFO_IncrementOutPtr(rxfifo, c))
             = SubSeq(Contents(rxfifo), c + 1, Len(Contents(rxfifo)))
    BY <1>1, <1>3, SkipRemoves
  <2> QED  BY <2>1, <2>2
<1>6. /\ c \in 0 .. Len(rxdata) - loc /\ c \in 0 .. Len(accepted) - consumed
      /\ loc' = loc + c /\ consumed' = consumed + c
  BY <1>1, <1>4 DEF Consume
<1>7. Contents(rxfifo') = SubSeq(rxdata, loc' + 1, Len(rxdata))
  BY <1>1, <1>2, <1>5, <1>6, SubSeqSplit
<1>8. Contents(rxfifo') = SubSeq(accepted, consumed' + 1, Len(accepted))
  BY <1>1, <1>2, <1>5, <1>6, SubSeqSplit
<1>9. /\ loc' \in Nat /\ loc' <= Len(rxdata)
      /\ consumed' \in 0 .. Len(accepted)
  BY <1>1, <1>4, <1>6
<1>10. RxStream' /\ CopyInStep'
  BY <1>7, <1>8 DEF RxStream, CopyInStep
<1> QED
  BY <1>5, <1>6, <1>9, <1>10 DEF GoodFifo

-----------------------------------------------------------------------------
(***************************************************************************)
(* Each action keeps IInv                                                  *)
(***************************************************************************)

\* Steps that move the tick to a place where no part of IInv looks at it.
LEMMA OnlyPc ==
  ASSUME IInv, pc' \in {"idle", "receive", "transmit", "parse"},
         UNCHANGED <<rxVars, rxHistory, txVars>>
  PROVE  IInv'
<1>1. Found'
  BY FoundKept DEF IInv, Found, rxHistory
<1> QED
  BY <1>1 DEF IInv, Found, TypeOK, RxStream, TxStream, CopyInStep, RoomAfterParse,
              rxVars, rxHistory, txVars

LEMMA ReceiveReportStep ==
  ASSUME IInv, ReceiveReport
  PROVE  IInv'
<1>1. PICK m \in 1 .. MaxReport : \E r \in [1 .. m -> Byte] :
        /\ Accept(Kept(r))
        /\ pc' = IF m > FIFO_GetFreeSpace(rxfifo) THEN "transmit" ELSE "receive"
  BY DEF ReceiveReport
<1>2. PICK report \in [1 .. m -> Byte] :
        /\ Accept(Kept(report))
        /\ pc' = IF m > FIFO_GetFreeSpace(rxfifo) THEN "transmit" ELSE "receive"
  BY <1>1
<1>3. report \in Seq(Byte) /\ Len(report) \in Nat
  <2>1. m \in Nat
    BY TransportAssumption
  <2>2. report \in Seq(Byte)
    BY <2>1, SeqDef
  <2> QED  BY <2>2, LenProperties
<1>4. GoodFifo(rxfifo, RxSize, Byte) /\ RxSize \in Nat \ {0}
  BY Fifos, ConstantFacts DEF IInv
<1>5. FIFO_GetFreeSpace(rxfifo) \in Nat
  <2>1. rxfifo.maxSz = RxSize /\ rxfifo.numItems \in 0 .. RxSize
    BY <1>4, GoodFields
  <2> QED  BY <1>4, <2>1 DEF FIFO_GetFreeSpace
<1>6. PICK bytes : bytes = Kept(report)
  OBVIOUS
<1>7. bytes \in Seq(Byte) /\ Len(bytes) <= FIFO_GetFreeSpace(rxfifo)
  <2>1. PICK k \in 0 .. Len(report) :
          k = MinOf(Len(report), FIFO_GetFreeSpace(rxfifo))
    BY <1>3, <1>5 DEF MinOf
  <2>2. k <= FIFO_GetFreeSpace(rxfifo)
    BY <1>3, <1>5, <2>1 DEF MinOf
  <2>3. bytes = SubSeq(report, 1, k)
    BY <1>6, <2>1 DEF Kept
  <2>4. SubSeq(report, 1, k) \in Seq(Byte) /\ Len(SubSeq(report, 1, k)) = k
    BY <1>3, SubSeqFromOne
  <2> QED  BY <2>2, <2>3, <2>4
<1>8. rxfifo' = FIFO_Push(rxfifo, bytes) /\ accepted' = accepted \o bytes
  BY <1>2, <1>6 DEF Accept
<1>9. /\ UNCHANGED <<rxDataBuffer, rxDataCount, rxdata, loc, consumed, frames, handled>>
      /\ UNCHANGED <<txfifo, queued, wire>> /\ pc' \in {"transmit", "receive"}
  BY <1>2 DEF ReceiveReport, txVars
<1>10. GoodFifo(rxfifo', RxSize, Byte) /\ Contents(rxfifo') = Contents(rxfifo) \o bytes
  <2>1. bytes \in Seq(Byte)
    BY <1>7
  <2>2. Len(bytes) <= FIFO_GetFreeSpace(rxfifo)
    BY <1>7
  <2>3. /\ GoodFifo(FIFO_Push(rxfifo, bytes), RxSize, Byte)
        /\ Contents(FIFO_Push(rxfifo, bytes)) = Contents(rxfifo) \o bytes
    BY ONLY <1>4, <2>1, <2>2, PushAppends
  <2> QED  BY <1>8, <2>3
<1>11. /\ accepted \in Seq(Byte) /\ consumed \in 0 .. Len(accepted)
       /\ Contents(rxfifo) = SubSeq(accepted, consumed + 1, Len(accepted))
  BY DEF IInv, TypeOK, RxStream
<1>12. accepted' \in Seq(Byte) /\ consumed \in 0 .. Len(accepted')
  <2>1. accepted \o bytes \in Seq(Byte) /\ Len(accepted \o bytes) = Len(accepted) + Len(bytes)
    BY <1>7, <1>11, ConcatProperties
  <2>2. Len(accepted) \in Nat /\ Len(bytes) \in Nat
    BY <1>7, <1>11, LenProperties
  <2> QED  BY <1>8, <1>11, <2>1, <2>2
<1>13. RxStream'
  BY <1>7, <1>8, <1>9, <1>10, <1>11, SuffixOfConcat DEF RxStream
<1>14. Found'
  BY <1>7, <1>8, <1>9, FoundAccepts DEF IInv, Found
<1>15. TypeOK'
  BY <1>9, <1>10, <1>12 DEF IInv, TypeOK, GoodFifo
<1>16. TxStream' /\ CopyInStep' /\ RoomAfterParse' /\ pc' # "scan"
  BY <1>9 DEF IInv, TxStream, CopyInStep, RoomAfterParse
<1> QED
  BY <1>13, <1>14, <1>15, <1>16 DEF IInv, Found

LEMMA TransmitStep ==
  ASSUME IInv, Transmit
  PROVE  IInv'
<1>1. PICK n \in 0 .. TransmitSize :
        /\ wire' = wire \o CopyOut(txfifo.ptr, txfifo.out, n)
        /\ txfifo' = FIFO_IncrementOutPtr(txfifo, n)
  BY DEF Transmit
<1>2. /\ UNCHANGED <<rxfifo, rxDataBuffer, rxDataCount, rxdata, loc, queued>>
      /\ UNCHANGED <<accepted, consumed, frames, handled>> /\ pc' = "parse"
  BY DEF Transmit, rxVars, rxHistory
<1>3. GoodFifo(txfifo, TxSize, Byte) /\ TxSize \in Nat \ {0}
  BY Fifos, ConstantFacts DEF IInv
<1>4. n \in Nat /\ n <= TxSize - txfifo.out /\ n <= txfifo.numItems
  <2>1. PICK out \in 0 .. TxSize - 1, num \in 0 .. TxSize :
          txfifo.maxSz = TxSize /\ txfifo.out = out /\ txfifo.numItems = num
    BY <1>3, GoodFields
  <2>2. TransmitSize = MinOf(MinOf(TxSize - out, num), MaxTxReport)
    BY <2>1 DEF TransmitSize, FIFO_GetOneShotReadSize, FIFO_GetCount
  <2>3. MaxTxReport \in Nat
    BY TransportAssumption
  <2> QED  BY <1>3, <2>1, <2>2, <2>3 DEF MinOf
<1>5. /\ GoodFifo(txfifo', TxSize, Byte)
      /\ CopyOut(txfifo.ptr, txfifo.out, n) = SubSeq(Contents(txfifo), 1, n)
      /\ Contents(txfifo') = SubSeq(Contents(txfifo), n + 1, Len(Contents(txfifo)))
  <2>1. n \in Nat
    BY <1>4
  <2>2. n <= TxSize - txfifo.out /\ n <= txfifo.numItems
    BY <1>4
  <2>3. /\ GoodFifo(FIFO_IncrementOutPtr(txfifo, n), TxSize, Byte)
        /\ CopyOut(txfifo.ptr, txfifo.out, n) = SubSeq(Contents(txfifo), 1, n)
        /\ Contents(FIFO_IncrementOutPtr(txfifo, n))
             = SubSeq(Contents(txfifo), n + 1, Len(Contents(txfifo)))
    BY ONLY <1>3, <2>1, <2>2, PopRunRemoves
  <2> QED  BY <1>1, <2>3
<1>6. /\ Contents(txfifo) \in Seq(Byte) /\ n \in 0 .. Len(Contents(txfifo))
      /\ wire \in Seq(Byte) /\ wire \o Contents(txfifo) = queued
  <2>1. /\ Contents(txfifo) \in Seq(Byte) /\ Len(Contents(txfifo)) = txfifo.numItems
        /\ txfifo.numItems \in 0 .. TxSize
    BY <1>3, ContentsType
  <2> QED  BY <1>3, <1>4, <2>1 DEF IInv, TypeOK, TxStream
<1>7. wire' \in Seq(Byte) /\ wire' \o Contents(txfifo') = queued
  <2>1. PICK a, b : /\ a = SubSeq(Contents(txfifo), 1, n)
                    /\ b = SubSeq(Contents(txfifo), n + 1, Len(Contents(txfifo)))
    OBVIOUS
  <2>2. a \in Seq(Byte) /\ b \in Seq(Byte)
    BY <1>6, <2>1, SubSeqFromOne, SubSeqFromAfter
  <2>3. a \o b = Contents(txfifo)
    <3>1. 0 \in 0 .. Len(Contents(txfifo)) - n
      BY <1>6, LenProperties
    <3> QED  BY <1>6, <2>1, <3>1, SubSeqSplit
  <2>4. wire' = wire \o a /\ Contents(txfifo') = b
    BY <1>1, <1>5, <2>1
  <2>5. wire \o a \in Seq(Byte) /\ (wire \o a) \o b = wire \o (a \o b)
    BY <1>6, <2>2, ConcatProperties, ConcatAssociative
  <2> QED  BY <1>6, <2>3, <2>4, <2>5
<1>8. Found'
  BY <1>2, FoundKept DEF IInv, Found
<1>9. TypeOK'
  BY <1>2, <1>5, <1>7 DEF IInv, TypeOK, GoodFifo
<1>10. RxStream' /\ TxStream' /\ CopyInStep' /\ RoomAfterParse' /\ pc' # "scan"
  BY <1>2, <1>7 DEF IInv, RxStream, TxStream, CopyInStep, RoomAfterParse
<1> QED
  BY <1>8, <1>9, <1>10 DEF IInv, Found

\* The parser's copy is what rxfifo holds, in order.
LEMMA CopyIsContents ==
  ASSUME NEW n \in Nat \ {0}, NEW f, GoodFifo(f, n, Byte)
  PROVE  ParserCopy(f) = Contents(f)
<1>1. PICK out \in 0 .. n - 1, num \in 0 .. n :
        f.maxSz = n /\ f.out = out /\ f.numItems = num
  BY GoodFields
<1>2. PICK r \in Nat : r = MinOf(n - out, num) /\ r <= num /\ r <= n - out
                       /\ (r < num => r = n - out)
  BY DEF MinOf
<1>3. ParserCopy(f) = CopyOut(f.ptr, out, r) \o CopyOut(f.ptr, 0, num - r)
  BY <1>1, <1>2 DEF ParserCopy, FIFO_GetOneShotReadSize, FIFO_GetCount
<1>4. /\ FIFO_PopBytes(f, num) = SubSeq(Contents(f), 1, num)
      /\ Contents(f) \in Seq(Byte) /\ Len(Contents(f)) = num
  BY <1>1, PopRemoves, ContentsType
<1>5. SubSeq(Contents(f), 1, num) = Contents(f)
  BY <1>4, SubSeqFull
<1>6. MinOf(num, n - out) = r
  BY <1>2 DEF MinOf
<1>7. FIFO_PopBytes(f, num)
        = CopyOut(f.ptr, out, r) \o CopyOut(f.ptr, Wrap(n, out + r), num - r)
  BY <1>1, <1>6 DEF FIFO_PopBytes, FIFO_IncrementOutPtr
<1>8. CopyOut(f.ptr, Wrap(n, out + r), num - r) = CopyOut(f.ptr, 0, num - r)
  <2>1. CASE r < num
    BY <1>2, <2>1 DEF Wrap
  <2>2. CASE r = num
    <3>1. num - r = 0 /\ 1 .. num - r = {}
      BY <2>2
    <3> QED  BY <3>1 DEF CopyOut
  <2> QED  BY <1>2, <2>1, <2>2
<1> QED
  BY <1>3, <1>4, <1>5, <1>7, <1>8

LEMMA StartParseStep ==
  ASSUME IInv, StartParse
  PROVE  IInv'
<1>1. /\ UNCHANGED <<rxfifo, rxDataBuffer, txfifo, queued, wire>>
      /\ UNCHANGED <<accepted, consumed, frames, handled>> /\ rxDataCount' = 0
  BY DEF StartParse, rxHistory, txVars
<1>2. GoodFifo(rxfifo, RxSize, Byte) /\ RxSize \in Nat \ {0}
  BY Fifos, ConstantFacts DEF IInv
<1>3. /\ Contents(rxfifo) \in Seq(Byte) /\ Len(Contents(rxfifo)) = rxfifo.numItems
      /\ rxfifo.numItems \in 0 .. RxSize
  BY <1>2, ContentsType
<1>4. Found'
  BY <1>1, FoundKept DEF IInv, Found
<1>5. RxStream' /\ TxStream'
  BY <1>1 DEF IInv, RxStream, TxStream
<1>6. 0 \in 0 .. CountMod - 1
  BY ConstantFacts
<1>7. CASE FIFO_GetCount(rxfifo) < MinPacket
  <2>1. pc' = "dispatch" /\ UNCHANGED <<rxdata, loc>>
    BY <1>7 DEF StartParse
  <2>2. TypeOK'
    BY <1>1, <1>6, <2>1 DEF IInv, TypeOK
  <2>3. RoomAfterParse'
    <3>1. rxfifo.numItems < MinPacket /\ rxfifo.numItems \in Nat
      BY <1>2, <1>3, <1>7 DEF FIFO_GetCount
    <3>2. rxfifo.numItems < MaxLen + MinPacket
      BY <3>1, ConstantFacts
    <3> QED  BY <1>1, <3>2 DEF RoomAfterParse, FIFO_GetCount
  <2>4. CopyInStep' /\ pc' # "scan"
    BY <2>1 DEF CopyInStep
  <2> QED  BY <1>4, <1>5, <2>2, <2>3, <2>4 DEF IInv, Found
<1>8. CASE ~ (FIFO_GetCount(rxfifo) < MinPacket)
  <2>1. pc' = "scan" /\ rxdata' = Contents(rxfifo) /\ loc' = 0
    BY <1>2, <1>8, CopyIsContents DEF StartParse
  <2>2. TypeOK'
    BY <1>1, <1>3, <1>6, <2>1 DEF IInv, TypeOK
  <2>3. RoomAfterParse'
    BY <2>1 DEF RoomAfterParse
  <2>4. CopyInStep'
    <3>1. SubSeq(rxdata', 1, Len(rxdata')) = rxdata'
      BY <1>3, <2>1, SubSeqFull
    <3> QED  BY <1>1, <2>1, <3>1 DEF CopyInStep
  <2>5. loc' <= Len(rxdata')
    BY <1>3, <2>1, LenProperties
  <2> QED  BY <1>4, <1>5, <2>2, <2>3, <2>4, <2>5 DEF IInv, Found
<1> QED
  BY <1>7, <1>8

\* The parser stops for want of bytes: what it leaves is less than a frame.
LEMMA ScanEndStep ==
  ASSUME IInv, ScanEnd
  PROVE  IInv'
<1>1. /\ UNCHANGED <<rxfifo, rxDataBuffer, rxDataCount, rxdata, loc>>
      /\ UNCHANGED <<txfifo, queued, wire>>
      /\ UNCHANGED <<accepted, consumed, frames, handled>>
      /\ pc = "scan" /\ pc' = "dispatch"
  BY DEF ScanEnd, rxVars, rxHistory, txVars
<1>2. PICK n \in Nat : n = rxfifo.numItems /\ loc + n = Len(rxdata)
  BY <1>1, ScanView
<1>3. loc \in Nat /\ rxdata \in Seq(Byte) /\ Len(rxdata) \in Nat
  BY LenProperties DEF IInv, TypeOK
<1>4. n < MaxLen + MinPacket
  <2>1. CASE loc + MinPacket > Len(rxdata)
    BY <1>2, <1>3, <2>1, ConstantFacts
  <2>2. CASE Scanning /\ ~Complete
    <3>1. loc + MinPacket <= Len(rxdata) /\ ~ (FrameSize(rxdata, loc) <= Len(rxdata) - loc)
      BY <2>2 DEF Scanning, Complete
    <3>2. PICK d \in Nat : d <= MaxLen /\ FrameSize(rxdata, loc) = d + MinPacket
      BY <1>3, <3>1, FrameFields
    <3>3. n < d + MinPacket
      BY <1>2, <1>3, <3>1, <3>2, ConstantFacts
    <3> QED  BY <3>2, <3>3, ConstantFacts
  <2> QED  BY <2>1, <2>2 DEF ScanEnd
<1>5. Found'
  BY <1>1, FoundKept DEF IInv, Found
<1>6. TypeOK'
  BY <1>1 DEF IInv, TypeOK
<1>7. RxStream' /\ TxStream' /\ CopyInStep' /\ RoomAfterParse' /\ pc' # "scan"
  BY <1>1, <1>2, <1>4 DEF IInv, RxStream, TxStream, CopyInStep, RoomAfterParse, FIFO_GetCount
<1> QED
  BY <1>5, <1>6, <1>7 DEF IInv, Found

\* What the parser sees at loc is what lies at `consumed' of the line.
LEMMA SeenWindow ==
  ASSUME IInv, Scanning
  PROVE  \E n \in Nat :
           /\ n = rxfifo.numItems /\ n = Len(rxdata) - loc
           /\ MinPacket <= n /\ loc + n <= Len(rxdata) /\ consumed + n = Len(accepted)
           /\ \A k \in 1 .. n : rxdata[loc + k] = accepted[consumed + k]
<1>1. pc = "scan" /\ loc + MinPacket <= Len(rxdata)
  BY DEF Scanning
<1>2. PICK n \in Nat :
           /\ n = rxfifo.numItems
           /\ loc + n = Len(rxdata) /\ consumed + n = Len(accepted)
           /\ \A k \in 1 .. n : rxdata[loc + k] = accepted[consumed + k]
  BY <1>1, ScanView
<1>3. rxdata \in Seq(Byte) /\ loc \in Nat
  BY DEF IInv, TypeOK
<1>4. Len(rxdata) \in Nat /\ MinPacket \in Nat
  BY <1>3, LenProperties, ConstantFacts
<1> QED
  BY <1>1, <1>2, <1>3, <1>4

LEMMA SeenIsAccepted ==
  ASSUME IInv, Scanning
  PROVE  /\ loc \in Nat /\ consumed \in Nat
         /\ consumed + MinPacket <= Len(accepted)
         /\ IsStart(rxdata, loc) <=> IsStart(accepted, consumed)
         /\ FrameSize(rxdata, loc) = FrameSize(accepted, consumed)
         /\ FrameSize(rxdata, loc) \in Nat /\ FrameSize(rxdata, loc) >= MinPacket
<1>1. PICK n \in Nat :
           /\ MinPacket <= n /\ loc + n <= Len(rxdata) /\ consumed + n = Len(accepted)
           /\ \A k \in 1 .. n : rxdata[loc + k] = accepted[consumed + k]
  BY SeenWindow
<1>2. /\ rxdata \in Seq(Byte) /\ accepted \in Seq(Byte)
      /\ loc \in Nat /\ consumed \in Nat
  BY LenProperties DEF IInv, TypeOK
<1>3. consumed + n <= Len(accepted)
  BY <1>1, <1>2
<1>4. /\ IsStart(rxdata, loc) <=> IsStart(accepted, consumed)
      /\ FrameSize(rxdata, loc) = FrameSize(accepted, consumed)
  BY <1>1, <1>2, <1>3, SameFrame
<1>5. FrameSize(rxdata, loc) \in Nat /\ FrameSize(rxdata, loc) >= MinPacket
  BY <1>2, FrameFields DEF Scanning
<1>6. consumed + MinPacket <= Len(accepted)
  BY <1>1, <1>2, ConstantFacts
<1> QED
  BY <1>2, <1>4, <1>5, <1>6

LEMMA SeenComplete ==
  ASSUME IInv, Scanning, Complete
  PROVE  /\ FrameSize(rxdata, loc) <= rxfifo.numItems
         /\ consumed + FrameSize(accepted, consumed) <= Len(accepted)
         /\ Body(rxdata, loc) = Body(accepted, consumed)
         /\ Body(rxdata, loc) \in Seq(Byte)
         /\ CrcMatches(rxdata, loc) <=> CrcMatches(accepted, consumed)
<1>1. PICK n \in Nat :
           /\ n = rxfifo.numItems /\ n = Len(rxdata) - loc
           /\ MinPacket <= n /\ loc + n <= Len(rxdata) /\ consumed + n = Len(accepted)
           /\ \A k \in 1 .. n : rxdata[loc + k] = accepted[consumed + k]
  BY SeenWindow
<1>2. /\ rxdata \in Seq(Byte) /\ accepted \in Seq(Byte)
      /\ loc \in Nat /\ consumed \in Nat
  BY LenProperties DEF IInv, TypeOK
<1>3. consumed + n <= Len(accepted) /\ FrameSize(rxdata, loc) <= n
  BY <1>1, <1>2 DEF Complete
<1>4. /\ FrameSize(rxdata, loc) = FrameSize(accepted, consumed)
      /\ Body(rxdata, loc) = Body(accepted, consumed)
      /\ Body(rxdata, loc) \in Seq(Byte)
      /\ CrcMatches(rxdata, loc) <=> CrcMatches(accepted, consumed)
  BY <1>1, <1>2, <1>3, SameFrame
<1>5. FrameSize(rxdata, loc) \in Nat
  BY SeenIsAccepted
<1>6. consumed + FrameSize(accepted, consumed) <= Len(accepted)
  BY <1>1, <1>2, <1>3, <1>4, <1>5
<1> QED
  BY <1>1, <1>3, <1>4, <1>6

\* The frame stored is a valid frame of the line, behind the earlier ones.
LEMMA ScanFrameStep ==
  ASSUME IInv, ScanFrame
  PROVE  IInv'
<1>1. Scanning /\ IsStart(rxdata, loc) /\ Complete /\ CrcMatches(rxdata, loc)
  BY DEF ScanFrame
<1>2. PICK size \in Nat : size = FrameSize(rxdata, loc)
  BY <1>1, SeenIsAccepted
<1>3. /\ UNCHANGED <<pc, rxdata, accepted, handled, txfifo, queued, wire>>
      /\ rxDataBuffer' = [rxDataBuffer EXCEPT ![rxDataCount] = Body(rxdata, loc)]
      /\ rxDataCount' = (rxDataCount + 1) % CountMod
      /\ Consume(size) /\ frames' = Append(frames, consumed) /\ pc = "scan"
  BY <1>1, <1>2 DEF ScanFrame, Scanning, txVars
<1>4. /\ rxfifo' \in FifoOf(RxSize, Byte) /\ WellFormed(rxfifo')
      /\ RxStream' /\ CopyInStep'
      /\ loc' \in Nat /\ loc' <= Len(rxdata)
      /\ consumed' \in 0 .. Len(accepted) /\ consumed' = consumed + size
  <2>1. size <= rxfifo.numItems
    BY <1>1, <1>2, SeenComplete
  <2> QED  BY <1>3, <2>1, ConsumeStep
<1>5. /\ consumed \in Nat /\ ValidFrameAt(accepted, consumed)
      /\ FrameSize(accepted, consumed) = size /\ Body(rxdata, loc) \in Seq(Byte)
  <2>1. /\ consumed \in Nat /\ consumed + MinPacket <= Len(accepted)
        /\ IsStart(accepted, consumed) /\ FrameSize(accepted, consumed) = size
    BY <1>1, <1>2, SeenIsAccepted
  <2>2. /\ consumed + FrameSize(accepted, consumed) <= Len(accepted)
        /\ Body(rxdata, loc) \in Seq(Byte) /\ CrcMatches(accepted, consumed)
    BY <1>1, SeenComplete
  <2> QED  BY <2>1, <2>2 DEF ValidFrameAt
<1>6. PICK n \in Nat : /\ n = Len(frames) /\ Len(frames') = n + 1
                       /\ frames' \in Seq(Nat) /\ frames'[n + 1] = consumed
                       /\ \A i \in 1 .. n : frames'[i] = frames[i]
  <2>1. frames \in Seq(Nat)
    BY DEF IInv, TypeOK
  <2>2. frames' = Append(frames, consumed) /\ consumed \in Nat
    BY <1>3, <1>5
  <2>3. /\ Append(frames, consumed) \in Seq(Nat)
        /\ Len(Append(frames, consumed)) = Len(frames) + 1
        /\ \A i \in 1 .. Len(frames) : Append(frames, consumed)[i] = frames[i]
        /\ Append(frames, consumed)[Len(frames) + 1] = consumed
    BY ONLY <2>1, <2>2, AppendProperties
  <2>4. Len(frames) \in Nat
    BY ONLY <2>1, LenProperties
  <2>5. /\ Len(frames') = Len(frames) + 1 /\ frames' \in Seq(Nat)
        /\ frames'[Len(frames) + 1] = consumed
        /\ \A i \in 1 .. Len(frames) : frames'[i] = frames[i]
    BY ONLY <2>2, <2>3
  <2> QED  BY ONLY <2>4, <2>5
<1>7. /\ \A i \in 1 .. n : FrameEnd(i)' = FrameEnd(i)
      /\ FrameEnd(n + 1)' = consumed'
  BY <1>3, <1>4, <1>5, <1>6 DEF FrameEnd
<1>8. FramesInOrder'
  <2>1. ASSUME NEW i \in 1 .. n + 1
        PROVE  /\ ValidFrameAt(accepted, frames'[i])
               /\ FrameEnd(i)' <= IF i < n + 1 THEN frames'[i + 1] ELSE consumed'
    <3>1. CASE i = n + 1
      BY <1>4, <1>5, <1>6, <1>7, <3>1
    <3>2. CASE i = n /\ i \in 1 .. n
      BY <1>6, <1>7, <3>2 DEF IInv, FramesInOrder
    <3>3. CASE i \in 1 .. n /\ i < n
      <4>1. i + 1 \in 1 .. n
        BY <3>3
      <4> QED  BY <1>6, <1>7, <3>3, <4>1 DEF IInv, FramesInOrder
    <3> QED  BY <3>1, <3>2, <3>3
  <2> QED  BY <1>3, <1>6, <2>1 DEF FramesInOrder
<1>9. ASSUME NEW at \in 0 .. consumed' - 1
      PROVE  Rejected(accepted, at) \/ InFoundFrame(at)'
  <2>1. CASE at < consumed
    <3>1. at \in 0 .. consumed - 1
      BY <1>5, <2>1
    <3>2. CASE Rejected(accepted, at)
      BY <3>2
    <3>3. CASE InFoundFrame(at)
      <4>1. PICK i \in 1 .. n : frames[i] <= at /\ at < FrameEnd(i)
        BY <1>6, <3>3 DEF InFoundFrame
      <4>2. i \in 1 .. Len(frames') /\ frames'[i] <= at /\ at < FrameEnd(i)'
        BY <1>6, <1>7, <4>1
      <4> QED  BY <4>2 DEF InFoundFrame
    <3> QED  BY <3>1, <3>2, <3>3 DEF IInv
  <2>2. CASE ~ (at < consumed)
    <3>1. /\ n + 1 \in 1 .. Len(frames')
          /\ frames'[n + 1] <= at /\ at < FrameEnd(n + 1)'
      BY <1>4, <1>5, <1>6, <1>7, <2>2
    <3> QED  BY <3>1 DEF InFoundFrame
  <2> QED  BY <2>1, <2>2
<1>10. rxDataCount' \in 0 .. CountMod - 1
  BY <1>3, ConstantFacts DEF IInv, TypeOK
<1>11. rxDataBuffer' \in [0 .. CountMod - 1 -> Seq(Byte)]
  BY <1>3, <1>5 DEF IInv, TypeOK
<1>12. TypeOK'
  BY <1>3, <1>4, <1>6, <1>10, <1>11 DEF IInv, TypeOK
<1>13. TxStream' /\ RoomAfterParse'
  BY <1>3 DEF IInv, TxStream, RoomAfterParse
<1> QED
  BY <1>3, <1>4, <1>8, <1>9, <1>12, <1>13 DEF IInv

\* The byte dropped is rejected for good.
LEMMA ScanDropStep ==
  ASSUME IInv, ScanDrop
  PROVE  IInv'
<1>1. Scanning /\ (IsStart(rxdata, loc) => Complete /\ ~CrcMatches(rxdata, loc))
  BY DEF ScanDrop
<1>2. /\ UNCHANGED <<pc, rxdata, rxDataBuffer, rxDataCount, accepted, frames, handled>>
      /\ UNCHANGED <<txfifo, queued, wire>> /\ Consume(1) /\ pc = "scan"
  BY <1>1 DEF ScanDrop, Scanning, txVars
<1>3. /\ rxfifo' \in FifoOf(RxSize, Byte) /\ WellFormed(rxfifo')
      /\ RxStream' /\ CopyInStep'
      /\ loc' \in Nat /\ loc' <= Len(rxdata)
      /\ consumed' \in 0 .. Len(accepted) /\ consumed' = consumed + 1
  <2>1. PICK n \in Nat : n = rxfifo.numItems /\ loc + n = Len(rxdata)
    BY <1>2, ScanView
  <2>2. loc \in Nat /\ Len(rxdata) \in Nat /\ loc + MinPacket <= Len(rxdata)
    BY <1>1, LenProperties DEF Scanning, IInv, TypeOK
  <2>3. 1 <= rxfifo.numItems
    BY <2>1, <2>2, ConstantFacts
  <2> QED  BY <1>2, <2>3, ConsumeStep
<1>4. consumed \in Nat /\ Rejected(accepted, consumed)
  <2>1. /\ consumed \in Nat /\ consumed + MinPacket <= Len(accepted)
        /\ IsStart(rxdata, loc) <=> IsStart(accepted, consumed)
    BY <1>1, SeenIsAccepted
  <2>2. CASE IsStart(rxdata, loc)
    <3>1. /\ consumed + FrameSize(accepted, consumed) <= Len(accepted)
          /\ ~CrcMatches(accepted, consumed)
      BY <1>1, <2>2, SeenComplete
    <3> QED  BY <2>1, <3>1 DEF Rejected
  <2>3. CASE ~IsStart(rxdata, loc)
    BY <2>1, <2>3 DEF Rejected
  <2> QED  BY <2>2, <2>3
<1>5. FramesInOrder'
  <2>1. frames \in Seq(Nat) /\ consumed <= consumed'
    BY <1>3, <1>4 DEF IInv, TypeOK
  <2>2. Len(frames) \in Nat
    BY <2>1, LenProperties
  <2>3. ASSUME NEW i \in 1 .. Len(frames)
        PROVE  /\ ValidFrameAt(accepted, frames[i])
               /\ FrameEnd(i) <= IF i < Len(frames) THEN frames[i + 1] ELSE consumed'
    <3>1. ValidFrameAt(accepted, frames[i])
      BY DEF IInv, FramesInOrder
    <3>2. CASE i < Len(frames)
      BY <3>1, <3>2 DEF IInv, FramesInOrder
    <3>3. CASE ~ (i < Len(frames))
      <4>1. FrameEnd(i) <= consumed
        BY <3>3 DEF IInv, FramesInOrder
      <4>2. FrameEnd(i) \in Nat
        <5>1. frames[i] \in Nat
          BY <2>1, ElementAt
        <5>2. FrameSize(accepted, frames[i]) \in Nat
          <6>1. accepted \in Seq(Byte)
            BY DEF IInv, TypeOK
          <6>2. frames[i] + MinPacket <= Len(accepted)
            BY <3>1 DEF ValidFrameAt
          <6> QED  BY <5>1, <6>1, <6>2, FrameFields
        <5> QED  BY <5>1, <5>2 DEF FrameEnd
      <4> QED  BY <1>3, <1>4, <3>1, <3>3, <4>1, <4>2
    <3> QED  BY <3>2, <3>3
  <2> QED  BY <1>2, <2>3 DEF FramesInOrder, FrameEnd
<1>6. ASSUME NEW at \in 0 .. consumed' - 1
      PROVE  Rejected(accepted, at) \/ InFoundFrame(at)'
  <2>1. CASE at = consumed
    BY <1>4, <2>1
  <2>2. CASE at # consumed
    <3>1. at \in 0 .. consumed - 1
      BY <1>3, <1>4, <2>2
    <3> QED  BY <1>2, <3>1 DEF IInv, InFoundFrame, FrameEnd
  <2> QED  BY <2>1, <2>2
<1>7. TypeOK'
  BY <1>2, <1>3 DEF IInv, TypeOK
<1>8. TxStream' /\ RoomAfterParse'
  BY <1>2 DEF IInv, TxStream, RoomAfterParse
<1> QED
  BY <1>2, <1>3, <1>5, <1>6, <1>7, <1>8 DEF IInv

LEMMA DispatchStep ==
  ASSUME IInv, Dispatch
  PROVE  IInv'
<1>1. /\ UNCHANGED <<rxfifo, rxDataBuffer, rxDataCount, rxdata, loc>>
      /\ UNCHANGED <<txfifo, queued, wire, accepted, consumed, frames>>
      /\ handled' = handled \o [i \in 1 .. rxDataCount |-> rxDataBuffer[i - 1]]
      /\ pc' = "idle"
  BY DEF Dispatch, rxVars, txVars
<1>2. handled' \in Seq(Seq(Byte))
  <2>1. /\ rxDataCount \in 0 .. CountMod - 1 /\ CountMod \in Nat
        /\ rxDataBuffer \in [0 .. CountMod - 1 -> Seq(Byte)]
    BY ConstantFacts DEF IInv, TypeOK
  <2>2. PICK batch : batch = [i \in 1 .. rxDataCount |-> rxDataBuffer[i - 1]]
    OBVIOUS
  <2>3. rxDataCount \in Nat /\ batch \in [1 .. rxDataCount -> Seq(Byte)]
    BY <2>1, <2>2
  <2>4. batch \in Seq(Seq(Byte)) /\ handled \in Seq(Seq(Byte))
    BY <2>3, SeqDef DEF IInv, TypeOK
  <2> QED  BY <1>1, <2>2, <2>4, ConcatProperties
<1>3. Found'
  BY <1>1, FoundKept DEF IInv, Found
<1>4. TypeOK'
  BY <1>1, <1>2 DEF IInv, TypeOK
<1>5. RxStream' /\ TxStream' /\ CopyInStep' /\ RoomAfterParse' /\ pc' # "scan"
  BY <1>1 DEF IInv, RxStream, TxStream, CopyInStep, RoomAfterParse
<1> QED
  BY <1>3, <1>4, <1>5 DEF IInv, Found

LEMMA OneByte ==
  ASSUME NEW x \in Byte
  PROVE  <<x>> \in Seq(Byte) /\ Len(<<x>>) = 1
OBVIOUS

\* A packet is a sequence of bytes, and so fits the FIFO's memory.
LEMMA PacketType ==
  ASSUME NEW p \in Packets
  PROVE  PacketBytes(p) \in Seq(Byte)
<1>1. /\ p.fields \in [1 .. HeaderSize - 2 -> Byte] /\ p.data \in Seq(Byte)
      /\ Len(p.data) \in Byte /\ HostSof \in Byte
  BY TransportAssumption
<1>2. HeaderSize - 2 \in Nat /\ Len(p.data) \in Nat /\ Len(p.data) <= MaxLen
      /\ HeaderSize \in Nat /\ MaxLen \in Nat
  BY <1>1, ConstantFacts
<1>3. p.fields \in Seq(Byte) /\ Len(p.fields) = HeaderSize - 2
  <2>1. p.fields \in Seq(Byte)
    BY <1>1, <1>2, SeqDef
  <2> QED  BY <1>1, <1>2, <2>1, LenProperties
<1>4. PICK a, l : a = <<HostSof>> /\ l = <<Len(p.data)>>
  OBVIOUS
<1>4a. a \in Seq(Byte) /\ Len(a) = 1 /\ l \in Seq(Byte) /\ Len(l) = 1
  BY <1>1, <1>4, OneByte
<1>5. PICK b : b = a \o p.fields
  OBVIOUS
<1>5a. b \in Seq(Byte) /\ Len(b) = 1 + (HeaderSize - 2)
  <2>1. a \o p.fields \in Seq(Byte) /\ Len(a \o p.fields) = Len(a) + Len(p.fields)
    BY ONLY <1>3, <1>4a, ConcatProperties
  <2> QED  BY <1>3, <1>4a, <1>5, <2>1
<1>6. PICK c : c = b \o l
  OBVIOUS
<1>6a. c \in Seq(Byte) /\ Len(c) = HeaderSize
  <2>1. b \o l \in Seq(Byte) /\ Len(b \o l) = Len(b) + Len(l)
    BY ONLY <1>4a, <1>5a, ConcatProperties
  <2>2. Len(b) + Len(l) = HeaderSize
    BY <1>2, <1>4a, <1>5a
  <2> QED  BY <1>6, <2>1, <2>2
<1>7. PICK body \in Seq(Byte) : body = c \o p.data /\ Len(body) \in 0 .. HeaderSize + MaxLen
  <2>1. c \o p.data \in Seq(Byte) /\ Len(c \o p.data) = HeaderSize + Len(p.data)
    BY <1>1, <1>6a, ConcatProperties
  <2>2. HeaderSize + Len(p.data) \in 0 .. HeaderSize + MaxLen
    BY <1>2
  <2> QED  BY <2>1, <2>2
<1>8. Crc(body) \in Byte
  <2>1. body \in [1 .. Len(body) -> Byte]
    BY <1>7, LenProperties
  <2> QED  BY <1>7, <2>1, TransportAssumption
<1>9. PICK e : e = <<Crc(body)>> /\ e \in Seq(Byte)
  BY <1>8, OneByte
<1>10. PacketBytes(p) = body \o e
  BY <1>4, <1>5, <1>6, <1>7, <1>9 DEF PacketBytes
<1> QED
  BY <1>9, <1>10, ConcatProperties

LEMMA SendPacketStep ==
  ASSUME IInv, NEW p \in Packets, SendPacket(p)
  PROVE  IInv'
<1>1. PICK bytes : bytes = PacketBytes(p)
  OBVIOUS
<1>2. bytes \in Seq(Byte)
  BY <1>1, PacketType
<1>3. /\ UNCHANGED <<pc, rxfifo, rxDataBuffer, rxDataCount, rxdata, loc>>
      /\ UNCHANGED <<accepted, consumed, frames, handled, wire>>
      /\ txfifo' = FIFO_Push(txfifo, bytes) /\ queued' = queued \o bytes
  BY <1>1 DEF SendPacket, rxVars, rxHistory
<1>4. GoodFifo(txfifo, TxSize, Byte) /\ TxSize \in Nat \ {0}
  BY Fifos, ConstantFacts DEF IInv
<1>5. GoodFifo(txfifo', TxSize, Byte) /\ Contents(txfifo') = Contents(txfifo) \o bytes
  <2>1. Len(bytes) <= FIFO_GetFreeSpace(txfifo)
    <3>1. FIFO_GetFreeSpace(txfifo) >= Len(bytes)
      BY <1>1 DEF SendPacket
    <3>2. txfifo.maxSz = TxSize /\ txfifo.numItems \in 0 .. TxSize
      BY <1>4, GoodFields
    <3>3. FIFO_GetFreeSpace(txfifo) \in Nat /\ Len(bytes) \in Nat
      BY <1>2, <1>4, <3>2, LenProperties DEF FIFO_GetFreeSpace
    <3> QED  BY <3>1, <3>3
  <2>2. /\ GoodFifo(FIFO_Push(txfifo, bytes), TxSize, Byte)
        /\ Contents(FIFO_Push(txfifo, bytes)) = Contents(txfifo) \o bytes
    BY ONLY <1>2, <1>4, <2>1, PushAppends
  <2> QED  BY <1>3, <2>2
<1>6. /\ Contents(txfifo) \in Seq(Byte) /\ wire \in Seq(Byte) /\ queued \in Seq(Byte)
      /\ wire \o Contents(txfifo) = queued
  BY <1>4, ContentsType DEF IInv, TypeOK, TxStream
<1>7. TxStream' /\ queued' \in Seq(Byte)
  <2>1. (wire \o Contents(txfifo)) \o bytes = wire \o (Contents(txfifo) \o bytes)
    <3>1. wire \in Seq(Byte) /\ Contents(txfifo) \in Seq(Byte)
      BY <1>6
    <3> QED  BY ONLY <1>2, <3>1, ConcatAssociative
  <2>2. queued \o bytes \in Seq(Byte)
    BY <1>2, <1>6, ConcatProperties
  <2> QED  BY <1>3, <1>5, <1>6, <2>1, <2>2 DEF TxStream
<1>8. Found'
  BY <1>3, FoundKept DEF IInv, Found
<1>9. TypeOK'
  BY <1>3, <1>5, <1>7 DEF IInv, TypeOK, GoodFifo
<1>10. RxStream' /\ CopyInStep' /\ RoomAfterParse' /\ (pc' = "scan" => loc' <= Len(rxdata'))
  BY <1>3 DEF IInv, RxStream, CopyInStep, RoomAfterParse
<1> QED
  BY <1>7, <1>8, <1>9, <1>10 DEF IInv, Found

-----------------------------------------------------------------------------
(***************************************************************************)
(* Theorems                                                                *)
(***************************************************************************)

\* A FIFO set up over zeroed memory is good and empty.
LEMMA InitFifo ==
  ASSUME NEW n \in Nat \ {0}
  PROVE  /\ FIFO_Init(ZeroBuffer(n), n) \in FifoOf(n, Byte)
         /\ WellFormed(FIFO_Init(ZeroBuffer(n), n))
         /\ Contents(FIFO_Init(ZeroBuffer(n), n)) = <<>>
<1>1. PICK f : f = FIFO_Init(ZeroBuffer(n), n)
  OBVIOUS
<1>2. ZeroBuffer(n) \in [0 .. n - 1 -> Byte]
  BY TransportAssumption DEF ZeroBuffer
<1>3. 0 \in 0 .. n - 1 /\ 0 \in 0 .. n
  OBVIOUS
<1>4. /\ f \in FifoOf(n, Byte) /\ f.maxSz = n /\ f.in = 0 /\ f.out = 0
      /\ f.numItems = 0
  BY <1>1, <1>2, <1>3 DEF FIFO_Init, FifoOf
<1>5. WellFormed(f)
  BY <1>4 DEF WellFormed, Slot, Wrap
<1>6. Contents(f) = <<>>
  <2>1. Contents(f) \in Seq(Byte) /\ Len(Contents(f)) = 0
    BY <1>4, <1>5, ContentsType DEF GoodFifo
  <2> QED  BY <2>1, EmptySeq
<1> QED
  BY <1>1, <1>4, <1>5, <1>6

LEMMA InitInv ==
  ASSUME Init
  PROVE  IInv
<1>1. RxSize \in Nat \ {0} /\ TxSize \in Nat \ {0} /\ CountMod \in Nat \ {0}
  BY ConstantFacts
<1>2. /\ rxfifo \in FifoOf(RxSize, Byte) /\ WellFormed(rxfifo) /\ Contents(rxfifo) = <<>>
      /\ txfifo \in FifoOf(TxSize, Byte) /\ WellFormed(txfifo) /\ Contents(txfifo) = <<>>
  BY <1>1, InitFifo DEF Init
<1>3. rxDataBuffer \in [0 .. CountMod - 1 -> Seq(Byte)] /\ 0 \in 0 .. CountMod - 1
  BY <1>1 DEF Init
<1>4. TypeOK
  BY <1>2, <1>3 DEF Init, TypeOK
<1>5. RxStream /\ TxStream
  BY <1>2 DEF Init, RxStream, TxStream
<1>6. CopyInStep /\ RoomAfterParse /\ pc # "scan"
  BY DEF Init, CopyInStep, RoomAfterParse
<1>7. FramesInOrder /\ \A at \in 0 .. consumed - 1 : Rejected(accepted, at) \/ InFoundFrame(at)
  BY DEF Init, FramesInOrder
<1> QED
  BY <1>4, <1>5, <1>6, <1>7 DEF IInv

\* The inductive invariant of the byte path (neoRAD-IO2_PacketHandler.c:48-165
\* and 258-334) holds in every state, for FIFOs of any size, any set of byte
\* values, any checksum and any packets.
THEOREM IInvHolds == Spec => []IInv
<1>1. Init => IInv
  BY InitInv
<1>2. IInv /\ [Next]_vars => IInv'
  <2> SUFFICES ASSUME IInv, [Next]_vars
               PROVE  IInv'
    OBVIOUS
  <2>1. CASE Tick
    BY <2>1, OnlyPc DEF Tick
  <2>2. CASE Receive
    <3>1. CASE ReceiveReport
      BY <3>1, ReceiveReportStep
    <3>2. CASE ReceiveNone \/ ReceiveError
      BY <3>2, OnlyPc DEF ReceiveNone, ReceiveError
    <3> QED  BY <2>2, <3>1, <3>2 DEF Receive
  <2>3. CASE Send
    <3>1. CASE Transmit
      BY <3>1, TransmitStep
    <3>2. CASE TransmitNothing \/ TransmitError
      BY <3>2, OnlyPc DEF TransmitNothing, TransmitError
    <3> QED  BY <2>3, <3>1, <3>2 DEF Send
  <2>4. CASE Parse
    BY <2>4, StartParseStep, ScanEndStep, ScanFrameStep, ScanDropStep DEF Parse
  <2>5. CASE Dispatch
    BY <2>5, DispatchStep
  <2>6. CASE \E p \in Packets : SendPacket(p)
    BY <2>6, SendPacketStep
  <2>7. CASE UNCHANGED vars
    <3>1. Found'
      BY <2>7, FoundKept DEF IInv, Found, vars, rxHistory
    <3> QED  BY <2>7, <3>1 DEF IInv, Found, TypeOK, RxStream, TxStream, CopyInStep,
                               RoomAfterParse, vars, rxVars, rxHistory, txVars
  <2> QED
    BY <2>1, <2>2, <2>3, <2>4, <2>5, <2>6, <2>7 DEF Next
<1> QED
  BY <1>1, <1>2, PTL DEF Spec

\* The types of the byte path: both FIFOs keep their memory and cursors.
THEOREM TypeOKHolds == Spec => []TypeOK
<1>1. IInv => TypeOK
  BY DEF IInv
<1> QED
  BY <1>1, IInvHolds, PTL

\* rxfifo holds the accepted bytes that were not consumed, in order.
THEOREM RxStreamHolds == Spec => []RxStream
<1>1. IInv => RxStream
  BY DEF IInv
<1> QED
  BY <1>1, IInvHolds, PTL

\* The bytes of the packets queued leave in order, none lost or repeated.
THEOREM TxStreamHolds == Spec => []TxStream
<1>1. IInv => TxStream
  BY DEF IInv
<1> QED
  BY <1>1, IInvHolds, PTL

\* The parser's copy and rxfifo never drift apart.
THEOREM CopyInStepHolds == Spec => []CopyInStep
<1>1. IInv => CopyInStep
  BY DEF IInv
<1> QED
  BY <1>1, IInvHolds, PTL

\* The frames found are valid frames of the line that do not overlap.
THEOREM FramesInOrderHolds == Spec => []FramesInOrder
<1>1. IInv => FramesInOrder
  BY DEF IInv
<1> QED
  BY <1>1, IInvHolds, PTL

\* No valid frame is skipped, however the line was cut into reports and ticks.
THEOREM NoFrameSkippedHolds == Spec => []NoFrameSkipped
<1>1. IInv => NoFrameSkipped
  <2> SUFFICES ASSUME IInv, NEW at \in 0 .. consumed - 1, ValidFrameAt(accepted, at)
               PROVE  InFoundFrame(at)
    BY DEF NoFrameSkipped
  <2>1. Rejected(accepted, at) \/ InFoundFrame(at)
    BY DEF IInv
  <2>2. ~Rejected(accepted, at)
    BY DEF ValidFrameAt, Rejected
  <2> QED  BY <2>1, <2>2
<1> QED
  BY <1>1, IInvHolds, PTL

\* A parse leaves less than one frame of the largest size in rxfifo.
THEOREM RoomAfterParseHolds == Spec => []RoomAfterParse
<1>1. IInv => RoomAfterParse
  BY DEF IInv
<1> QED
  BY <1>1, IInvHolds, PTL
-----------------------------------------------------------------------------
(***************************************************************************)
(* HandledOnce, as long as rxDataCount does not wrap                       *)
(***************************************************************************)

\* What waits in rxfifo when a parse begins cannot hold as many frames as
\* rxDataCount has values: fewer than 256 frames, 1536 bytes.
NoBacklog == pc = "parse" => FIFO_GetCount(rxfifo) < CountMod * MinPacket

\* The bodies of the frames found.
Bodies == [i \in 1 .. Len(frames) |-> Body(accepted, frames[i])]

\* Each frame stored took at least MinPacket of the bytes that were there when the
\* parse began.
CountBounded ==
  pc = "scan" => rxDataCount * MinPacket + rxfifo.numItems < CountMod * MinPacket

HandledInv == HandledOnce /\ CountBounded

\* More accepted bytes leave the body of a frame that was there as it is.
LEMMA BodyKept ==
  ASSUME NEW s \in Seq(Byte), NEW more \in Seq(Byte), NEW at \in Nat, ValidFrameAt(s, at)
  PROVE  Body(s \o more, at) = Body(s, at) /\ Body(s, at) \in Seq(Byte)
<1>1. /\ at + MinPacket <= Len(s) /\ at + FrameSize(s, at) <= Len(s) /\ Len(s) \in Nat
      /\ FrameSize(s, at) \in Nat /\ FrameSize(s, at) >= MinPacket /\ MinPacket \in Nat
  BY FrameFields, LenProperties, ConstantFacts DEF ValidFrameAt
<1>2. PICK t \in Seq(Byte) : /\ t = s \o more /\ Len(t) \in Nat /\ Len(t) >= Len(s)
                             /\ \A k \in 1 .. Len(s) : t[k] = s[k]
  <2>1. /\ s \o more \in Seq(Byte) /\ Len(s \o more) = Len(s) + Len(more)
        /\ \A k \in 1 .. Len(s) + Len(more) :
             (s \o more)[k] = IF k <= Len(s) THEN s[k] ELSE more[k - Len(s)]
    BY ONLY s \in Seq(Byte), more \in Seq(Byte), ConcatProperties
  <2>2. Len(more) \in Nat
    BY LenProperties
  <2>3. Len(s \o more) >= Len(s) /\ \A k \in 1 .. Len(s) : (s \o more)[k] = s[k]
    BY <1>1, <2>1, <2>2
  <2>4. Len(s \o more) \in Nat
    BY <2>1, LenProperties
  <2> QED  BY <2>1, <2>3, <2>4
<1>3. PICK n \in Nat : n = FrameSize(s, at)
  BY <1>1
<1>4. MinPacket <= n /\ at + n <= Len(s) /\ at + n <= Len(t)
  BY <1>1, <1>2, <1>3
<1>5. \A k \in 1 .. n : s[at + k] = t[at + k]
  BY <1>1, <1>2, <1>3
<1>6. Body(s, at) = Body(t, at) /\ Body(s, at) \in Seq(Byte)
  <2>1. FrameSize(s, at) <= n
    BY <1>3
  <2> HIDE <1>3
  <2> QED  BY <1>4, <1>5, <2>1, SameFrame
<1> QED  BY <1>2, <1>6

LEMMA AppendIs ==
  ASSUME NEW S, NEW s \in Seq(S), NEW t \in Seq(S), NEW x \in S,
         Len(t) = Len(s) + 1, \A i \in 1 .. Len(s) : t[i] = s[i], t[Len(s) + 1] = x
  PROVE  t = Append(s, x)
<1>1. /\ Append(s, x) \in Seq(S) /\ Len(Append(s, x)) = Len(s) + 1
      /\ \A i \in 1 .. Len(s) : Append(s, x)[i] = s[i]
      /\ Append(s, x)[Len(s) + 1] = x /\ Len(s) \in Nat
  BY AppendProperties, LenProperties
<1>2. \A i \in 1 .. Len(s) + 1 : t[i] = Append(s, x)[i]
  BY <1>1
<1> QED  BY <1>1, <1>2, SeqEqual

LEMMA ConcatAppend ==
  ASSUME NEW S, NEW s \in Seq(S), NEW t \in Seq(S), NEW x \in S
  PROVE  s \o Append(t, x) = Append(s \o t, x)
<1>1. Append(t, x) = t \o <<x>> /\ Append(s \o t, x) = (s \o t) \o <<x>> /\ <<x>> \in Seq(S)
  BY AppendIsConcat, ConcatProperties
<1> QED  BY <1>1, ConcatAssociative

\* A function on 1 .. n is a sequence of length n.
LEMMA FunctionSeq ==
  ASSUME NEW S, NEW n \in Nat, NEW f \in [1 .. n -> S]
  PROVE  f \in Seq(S) /\ Len(f) = n
<1>1. f \in Seq(S)
  BY SeqDef
<1> QED  BY <1>1, LenProperties

BodiesTyped ==
  Bodies \in Seq(Seq(Byte)) /\ Len(Bodies) = Len(frames) /\ Len(frames) \in Nat

LEMMA BodiesType == IInv => BodiesTyped
<1> SUFFICES ASSUME IInv PROVE BodiesTyped
  OBVIOUS
<1>1. /\ accepted \in Seq(Byte) /\ <<>> \in Seq(Byte) /\ frames \in Seq(Nat) /\ Len(frames) \in Nat
      /\ \A i \in 1 .. Len(frames) : frames[i] \in Nat /\ ValidFrameAt(accepted, frames[i])
  BY LenProperties, ElementAt DEF IInv, TypeOK, FramesInOrder
<1>2. \A i \in 1 .. Len(frames) : Body(accepted, frames[i]) \in Seq(Byte)
  BY <1>1, BodyKept
<1>3. Bodies \in [1 .. Len(frames) -> Seq(Byte)]
  BY <1>2 DEF Bodies
<1> QED  BY <1>1, <1>3, FunctionSeq DEF BodiesTyped

LEMMA BatchType ==
  ASSUME TypeOK
  PROVE  /\ InBuffer \in Seq(Seq(Byte))
         /\ pc \in {"scan", "dispatch"} =>
              /\ Len(InBuffer) = rxDataCount
              /\ \A i \in 1 .. rxDataCount : InBuffer[i] = rxDataBuffer[i - 1]
<1>1. /\ rxDataBuffer \in [0 .. CountMod - 1 -> Seq(Byte)] /\ rxDataCount \in 0 .. CountMod - 1
      /\ CountMod \in Nat \ {0}
  BY ConstantFacts DEF TypeOK
<1>2. CASE pc \in {"scan", "dispatch"}
  <2>1. InBuffer = [i \in 1 .. rxDataCount |-> rxDataBuffer[i - 1]]
    BY <1>2 DEF InBuffer
  <2>2. rxDataCount \in Nat /\ InBuffer \in [1 .. rxDataCount -> Seq(Byte)]
    BY <1>1, <2>1
  <2> QED  BY <2>1, <2>2, FunctionSeq
<1>3. CASE pc \notin {"scan", "dispatch"}
  BY <1>3 DEF InBuffer
<1> QED  BY <1>2, <1>3

\* Steps that touch neither the frames nor the buffer.
LEMMA HandledKept ==
  ASSUME IInv, HandledInv, pc' # "scan",
         pc' = "dispatch" <=> pc \in {"scan", "dispatch"},
         UNCHANGED <<rxDataBuffer, rxDataCount, frames, handled, accepted>>
  PROVE  HandledInv'
<1>1. InBuffer' = InBuffer
  BY DEF InBuffer
<1>2. HandledOnce' /\ CountBounded'
  BY <1>1 DEF HandledInv, HandledOnce, CountBounded
<1> QED  BY <1>2 DEF HandledInv

LEMMA HandledReceives ==
  ASSUME IInv, HandledInv, ReceiveReport
  PROVE  HandledInv'
<1>1. PICK m \in 1 .. MaxReport : \E report \in [1 .. m -> Byte] :
        /\ accepted' = accepted \o Kept(report)
        /\ pc' = IF m > FIFO_GetFreeSpace(rxfifo) THEN "transmit" ELSE "receive"
  BY DEF ReceiveReport, Accept
<1>2. PICK report \in [1 .. m -> Byte] : accepted' = accepted \o Kept(report)
  BY <1>1
<1>3. /\ UNCHANGED <<rxDataBuffer, rxDataCount, frames, handled>>
      /\ pc = "receive" /\ pc' \in {"transmit", "receive"}
  BY <1>1 DEF ReceiveReport
<1>4. Kept(report) \in Seq(Byte)
  <2>1. m \in Nat
    BY TransportAssumption
  <2>2. report \in Seq(Byte) /\ Len(report) \in Nat
    BY <2>1, FunctionSeq
  <2>3. FIFO_GetFreeSpace(rxfifo) \in Nat
    <3>1. GoodFifo(rxfifo, RxSize, Byte) /\ RxSize \in Nat \ {0}
      BY Fifos, ConstantFacts DEF IInv
    <3>2. rxfifo.maxSz = RxSize /\ rxfifo.numItems \in 0 .. RxSize
      BY <3>1, GoodFields
    <3> QED  BY <3>1, <3>2 DEF FIFO_GetFreeSpace
  <2>4. PICK k \in 0 .. Len(report) : k = MinOf(Len(report), FIFO_GetFreeSpace(rxfifo))
    BY <2>2, <2>3 DEF MinOf
  <2>5. SubSeq(report, 1, k) \in Seq(Byte)
    BY <2>2, SubSeqFromOne
  <2> QED  BY <2>4, <2>5 DEF Kept
<1>5. \A i \in 1 .. Len(frames) : Body(accepted', frames[i]) = Body(accepted, frames[i])
  <2>1. /\ accepted \in Seq(Byte)
        /\ \A i \in 1 .. Len(frames) : frames[i] \in Nat /\ ValidFrameAt(accepted, frames[i])
    BY ElementAt DEF IInv, TypeOK, FramesInOrder
  <2> QED  BY <1>2, <1>4, <2>1, BodyKept
<1>6. InBuffer' = InBuffer
  BY <1>3 DEF InBuffer
<1>7. HandledOnce'
  BY <1>3, <1>5, <1>6 DEF HandledInv, HandledOnce
<1> QED  BY <1>3, <1>7 DEF HandledInv, CountBounded

LEMMA HandledStartsParse ==
  ASSUME IInv, HandledInv, NoBacklog, StartParse
  PROVE  HandledInv'
<1>1. /\ pc = "parse" /\ rxDataCount' = 0 /\ pc' \in {"scan", "dispatch"}
      /\ UNCHANGED <<rxfifo, frames, handled, accepted>>
  BY DEF StartParse, rxHistory
<1>2. InBuffer = <<>> /\ InBuffer' = <<>>
  <2>1. InBuffer' = [i \in 1 .. 0 |-> rxDataBuffer'[i - 1]]
    BY <1>1 DEF InBuffer
  <2> QED  BY <1>1, <2>1 DEF InBuffer
<1>3. HandledOnce'
  BY <1>1, <1>2 DEF HandledInv, HandledOnce
<1>4. rxfifo.numItems < CountMod * MinPacket /\ rxfifo.numItems \in Nat /\ 0 * MinPacket = 0
  <2>1. GoodFifo(rxfifo, RxSize, Byte) /\ RxSize \in Nat \ {0}
    BY Fifos, ConstantFacts DEF IInv
  <2>2. rxfifo.numItems \in 0 .. RxSize
    BY <2>1, GoodFields
  <2> QED  BY <1>1, <2>1, <2>2, ConstantFacts DEF NoBacklog, FIFO_GetCount
<1>5. CountBounded'
  BY <1>1, <1>4, ConstantFacts DEF CountBounded
<1> QED  BY <1>3, <1>5 DEF HandledInv

\* A pop of n bytes leaves n fewer.
LEMMA ConsumeCount ==
  ASSUME NEW n, Consume(n)
  PROVE  rxfifo'.numItems = rxfifo.numItems - n
BY DEF Consume, FIFO_IncrementOutPtr

LEMMA HandledFinds ==
  ASSUME IInv, HandledInv, ScanFrame
  PROVE  HandledInv'
<1>1. Scanning /\ IsStart(rxdata, loc) /\ Complete /\ CrcMatches(rxdata, loc)
  BY DEF ScanFrame
<1>2. PICK size \in Nat : size = FrameSize(rxdata, loc) /\ size >= MinPacket
  BY <1>1, SeenIsAccepted
<1>3. PICK body \in Seq(Byte) : body = Body(rxdata, loc) /\ body = Body(accepted, consumed)
  BY <1>1, SeenComplete
<1>4. /\ UNCHANGED <<pc, accepted, handled>> /\ pc = "scan"
      /\ rxDataBuffer' = [rxDataBuffer EXCEPT ![rxDataCount] = body]
      /\ rxDataCount' = (rxDataCount + 1) % CountMod
      /\ Consume(size) /\ frames' = Append(frames, consumed)
  BY <1>1, <1>2, <1>3 DEF ScanFrame, Scanning
<1>5. IInv' /\ TypeOK /\ TypeOK'
  BY ScanFrameStep DEF IInv
<1>6. /\ rxDataCount' = rxDataCount + 1
      /\ rxDataCount' * MinPacket + rxfifo'.numItems < CountMod * MinPacket
  <2>1. PICK c \in Nat, p \in Nat, d \in Nat, n \in Nat :
          /\ c = CountMod /\ p = MinPacket /\ d = rxDataCount /\ n = rxfifo.numItems
          /\ d < c /\ p > 0 /\ size <= n
    <3>1. GoodFifo(rxfifo, RxSize, Byte) /\ RxSize \in Nat \ {0}
      BY Fifos, ConstantFacts DEF IInv
    <3>2. rxfifo.numItems \in 0 .. RxSize
      BY <3>1, GoodFields
    <3>3. size <= rxfifo.numItems
      BY <1>1, <1>2, SeenComplete
    <3>4. rxDataCount \in 0 .. CountMod - 1
      BY <1>5 DEF TypeOK
    <3>5. rxDataCount \in Nat /\ rxDataCount < CountMod /\ CountMod \in Nat
      BY <3>4, ConstantFacts
    <3>6. MinPacket \in Nat /\ MinPacket > 0
      BY ConstantFacts
    <3>7. rxfifo.numItems \in Nat
      BY <3>1, <3>2
    <3> QED  BY ONLY <3>3, <3>5, <3>6, <3>7
  <2>2. d * p + n < c * p /\ size >= p
    BY <1>2, <1>4, <2>1 DEF HandledInv, CountBounded
  <2>3. (d + 1) * p = d * p + p
    BY ONLY d \in Nat, p \in Nat
  <2>4. (d + 1) * p + (n - size) < c * p
    <3>1. d * p \in Nat /\ c * p \in Nat
      BY ONLY d \in Nat, p \in Nat, c \in Nat
    <3> QED  BY <2>1, <2>2, <2>3, <3>1
  <2>5. d + 1 < c
    <3>1. (d + 1) * p < c * p
      <4>1. n - size \in Nat /\ (d + 1) * p \in Nat /\ c * p \in Nat
        BY <2>1
      <4> QED  BY <2>4, <4>1
    <3>2. ASSUME d + 1 >= c PROVE FALSE
      <4>1. d + 1 = c
        BY <2>1, <3>2
      <4> QED  BY <3>1, <4>1
    <3> QED  BY <2>1, <3>2
  <2>6. (d + 1) % c = d + 1
    BY <2>1, <2>5
  <2>7. rxfifo'.numItems = n - size
    BY <1>4, <2>1, ConsumeCount
  <2> QED  BY <1>4, <2>1, <2>4, <2>6, <2>7
<1>7. InBuffer' = Append(InBuffer, body)
  <2>1. /\ InBuffer \in Seq(Seq(Byte)) /\ Len(InBuffer) = rxDataCount
        /\ \A i \in 1 .. rxDataCount : InBuffer[i] = rxDataBuffer[i - 1]
    BY <1>4, <1>5, BatchType
  <2>2. InBuffer' = [i \in 1 .. rxDataCount + 1 |-> rxDataBuffer'[i - 1]]
    BY <1>4, <1>6 DEF InBuffer
  <2>3. /\ rxDataBuffer' \in [0 .. CountMod - 1 -> Seq(Byte)]
        /\ rxDataBuffer \in [0 .. CountMod - 1 -> Seq(Byte)]
        /\ rxDataCount + 1 \in 0 .. CountMod - 1 /\ rxDataCount \in Nat /\ CountMod \in Nat
    <3>1. /\ rxDataBuffer \in [0 .. CountMod - 1 -> Seq(Byte)] /\ rxDataCount \in 0 .. CountMod - 1
          /\ rxDataBuffer' \in [0 .. CountMod - 1 -> Seq(Byte)] /\ rxDataCount' \in 0 .. CountMod - 1
      BY <1>5 DEF TypeOK
    <3> QED  BY <1>6, <3>1, ConstantFacts
  <2>4. InBuffer' \in [1 .. rxDataCount + 1 -> Seq(Byte)]
    BY <2>2, <2>3
  <2>5. InBuffer' \in Seq(Seq(Byte)) /\ Len(InBuffer') = rxDataCount + 1
    BY <2>3, <2>4, FunctionSeq
  <2>6. \A i \in 1 .. rxDataCount : InBuffer'[i] = InBuffer[i]
    BY <1>4, <2>1, <2>2, <2>3
  <2>7. InBuffer'[rxDataCount + 1] = body
    BY <1>4, <2>2, <2>3
  <2> QED  BY <2>1, <2>5, <2>6, <2>7, AppendIs
<1>8. Bodies' = Append(Bodies, body)
  <2>1. /\ Bodies \in Seq(Seq(Byte)) /\ Len(Bodies) = Len(frames) /\ Len(frames) \in Nat
        /\ Bodies' \in Seq(Seq(Byte)) /\ Len(Bodies') = Len(frames')
    <3>1. IInv' => BodiesTyped'
      BY BodiesType, PTL
    <3> QED  BY <1>5, <3>1, BodiesType DEF BodiesTyped
  <2>2. /\ Len(frames') = Len(frames) + 1 /\ frames'[Len(frames) + 1] = consumed
        /\ \A i \in 1 .. Len(frames) : frames'[i] = frames[i]
    <3>1. frames \in Seq(Nat) /\ consumed \in Nat
      BY LenProperties DEF IInv, TypeOK
    <3> QED  BY <1>4, <3>1, AppendProperties
  <2>3. /\ \A i \in 1 .. Len(frames) : Bodies'[i] = Bodies[i]
        /\ Bodies'[Len(frames) + 1] = body
    BY <1>3, <1>4, <2>1, <2>2 DEF Bodies
  <2> QED  BY <2>1, <2>2, <2>3, AppendIs
<1>9. handled \o InBuffer = Bodies
  BY DEF HandledInv, HandledOnce, Bodies
<1>10. handled' \o InBuffer' = Bodies'
  <2>1. handled \in Seq(Seq(Byte)) /\ InBuffer \in Seq(Seq(Byte))
    BY <1>5, BatchType DEF TypeOK
  <2>2. handled \o Append(InBuffer, body) = Append(handled \o InBuffer, body)
    BY <2>1, ConcatAppend
  <2> QED  BY <1>4, <1>7, <1>8, <1>9, <2>2
<1>11. CountBounded'
  BY <1>6 DEF CountBounded
<1> QED  BY <1>10, <1>11 DEF HandledInv, HandledOnce, Bodies

LEMMA HandledDrops ==
  ASSUME IInv, HandledInv, ScanDrop
  PROVE  HandledInv'
<1>1. /\ UNCHANGED <<pc, rxDataBuffer, rxDataCount, accepted, frames, handled>>
      /\ Consume(1) /\ pc = "scan"
  BY DEF ScanDrop, Scanning
<1>2. rxfifo'.numItems = rxfifo.numItems - 1
  BY <1>1, ConsumeCount
<1>3. HandledOnce'
  BY <1>1 DEF HandledInv, HandledOnce, InBuffer
<1>4. CountBounded'
  <2>1. GoodFifo(rxfifo, RxSize, Byte) /\ RxSize \in Nat \ {0}
    BY Fifos, ConstantFacts DEF IInv
  <2>2. rxfifo.numItems \in 0 .. RxSize
    BY <2>1, GoodFields
  <2>3. PICK a \in Nat, b \in Nat : a = rxDataCount * MinPacket /\ b = CountMod * MinPacket
    BY ConstantFacts DEF IInv, TypeOK
  <2>4. a + rxfifo.numItems < b
    BY <1>1, <2>3 DEF HandledInv, CountBounded
  <2>5. a + (rxfifo.numItems - 1) < b
    BY <2>1, <2>2, <2>3, <2>4
  <2> QED  BY <1>1, <1>2, <2>3, <2>5 DEF CountBounded
<1> QED  BY <1>3, <1>4 DEF HandledInv

LEMMA HandledDispatches ==
  ASSUME IInv, HandledInv, Dispatch
  PROVE  HandledInv'
<1>1. /\ UNCHANGED <<accepted, frames>> /\ pc = "dispatch" /\ pc' = "idle"
      /\ handled' = handled \o InBuffer
  BY DEF Dispatch, InBuffer
<1>2. InBuffer' = <<>>
  BY <1>1 DEF InBuffer
<1>3. handled' \o <<>> = handled'
  <2>1. handled \in Seq(Seq(Byte)) /\ InBuffer \in Seq(Seq(Byte))
    BY BatchType DEF IInv, TypeOK
  <2>2. handled' \in Seq(Seq(Byte))
    BY <1>1, <2>1, ConcatProperties
  <2> QED  BY <2>2, ConcatEmptySeq
<1>4. HandledOnce'
  BY <1>1, <1>2, <1>3 DEF HandledInv, HandledOnce
<1> QED  BY <1>1, <1>4 DEF HandledInv, CountBounded

LEMMA HandledNext ==
  ASSUME IInv, HandledInv, NoBacklog, [Next]_vars
  PROVE  HandledInv'
<1>1. CASE Tick \/ ReceiveNone \/ ReceiveError \/ Send
  <2>1. /\ UNCHANGED rxVars /\ UNCHANGED rxHistory
        /\ pc \notin {"scan", "dispatch"} /\ pc' \notin {"scan", "dispatch"}
    BY <1>1 DEF Tick, ReceiveNone, ReceiveError, Send, Transmit, TransmitNothing, TransmitError
  <2> QED  BY <2>1, HandledKept DEF rxVars, rxHistory
<1>2. CASE ScanEnd
  <2>1. UNCHANGED rxVars /\ UNCHANGED rxHistory /\ pc = "scan" /\ pc' = "dispatch"
    BY <1>2 DEF ScanEnd
  <2> QED  BY <2>1, HandledKept DEF rxVars, rxHistory
<1>3. CASE UNCHANGED vars \/ \E p \in Packets : SendPacket(p)
  <2>1. UNCHANGED <<pc, rxfifo, rxDataBuffer, rxDataCount, frames, handled, accepted>>
    BY <1>3 DEF vars, rxVars, rxHistory, SendPacket
  <2>2. InBuffer' = InBuffer
    BY <2>1 DEF InBuffer
  <2> QED  BY <2>1, <2>2 DEF HandledInv, HandledOnce, CountBounded
<1> QED
  BY <1>1, <1>2, <1>3, HandledReceives, HandledStartsParse, HandledFinds, HandledDrops,
     HandledDispatches DEF Next, Receive, Parse

LEMMA HandledStart == Init => HandledInv
<1> SUFFICES ASSUME Init PROVE HandledInv
  OBVIOUS
<1>1. InBuffer = <<>> /\ handled = <<>> /\ frames = <<>> /\ pc = "idle"
  BY DEF Init, InBuffer
<1>2. handled \o InBuffer = <<>>
  BY <1>1
<1>3. Bodies = <<>>
  BY <1>1 DEF Bodies
<1> QED  BY <1>1, <1>2, <1>3 DEF HandledInv, HandledOnce, CountBounded, Bodies

\* As long as no parse begins with a backlog that could hold 256 frames, each frame
\* found is handed to a handler exactly once, unchanged and in the order of the
\* line (neoRAD-IO2_PacketHandler.c:258-334): for any sizes of the FIFOs.
THEOREM HandledOnceHolds == Spec /\ []NoBacklog => []HandledOnce
<1>1. IInv /\ HandledInv /\ NoBacklog /\ [Next]_vars => HandledInv'
  BY HandledNext
<1>2. HandledInv => HandledOnce
  BY DEF HandledInv
<1> QED  BY <1>1, <1>2, HandledStart, IInvHolds, PTL DEF Spec

\* No backlog arises when rxfifo has no room for one: a rxfifo below 1536 bytes
\* would need no more than the uint8_t rxDataCount is.
THEOREM SmallRxFifo ==
  ASSUME RxSize < CountMod * MinPacket
  PROVE  Spec => []HandledOnce
<1>1. IInv => NoBacklog
  <2> SUFFICES ASSUME IInv PROVE NoBacklog
    OBVIOUS
  <2>1. GoodFifo(rxfifo, RxSize, Byte) /\ RxSize \in Nat \ {0}
    BY Fifos, ConstantFacts DEF IInv
  <2>2. rxfifo.numItems \in 0 .. RxSize
    BY <2>1, GoodFields
  <2>3. PICK b \in Nat : b = CountMod * MinPacket
    BY ConstantFacts
  <2> QED  BY <2>1, <2>2, <2>3 DEF NoBacklog, FIFO_GetCount
<1> QED  BY <1>1, IInvHolds, HandledOnceHolds, PTL
=============================================================================
