---------------------------- MODULE FifoOps_proofs ----------------------------
(***************************************************************************)
(* What each call on a FIFO does to the bytes it stores, for every memory  *)
(* size and every legal argument.                                          *)
(***************************************************************************)
EXTENDS FifoOps, SequenceTheorems, TLAPS

\* A fifo_t over n bytes whose cursors agree.
GoodFifo(f, n, Byte) == f \in FifoOf(n, Byte) /\ WellFormed(f)

\* The first and the last elements of a sequence, element by element.
LEMMA SubSeqFromOne ==
  ASSUME NEW S, NEW s \in Seq(S), NEW c \in 0 .. Len(s)
  PROVE  /\ SubSeq(s, 1, c) \in Seq(S)
         /\ Len(SubSeq(s, 1, c)) = c
         /\ \A i \in 1 .. c : SubSeq(s, 1, c)[i] = s[i]
<1>1. \A i \in 1 .. c : s[i] \in S
  BY ElementOfSeq, LenProperties
<1> QED
  BY <1>1, SubSeqProperties, LenProperties

LEMMA SubSeqFromAfter ==
  ASSUME NEW S, NEW s \in Seq(S), NEW c \in 0 .. Len(s)
  PROVE  /\ SubSeq(s, c + 1, Len(s)) \in Seq(S)
         /\ Len(SubSeq(s, c + 1, Len(s))) = Len(s) - c
         /\ \A i \in 1 .. Len(s) - c : SubSeq(s, c + 1, Len(s))[i] = s[c + i]
<1>1. Len(s) \in Nat /\ \A i \in c + 1 .. Len(s) : s[i] \in S
  BY ElementOfSeq, LenProperties
<1> QED
  BY <1>1, SubSeqProperties

\* Taking from the front in one go or in two.
LEMMA SubSeqSplit ==
  ASSUME NEW S, NEW s \in Seq(S), NEW a \in 0 .. Len(s), NEW b \in 0 .. Len(s) - a
  PROVE  /\ SubSeq(s, 1, a) \o SubSeq(s, a + 1, Len(s)) = s
         /\ LET r == SubSeq(s, a + 1, Len(s)) IN
              /\ SubSeq(s, 1, a) \o SubSeq(r, 1, b) = SubSeq(s, 1, a + b)
              /\ SubSeq(r, b + 1, Len(r)) = SubSeq(s, a + b + 1, Len(s))
<1>1. PICK n \in Nat : n = Len(s)
  BY LenProperties
<1>2. a \in 0 .. n /\ b \in 0 .. n - a /\ a + b \in 0 .. n
  BY <1>1
<1>3. SubSeq(s, 1, a) \o SubSeq(s, a + 1, n) = s
  <2>1. 1 \in 1 .. n + 1 /\ a \in 1 - 1 .. n /\ n \in a .. n
    BY <1>2
  <2>2. SubSeq(s, 1, a) \o SubSeq(s, a + 1, n) = SubSeq(s, 1, n)
    BY <1>1, <2>1, ConcatAdjacentSubSeq
  <2> QED  BY <1>1, <2>2, SubSeqFull
<1>4. PICK r : r = SubSeq(s, a + 1, n)
  OBVIOUS
<1>5. r \in Seq(S) /\ Len(r) = n - a /\ \A i \in 1 .. n - a : r[i] = s[a + i]
  BY <1>1, <1>4, SubSeqFromAfter
<1>6. SubSeq(r, 1, b) = SubSeq(s, a + 1, a + b)
  <2>1. /\ SubSeq(r, 1, b) \in Seq(S) /\ Len(SubSeq(r, 1, b)) = b
        /\ \A i \in 1 .. b : SubSeq(r, 1, b)[i] = r[i]
    BY <1>2, <1>5, SubSeqFromOne
  <2>2. \A i \in a + 1 .. a + b : s[i] \in S
    BY <1>1, <1>2, ElementOfSeq
  <2>3. /\ SubSeq(s, a + 1, a + b) \in Seq(S) /\ Len(SubSeq(s, a + 1, a + b)) = b
        /\ \A i \in 1 .. b : SubSeq(s, a + 1, a + b)[i] = s[a + i]
    BY <1>2, <2>2, SubSeqProperties
  <2>4. \A i \in 1 .. b : SubSeq(r, 1, b)[i] = SubSeq(s, a + 1, a + b)[i]
    BY <1>2, <1>5, <2>1, <2>3
  <2> QED  BY <2>1, <2>3, <2>4, SeqEqual
<1>7. SubSeq(s, 1, a) \o SubSeq(s, a + 1, a + b) = SubSeq(s, 1, a + b)
  <2>1. 1 \in 1 .. n + 1 /\ a \in 1 - 1 .. n /\ a + b \in a .. n
    BY <1>2
  <2> QED  BY <1>1, <2>1, ConcatAdjacentSubSeq
<1>8. SubSeq(r, b + 1, Len(r)) = SubSeq(s, a + b + 1, n)
  <2>1. b \in 0 .. Len(r) /\ Len(r) - b = n - (a + b)
    BY <1>2, <1>5
  <2>2. /\ SubSeq(r, b + 1, Len(r)) \in Seq(S)
        /\ Len(SubSeq(r, b + 1, Len(r))) = n - (a + b)
        /\ \A i \in 1 .. n - (a + b) : SubSeq(r, b + 1, Len(r))[i] = r[b + i]
    BY <1>5, <2>1, SubSeqFromAfter
  <2>3. /\ SubSeq(s, a + b + 1, n) \in Seq(S)
        /\ Len(SubSeq(s, a + b + 1, n)) = n - (a + b)
        /\ \A i \in 1 .. n - (a + b) : SubSeq(s, a + b + 1, n)[i] = s[a + b + i]
    BY <1>1, <1>2, SubSeqFromAfter
  <2>4. ASSUME NEW i \in 1 .. n - (a + b)
        PROVE  SubSeq(r, b + 1, Len(r))[i] = SubSeq(s, a + b + 1, n)[i]
    <3>1. b + i \in 1 .. n - a /\ a + (b + i) = a + b + i
      BY <1>2
    <3> QED  BY <1>5, <2>2, <2>3, <3>1
  <2> QED  BY <1>2, <2>2, <2>3, <2>4, SeqEqual
<1> QED
  BY <1>1, <1>3, <1>4, <1>6, <1>7, <1>8

\* The fields of such a value.
LEMMA GoodFields ==
  ASSUME NEW n \in Nat \ {0}, NEW Byte, NEW f, GoodFifo(f, n, Byte)
  PROVE  /\ f.ptr \in [0 .. n - 1 -> Byte] /\ f.maxSz = n
         /\ f.in \in 0 .. n - 1 /\ f.out \in 0 .. n - 1 /\ f.numItems \in 0 .. n
         /\ f.in = Wrap(n, f.out + f.numItems)
<1>1. f \in FifoOf(n, Byte) /\ f.in = Slot(f, f.numItems)
  BY DEF GoodFifo, WellFormed
<1>2. /\ f.ptr \in [0 .. n - 1 -> Byte] /\ f.maxSz = n
      /\ f.in \in 0 .. n - 1 /\ f.out \in 0 .. n - 1 /\ f.numItems \in 0 .. n
  BY <1>1 DEF FifoOf
<1> QED
  BY <1>1, <1>2 DEF Slot

\* Arithmetic of a cursor moved around the end of the memory.
LEMMA WrapIn ==
  ASSUME NEW n \in Nat \ {0}, NEW out \in 0 .. n - 1, NEW i \in 0 .. n
  PROVE  Wrap(n, out + i) \in 0 .. n - 1
BY DEF Wrap

LEMMA WrapMove ==
  ASSUME NEW n \in Nat \ {0}, NEW out \in 0 .. n - 1, NEW c \in 0 .. n
  PROVE  \A i \in 0 .. n - c :
           Wrap(n, Wrap(n, out + c) + i) = Wrap(n, out + (c + i))
BY DEF Wrap

\* Every stored byte is in the memory, so Contents is a sequence of bytes.
LEMMA ContentsType ==
  ASSUME NEW n \in Nat \ {0}, NEW Byte, NEW f, GoodFifo(f, n, Byte)
  PROVE  /\ Contents(f) \in Seq(Byte)
         /\ Len(Contents(f)) = f.numItems
         /\ f.numItems \in 0 .. n
<1>1. PICK p \in [0 .. n - 1 -> Byte], in \in 0 .. n - 1, out \in 0 .. n - 1,
           num \in 0 .. n :
        /\ f.ptr = p /\ f.maxSz = n /\ f.in = in /\ f.out = out /\ f.numItems = num
        /\ in = Wrap(n, out + num)
  BY ONLY n \in Nat \ {0}, GoodFifo(f, n, Byte), GoodFields
<1>2. ASSUME NEW i \in 1 .. num
      PROVE  p[Slot(f, i - 1)] \in Byte
  <2>1. Slot(f, i - 1) = Wrap(n, out + (i - 1))
    BY <1>1 DEF Slot, Wrap
  <2>2. Wrap(n, out + (i - 1)) \in 0 .. n - 1
    <3>1. i - 1 \in 0 .. n
      OBVIOUS
    <3> QED  BY <3>1, WrapIn
  <2> QED  BY <2>1, <2>2
<1>3. Contents(f) \in [1 .. num -> Byte]
  BY <1>1, <1>2 DEF Contents
<1>4. Contents(f) \in Seq(Byte)
  BY <1>3, SeqDef
<1>5. Len(Contents(f)) = num
  BY <1>3, <1>4, LenProperties
<1> QED
  BY <1>1, <1>4, <1>5

\* One memcpy at the write cursor that stays inside the memory and the free
\* space appends exactly the copied bytes (fifo.h:56-69, 144-145).
LEMMA PushRunAppends ==
  ASSUME NEW n \in Nat \ {0}, NEW Byte, NEW f, GoodFifo(f, n, Byte),
         NEW bytes, bytes \in Seq(Byte),
         Len(bytes) <= n - f.in, Len(bytes) <= n - f.numItems
  PROVE  /\ GoodFifo(PushRun(f, bytes), n, Byte)
         /\ Contents(PushRun(f, bytes)) = Contents(f) \o bytes
         /\ PushRun(f, bytes).numItems = f.numItems + Len(bytes)
         /\ Len(bytes) = n - f.in => PushRun(f, bytes).in = 0
<1>1. PICK p \in [0 .. n - 1 -> Byte], in \in 0 .. n - 1, out \in 0 .. n - 1,
           num \in 0 .. n :
        /\ f.ptr = p /\ f.maxSz = n /\ f.in = in /\ f.out = out /\ f.numItems = num
        /\ in = Wrap(n, out + num)
  BY ONLY n \in Nat \ {0}, GoodFifo(f, n, Byte), GoodFields
<1>2. PICK k \in Nat : k = Len(bytes)
  BY LenProperties
<1>3. k <= n - in /\ k <= n - num /\ \A i \in 1 .. k : bytes[i] \in Byte
  BY <1>1, <1>2, ElementOfSeq
<1>4. PICK in2 \in 0 .. n - 1 : in2 = IF in + k = n THEN 0 ELSE in + k
  BY <1>3
<1>5. PICK num2 \in 0 .. n : num2 = num + k
  BY <1>3
<1>6. /\ Wrap(n, in + k) = in2 /\ in2 = Wrap(n, out + num2)
      /\ \A i \in 1 .. num : Wrap(n, out + (i - 1)) \notin in .. in + k - 1
      /\ \A i \in num + 1 .. num + k : Wrap(n, out + (i - 1)) = in + (i - num) - 1
  <2>1. in = Wrap(n, out + num) /\ k <= n - in /\ k <= n - num
    BY <1>1, <1>3, Zenon
  <2>2. /\ Wrap(n, in + k) = (IF in + k = n THEN 0 ELSE in + k)
        /\ Wrap(n, in + k) = Wrap(n, out + (num + k))
        /\ \A i \in 1 .. num : Wrap(n, out + (i - 1)) \notin in .. in + k - 1
        /\ \A i \in num + 1 .. num + k : Wrap(n, out + (i - 1)) = in + (i - num) - 1
    BY ONLY <2>1 DEF Wrap
  <2> QED  BY <1>4, <1>5, <2>2, Zenon
<1>7. PICK q : q = CopyIn(p, in, bytes)
  OBVIOUS
<1>8. /\ q \in [0 .. n - 1 -> Byte]
      /\ \A i \in 0 .. n - 1 : q[i] = IF i \in in .. in + k - 1 THEN bytes[i - in + 1]
                                      ELSE p[i]
  <2>1. ASSUME NEW i \in 0 .. n - 1
        PROVE  (IF i \in in .. in + k - 1 THEN bytes[i - in + 1] ELSE p[i]) \in Byte
    <3>1. i \in in .. in + k - 1 => i - in + 1 \in 1 .. k
      OBVIOUS
    <3> QED  BY <1>3, <3>1
  <2>2. q = [i \in 0 .. n - 1 |-> IF i \in in .. in + k - 1 THEN bytes[i - in + 1]
                                  ELSE p[i]]
    BY <1>2, <1>7 DEF CopyIn
  <2> QED
    BY <2>1, <2>2
<1>9. PICK g : /\ g = PushRun(f, bytes) /\ g \in FifoOf(n, Byte)
               /\ g.ptr = q /\ g.maxSz = n /\ g.in = in2 /\ g.out = out
               /\ g.numItems = num2
  <2>1. f \in FifoOf(n, Byte)
    BY DEF GoodFifo
  <2>2. PICK h : h = [f EXCEPT !.ptr = q]
    OBVIOUS
  <2>3. h \in FifoOf(n, Byte)
    BY <1>8, <2>1, <2>2 DEF FifoOf
  <2>4. h.maxSz = n /\ h.in = in /\ h.out = out /\ h.numItems = num /\ h.ptr = q
    BY <1>1, <2>1, <2>2 DEF FifoOf
  <2>5. PushRun(f, bytes) = FIFO_IncrementInPtr(h, k)
    BY <1>1, <1>2, <1>7, <2>2 DEF PushRun
  <2>6. FIFO_IncrementInPtr(h, k) = [h EXCEPT !.in = in2, !.numItems = num2]
    BY <1>5, <1>6, <2>4 DEF FIFO_IncrementInPtr
  <2> QED
    BY <2>3, <2>4, <2>5, <2>6 DEF FifoOf
<1>10. GoodFifo(g, n, Byte)
  BY <1>6, <1>9 DEF GoodFifo, WellFormed, Slot
<1>11. Contents(g) = Contents(f) \o bytes
  <2>1. Contents(g) \in Seq(Byte) /\ Len(Contents(g)) = num + k
    BY <1>5, <1>9, <1>10, ContentsType
  <2>2. Contents(f) \in Seq(Byte) /\ Len(Contents(f)) = num
    BY <1>1, ContentsType
  <2>3. /\ Contents(f) \o bytes \in Seq(Byte)
        /\ Len(Contents(f) \o bytes) = num + k
        /\ \A i \in 1 .. num + k :
             (Contents(f) \o bytes)[i] =
               IF i <= num THEN Contents(f)[i] ELSE bytes[i - num]
    BY <1>2, <2>2, ConcatProperties
  <2>4. ASSUME NEW i \in 1 .. num + k
        PROVE  Contents(g)[i] = (Contents(f) \o bytes)[i]
    <3>1. PICK s : s = Wrap(n, out + (i - 1))
      OBVIOUS
    <3>2. s \in 0 .. n - 1
      <4>1. i - 1 \in 0 .. n
        BY <1>3
      <4> QED  BY <3>1, <4>1, WrapIn
    <3>3. Contents(g)[i] = q[s]
      BY <1>5, <1>9, <3>1 DEF Contents, Slot
    <3>4. CASE i <= num
      <4>1. i \in 1 .. num
        BY <3>4
      <4>2. s \notin in .. in + k - 1
        BY <1>6, <3>1, <4>1
      <4>3. q[s] = p[s]
        BY <1>8, <3>2, <4>2
      <4>4. Contents(f)[i] = p[s]
        BY <1>1, <3>1, <4>1 DEF Contents, Slot
      <4> QED  BY <2>3, <3>3, <3>4, <4>3, <4>4
    <3>5. CASE ~ (i <= num)
      <4>1. i \in num + 1 .. num + k
        BY <3>5
      <4>2. s = in + (i - num) - 1
        BY <1>6, <3>1, <4>1
      <4>3. s \in in .. in + k - 1 /\ s - in + 1 = i - num
        BY <4>1, <4>2
      <4>4. q[s] = bytes[i - num]
        BY <1>8, <3>2, <4>3
      <4> QED  BY <2>3, <3>3, <3>5, <4>4
    <3> QED  BY <3>4, <3>5
  <2> QED
    BY <2>1, <2>3, <2>4, SeqEqual
<1> QED
  BY <1>1, <1>2, <1>4, <1>5, <1>9, <1>10, <1>11

\* Moving the read cursor over c stored bytes, even across the end of the
\* memory, removes exactly the c oldest ones (fifo.h:71-80).
LEMMA SkipRemoves ==
  ASSUME NEW n \in Nat \ {0}, NEW Byte, NEW f, GoodFifo(f, n, Byte),
         NEW c \in Nat, c <= f.numItems
  PROVE  /\ GoodFifo(FIFO_IncrementOutPtr(f, c), n, Byte)
         /\ Contents(FIFO_IncrementOutPtr(f, c))
              = SubSeq(Contents(f), c + 1, Len(Contents(f)))
         /\ FIFO_IncrementOutPtr(f, c).numItems = f.numItems - c
         /\ FIFO_IncrementOutPtr(f, c).ptr = f.ptr
         /\ FIFO_IncrementOutPtr(f, c).out = Wrap(n, f.out + c)
<1>1. PICK p \in [0 .. n - 1 -> Byte], in \in 0 .. n - 1, out \in 0 .. n - 1,
           num \in 0 .. n :
        /\ f.ptr = p /\ f.maxSz = n /\ f.in = in /\ f.out = out /\ f.numItems = num
        /\ in = Wrap(n, out + num)
  BY ONLY n \in Nat \ {0}, GoodFifo(f, n, Byte), GoodFields
<1>2. c <= num /\ c \in 0 .. n
  BY <1>1
<1>2a. Wrap(n, out + c) \in 0 .. n - 1
  BY <1>2 DEF Wrap
<1>3. PICK out2 \in 0 .. n - 1 : out2 = Wrap(n, out + c)
  BY <1>2a
<1>4. PICK num2 \in 0 .. n : num2 = num - c
  BY <1>2
<1>5. /\ Wrap(n, out + c) = out2
      /\ \A i \in 0 .. n - c : Wrap(n, out2 + i) = Wrap(n, out + (c + i))
  <2>1. \A i \in 0 .. n - c : Wrap(n, Wrap(n, out + c) + i) = Wrap(n, out + (c + i))
    BY ONLY n \in Nat \ {0}, <1>2, WrapMove
  <2> QED  BY <1>3, <2>1, Zenon
<1>6. PICK g : /\ g = FIFO_IncrementOutPtr(f, c) /\ GoodFifo(g, n, Byte)
               /\ g.ptr = p /\ g.maxSz = n /\ g.in = in /\ g.out = out2
               /\ g.numItems = num2
  <2>1. f \in FifoOf(n, Byte)
    BY DEF GoodFifo
  <2>2. f.numItems - c = num2
    BY <1>1, <1>4
  <2>3. FIFO_IncrementOutPtr(f, c) = [f EXCEPT !.out = out2, !.numItems = num2]
    BY <1>1, <1>5, <2>2 DEF FIFO_IncrementOutPtr
  <2>4. PICK g : /\ g = FIFO_IncrementOutPtr(f, c) /\ g \in FifoOf(n, Byte)
                 /\ g.ptr = p /\ g.maxSz = n /\ g.in = in /\ g.out = out2
                 /\ g.numItems = num2
    BY <1>1, <2>1, <2>3 DEF FifoOf
  <2>5. num2 \in 0 .. n - c /\ c + num2 = num
    BY <1>2, <1>4
  <2>6. in = Wrap(n, out2 + num2)
    BY <1>1, <1>5, <2>5
  <2> QED
    BY <2>4, <2>6 DEF GoodFifo, WellFormed, Slot
<1>7. Contents(f) \in Seq(Byte) /\ Len(Contents(f)) = num
  BY <1>1, ContentsType
<1>8. Contents(g) = SubSeq(Contents(f), c + 1, num)
  <2>1. /\ Contents(g) \in Seq(Byte)
        /\ Len(Contents(g)) = num2
    BY <1>6, ContentsType
  <2>2. /\ SubSeq(Contents(f), c + 1, num) \in Seq(Byte)
        /\ Len(SubSeq(Contents(f), c + 1, num)) = num - c
        /\ \A i \in 1 .. num - c :
             SubSeq(Contents(f), c + 1, num)[i] = Contents(f)[c + i]
    <3>1. c \in 0 .. Len(Contents(f))
      BY <1>2, <1>7
    <3> QED  BY <1>7, <3>1, SubSeqFromAfter
  <2>3. ASSUME NEW i \in 1 .. num - c
        PROVE  Contents(g)[i] = Contents(f)[c + i]
    <3>1. /\ i - 1 \in 0 .. n - c /\ i \in 1 .. num2 /\ c + i \in 1 .. num
          /\ c + (i - 1) = (c + i) - 1
      BY <1>2, <1>4
    <3>2. Wrap(n, out2 + (i - 1)) = Wrap(n, out + ((c + i) - 1))
      BY <1>5, <3>1
    <3>3. Contents(g)[i] = p[Wrap(n, out2 + (i - 1))]
      BY <1>6, <3>1 DEF Contents, Slot
    <3>4. Contents(f)[c + i] = p[Wrap(n, out + ((c + i) - 1))]
      BY <1>1, <3>1 DEF Contents, Slot
    <3> QED  BY <3>2, <3>3, <3>4
  <2> QED
    BY <1>4, <2>1, <2>2, <2>3, SeqEqual
<1> QED
  BY <1>1, <1>3, <1>4, <1>6, <1>7, <1>8

\* Moving the read cursor over bytes that lie together in the memory removes
\* exactly these, and they are the oldest ones (fifo.h:71-80, 102-105).
LEMMA PopRunRemoves ==
  ASSUME NEW n \in Nat \ {0}, NEW Byte, NEW f, GoodFifo(f, n, Byte),
         NEW c \in Nat, c <= n - f.out, c <= f.numItems
  PROVE  /\ GoodFifo(FIFO_IncrementOutPtr(f, c), n, Byte)
         /\ CopyOut(f.ptr, f.out, c) = SubSeq(Contents(f), 1, c)
         /\ Contents(FIFO_IncrementOutPtr(f, c))
              = SubSeq(Contents(f), c + 1, Len(Contents(f)))
         /\ FIFO_IncrementOutPtr(f, c).numItems = f.numItems - c
         /\ FIFO_IncrementOutPtr(f, c).ptr = f.ptr
         /\ c = n - f.out => FIFO_IncrementOutPtr(f, c).out = 0
<1>1. PICK p \in [0 .. n - 1 -> Byte], in \in 0 .. n - 1, out \in 0 .. n - 1,
           num \in 0 .. n :
        /\ f.ptr = p /\ f.maxSz = n /\ f.in = in /\ f.out = out /\ f.numItems = num
        /\ in = Wrap(n, out + num)
  BY ONLY n \in Nat \ {0}, GoodFifo(f, n, Byte), GoodFields
<1>2. c <= n - out /\ c <= num
  BY <1>1
<1>5. /\ Wrap(n, out + c) = (IF out + c = n THEN 0 ELSE out + c)
      /\ \A i \in 0 .. c - 1 : Wrap(n, out + i) = out + i
  BY <1>2 DEF Wrap
<1>7. Contents(f) \in Seq(Byte) /\ Len(Contents(f)) = num
  BY <1>1, ContentsType
<1>8. CopyOut(p, out, c) = SubSeq(Contents(f), 1, c)
  <2>1. /\ SubSeq(Contents(f), 1, c) \in Seq(Byte)
        /\ Len(SubSeq(Contents(f), 1, c)) = c
        /\ \A i \in 1 .. c : SubSeq(Contents(f), 1, c)[i] = Contents(f)[i]
    BY <1>2, <1>7, SubSeqFromOne
  <2>2. ASSUME NEW i \in 1 .. c
        PROVE  /\ p[out + i - 1] = Contents(f)[i]
               /\ p[out + i - 1] \in Byte
    <3>1. i - 1 \in 0 .. c - 1 /\ i \in 1 .. num /\ out + i - 1 \in 0 .. n - 1
      BY <1>2
    <3>2. Wrap(n, out + (i - 1)) = out + i - 1
      BY <1>5, <3>1
    <3>3. Contents(f)[i] = p[out + i - 1]
      BY <1>1, <3>1, <3>2 DEF Contents, Slot
    <3> QED  BY <3>1, <3>3
  <2>3. CopyOut(p, out, c) \in [1 .. c -> Byte]
    BY <2>2 DEF CopyOut
  <2>4. CopyOut(p, out, c) \in Seq(Byte)
    BY <2>3, SeqDef
  <2>5. Len(CopyOut(p, out, c)) = c
    BY <2>3, <2>4, LenProperties
  <2>6. \A i \in 1 .. c : CopyOut(p, out, c)[i] = SubSeq(Contents(f), 1, c)[i]
    BY <2>1, <2>2 DEF CopyOut
  <2> QED
    BY <2>1, <2>4, <2>5, <2>6, SeqEqual
<1>9. /\ GoodFifo(FIFO_IncrementOutPtr(f, c), n, Byte)
      /\ Contents(FIFO_IncrementOutPtr(f, c))
           = SubSeq(Contents(f), c + 1, Len(Contents(f)))
      /\ FIFO_IncrementOutPtr(f, c).numItems = f.numItems - c
      /\ FIFO_IncrementOutPtr(f, c).ptr = f.ptr
      /\ FIFO_IncrementOutPtr(f, c).out = Wrap(n, f.out + c)
  BY ONLY n \in Nat \ {0}, GoodFifo(f, n, Byte), c \in Nat, c <= f.numItems, SkipRemoves
<1>10. c = n - f.out => FIFO_IncrementOutPtr(f, c).out = 0
  BY <1>1, <1>5, <1>9
<1> QED
  BY <1>1, <1>8, <1>9, <1>10

\* FIFO_Push appends its bytes, wherever the memory ends (fifo.h:139-151).
LEMMA PushAppends ==
  ASSUME NEW n \in Nat \ {0}, NEW Byte, NEW f, GoodFifo(f, n, Byte),
         NEW bytes, bytes \in Seq(Byte), Len(bytes) <= FIFO_GetFreeSpace(f)
  PROVE  /\ GoodFifo(FIFO_Push(f, bytes), n, Byte)
         /\ Contents(FIFO_Push(f, bytes)) = Contents(f) \o bytes
<1>1. PICK in \in 0 .. n - 1, num \in 0 .. n :
        f.maxSz = n /\ f.in = in /\ f.numItems = num
  BY ONLY n \in Nat \ {0}, GoodFifo(f, n, Byte), GoodFields
<1>2. PICK k \in Nat : k = Len(bytes)
  BY LenProperties
<1>3. k <= n - num
  BY <1>1, <1>2 DEF FIFO_GetFreeSpace
<1>4. PICK c \in 0 .. k : /\ c = MinOf(Len(bytes), f.maxSz - f.in)
                          /\ c <= n - in /\ (k > c => c = n - in)
  BY <1>1, <1>2 DEF MinOf
<1>5. PICK b : b = SubSeq(bytes, 1, c)
  OBVIOUS
<1>6. b \in Seq(Byte) /\ Len(b) = c
  BY <1>2, <1>5, SubSeqFromOne
<1>7. PICK g : g = PushRun(f, b)
  OBVIOUS
<1>8. /\ GoodFifo(g, n, Byte) /\ Contents(g) = Contents(f) \o b
      /\ g.numItems = num + c /\ (c = n - in => g.in = 0)
  <2>1. Len(b) <= n - f.in /\ Len(b) <= n - f.numItems
    BY <1>1, <1>3, <1>4, <1>6
  <2>2. /\ GoodFifo(PushRun(f, b), n, Byte)
        /\ Contents(PushRun(f, b)) = Contents(f) \o b
        /\ PushRun(f, b).numItems = f.numItems + Len(b)
        /\ Len(b) = n - f.in => PushRun(f, b).in = 0
    BY ONLY n \in Nat \ {0}, GoodFifo(f, n, Byte), <1>6, <2>1, PushRunAppends
  <2> QED  BY <1>1, <1>6, <1>7, <2>2
<1>9. CASE k > c
  <2>1. PICK d : d = SubSeq(bytes, c + 1, Len(bytes))
    OBVIOUS
  <2>2. d \in Seq(Byte) /\ Len(d) = k - c
    BY <1>2, <2>1, SubSeqFromAfter
  <2>3. FIFO_Push(f, bytes) = PushRun(g, d)
    BY <1>2, <1>4, <1>5, <1>7, <1>9, <2>1 DEF FIFO_Push
  <2>4. Len(d) <= n - g.in /\ Len(d) <= n - g.numItems
    BY <1>3, <1>4, <1>8, <1>9, <2>2
  <2>5. GoodFifo(PushRun(g, d), n, Byte) /\ Contents(PushRun(g, d)) = Contents(g) \o d
    <3>1. GoodFifo(g, n, Byte)
      BY <1>8
    <3>2. d \in Seq(Byte)
      BY <2>2
    <3> QED  BY ONLY n \in Nat \ {0}, <2>4, <3>1, <3>2, PushRunAppends
  <2>6. b \o d = bytes
    <3>1. c \in 0 .. Len(bytes) /\ 0 \in 0 .. Len(bytes) - c
      BY <1>2
    <3> QED  BY <1>5, <2>1, <3>1, SubSeqSplit
  <2>7. (Contents(f) \o b) \o d = Contents(f) \o (b \o d)
    <3>1. Contents(f) \in Seq(Byte)
      BY ONLY n \in Nat \ {0}, GoodFifo(f, n, Byte), ContentsType
    <3>2. b \in Seq(Byte) /\ d \in Seq(Byte)
      BY <1>6, <2>2
    <3> QED  BY ONLY <3>1, <3>2, ConcatAssociative
  <2> QED  BY <1>8, <2>3, <2>5, <2>6, <2>7
<1>10. CASE ~ (k > c)
  <2>1. b = bytes
    <3>1. c = Len(bytes)
      BY <1>2, <1>10
    <3> QED  BY <1>5, <3>1, SubSeqFull
  <2>2. FIFO_Push(f, bytes) = g
    BY <1>2, <1>4, <1>5, <1>7, <1>10 DEF FIFO_Push
  <2> QED  BY <1>8, <2>1, <2>2
<1> QED
  BY <1>9, <1>10

\* FIFO_Pop hands out the oldest bytes and removes exactly these
\* (fifo.h:153-165).
LEMMA PopRemoves ==
  ASSUME NEW n \in Nat \ {0}, NEW Byte, NEW f, GoodFifo(f, n, Byte),
         NEW c \in Nat, c <= f.numItems
  PROVE  /\ GoodFifo(FIFO_Pop(f, c), n, Byte)
         /\ FIFO_PopBytes(f, c) = SubSeq(Contents(f), 1, c)
         /\ Contents(FIFO_Pop(f, c)) = SubSeq(Contents(f), c + 1, Len(Contents(f)))
<1>1. PICK out \in 0 .. n - 1, num \in 0 .. n :
        f.maxSz = n /\ f.out = out /\ f.numItems = num
  BY ONLY n \in Nat \ {0}, GoodFifo(f, n, Byte), GoodFields
<1>2. PICK a \in 0 .. c : /\ a = MinOf(c, f.maxSz - f.out)
                          /\ a <= n - out /\ (c > a => a = n - out)
  BY <1>1 DEF MinOf
<1>3. PICK g : g = FIFO_IncrementOutPtr(f, a)
  OBVIOUS
<1>4. /\ GoodFifo(g, n, Byte)
      /\ CopyOut(f.ptr, f.out, a) = SubSeq(Contents(f), 1, a)
      /\ Contents(g) = SubSeq(Contents(f), a + 1, Len(Contents(f)))
      /\ g.numItems = num - a /\ g.ptr = f.ptr /\ (a = n - out => g.out = 0)
  <2>1. a \in Nat /\ a <= n - f.out /\ a <= f.numItems
    BY <1>1, <1>2
  <2> QED  BY <1>1, <1>3, <2>1, PopRunRemoves
<1>5. PICK b \in 0 .. num : b = c - a /\ b <= num - a /\ a + b = c
  BY <1>1, <1>2
<1>6. /\ GoodFifo(FIFO_IncrementOutPtr(g, b), n, Byte)
      /\ CopyOut(g.ptr, g.out, b) = SubSeq(Contents(g), 1, b)
      /\ Contents(FIFO_IncrementOutPtr(g, b))
           = SubSeq(Contents(g), b + 1, Len(Contents(g)))
  <2>1. b <= n - g.out
    <3>1. CASE c > a
      <4>1. g.out = 0
        BY <1>2, <1>4, <3>1
      <4> QED  BY <1>1, <1>5, <4>1
    <3>2. CASE ~ (c > a)
      <4>1. b = 0
        BY <1>2, <1>5, <3>2
      <4>2. g.out \in 0 .. n - 1
        BY ONLY n \in Nat \ {0}, <1>4, GoodFields
      <4> QED  BY <4>1, <4>2
    <3> QED  BY <3>1, <3>2
  <2>2. b \in Nat /\ b <= g.numItems
    BY <1>4, <1>5
  <2>3. GoodFifo(g, n, Byte)
    BY <1>4
  <2> QED  BY ONLY n \in Nat \ {0}, <2>1, <2>2, <2>3, PopRunRemoves
<1>7. /\ Contents(f) \in Seq(Byte)
      /\ a \in 0 .. Len(Contents(f)) /\ b \in 0 .. Len(Contents(f)) - a
  <2>1. Contents(f) \in Seq(Byte) /\ Len(Contents(f)) = num
    BY <1>1, ContentsType
  <2> QED  BY <1>1, <1>2, <1>5, <2>1
<1>8. /\ SubSeq(Contents(f), 1, a) \o SubSeq(Contents(g), 1, b) = SubSeq(Contents(f), 1, c)
      /\ SubSeq(Contents(g), b + 1, Len(Contents(g)))
           = SubSeq(Contents(f), c + 1, Len(Contents(f)))
  BY <1>4, <1>5, <1>7, SubSeqSplit
<1>9. FIFO_PopBytes(f, c) = SubSeq(Contents(f), 1, c)
  BY <1>2, <1>3, <1>4, <1>5, <1>6, <1>8 DEF FIFO_PopBytes
<1>10. CASE c > a
  <2>1. FIFO_Pop(f, c) = FIFO_IncrementOutPtr(g, b)
    BY <1>2, <1>3, <1>5, <1>10 DEF FIFO_Pop
  <2> QED  BY <1>6, <1>8, <1>9, <2>1
<1>11. CASE ~ (c > a)
  <2>1. FIFO_Pop(f, c) = g
    BY <1>2, <1>3, <1>11 DEF FIFO_Pop
  <2>2. a = c
    BY <1>2, <1>11
  <2> QED  BY <1>4, <1>9, <2>1, <2>2
<1> QED
  BY <1>10, <1>11

\* FIFO_Copy moves the oldest bytes of src to the end of dst, in one run or,
\* where src wraps, in two (fifo.c:49-72).
LEMMA CopyMoves ==
  ASSUME NEW m \in Nat \ {0}, NEW n \in Nat \ {0}, NEW Byte,
         NEW dst, GoodFifo(dst, m, Byte), NEW src, GoodFifo(src, n, Byte),
         NEW c \in Nat, CopyFits(dst, src, c)
  PROVE  /\ GoodFifo(CopyDst(dst, src, c), m, Byte)
         /\ GoodFifo(CopySrc(src, c), n, Byte)
         /\ Contents(CopyDst(dst, src, c)) = Contents(dst) \o SubSeq(Contents(src), 1, c)
         /\ Contents(CopySrc(src, c)) = SubSeq(Contents(src), c + 1, Len(Contents(src)))
<1>1. PICK out \in 0 .. n - 1, num \in 0 .. n :
        src.maxSz = n /\ src.out = out /\ src.numItems = num
  BY ONLY n \in Nat \ {0}, GoodFifo(src, n, Byte), GoodFields
<1>2. PICK dnum \in 0 .. m : dst.maxSz = m /\ dst.numItems = dnum
  BY ONLY m \in Nat \ {0}, GoodFifo(dst, m, Byte), GoodFields
<1>3. c <= num /\ dnum + c <= m
  BY <1>1, <1>2 DEF CopyFits, FIFO_GetFreeSpace, FIFO_GetCount
<1>4. PICK sz \in 0 .. num : /\ sz = FIFO_GetOneShotReadSize(src)
                             /\ sz <= n - out /\ (sz < num => sz = n - out)
  BY <1>1 DEF FIFO_GetOneShotReadSize, FIFO_GetCount, MinOf
<1>5. Contents(src) \in Seq(Byte) /\ Len(Contents(src)) = num
  BY ONLY n \in Nat \ {0}, GoodFifo(src, n, Byte), <1>1, ContentsType
<1>6. Contents(dst) \in Seq(Byte)
  BY ONLY m \in Nat \ {0}, GoodFifo(dst, m, Byte), ContentsType
<1>7. ASSUME NEW e \in 0 .. num
      PROVE  SubSeq(Contents(src), 1, e) \in Seq(Byte) /\ Len(SubSeq(Contents(src), 1, e)) = e
  BY <1>5, SubSeqFromOne
<1>8. CASE sz >= c
  <2>1. c <= n - src.out /\ c <= src.numItems
    BY <1>1, <1>3, <1>4, <1>8
  <2>2. /\ GoodFifo(FIFO_IncrementOutPtr(src, c), n, Byte)
        /\ CopyOut(src.ptr, src.out, c) = SubSeq(Contents(src), 1, c)
        /\ Contents(FIFO_IncrementOutPtr(src, c))
             = SubSeq(Contents(src), c + 1, Len(Contents(src)))
    BY ONLY n \in Nat \ {0}, GoodFifo(src, n, Byte), c \in Nat, <2>1, PopRunRemoves
  <2>3. CopySrc(src, c) = FIFO_IncrementOutPtr(src, c)
    BY <1>4, <1>8 DEF CopySrc
  <2>4. PICK b : b = SubSeq(Contents(src), 1, c)
    OBVIOUS
  <2>5. CopyDst(dst, src, c) = FIFO_Push(dst, b)
    BY <1>4, <1>8, <2>2, <2>4 DEF CopyDst
  <2>6. b \in Seq(Byte) /\ Len(b) <= FIFO_GetFreeSpace(dst)
    BY <1>2, <1>3, <1>7, <2>4 DEF FIFO_GetFreeSpace
  <2>7. /\ GoodFifo(FIFO_Push(dst, b), m, Byte)
        /\ Contents(FIFO_Push(dst, b)) = Contents(dst) \o b
    BY ONLY m \in Nat \ {0}, GoodFifo(dst, m, Byte), <2>6, PushAppends
  <2> QED  BY <2>2, <2>3, <2>4, <2>5, <2>7
<1>9. CASE ~ (sz >= c)
  <2>1. PICK e \in 0 .. num : e = c - sz /\ sz + e = c /\ e <= num - sz /\ sz = n - out
    BY <1>3, <1>4, <1>9
  <2>2. PICK g : g = FIFO_IncrementOutPtr(src, sz)
    OBVIOUS
  <2>3. /\ GoodFifo(g, n, Byte) /\ CopyOut(src.ptr, src.out, sz) = SubSeq(Contents(src), 1, sz)
        /\ Contents(g) = SubSeq(Contents(src), sz + 1, Len(Contents(src)))
        /\ g.numItems = num - sz /\ g.ptr = src.ptr /\ g.out = 0
    <3>1. sz \in Nat /\ sz <= n - src.out /\ sz <= src.numItems
      BY <1>1, <1>4
    <3>2. /\ GoodFifo(FIFO_IncrementOutPtr(src, sz), n, Byte)
          /\ CopyOut(src.ptr, src.out, sz) = SubSeq(Contents(src), 1, sz)
          /\ Contents(FIFO_IncrementOutPtr(src, sz))
               = SubSeq(Contents(src), sz + 1, Len(Contents(src)))
          /\ FIFO_IncrementOutPtr(src, sz).numItems = src.numItems - sz
          /\ FIFO_IncrementOutPtr(src, sz).ptr = src.ptr
          /\ sz = n - src.out => FIFO_IncrementOutPtr(src, sz).out = 0
      BY ONLY n \in Nat \ {0}, GoodFifo(src, n, Byte), <3>1, PopRunRemoves
    <3> QED  BY <1>1, <2>1, <2>2, <3>2
  <2>4. /\ GoodFifo(FIFO_IncrementOutPtr(g, e), n, Byte)
        /\ CopyOut(g.ptr, g.out, e) = SubSeq(Contents(g), 1, e)
        /\ Contents(FIFO_IncrementOutPtr(g, e))
             = SubSeq(Contents(g), e + 1, Len(Contents(g)))
    <3>1. e \in Nat /\ e <= n - g.out /\ e <= g.numItems
      BY <2>1, <2>3
    <3>2. GoodFifo(g, n, Byte)
      BY <2>3
    <3> QED  BY ONLY n \in Nat \ {0}, <3>1, <3>2, PopRunRemoves
  <2>5. /\ SubSeq(Contents(src), 1, sz) \o SubSeq(Contents(g), 1, e)
             = SubSeq(Contents(src), 1, c)
        /\ SubSeq(Contents(g), e + 1, Len(Contents(g)))
             = SubSeq(Contents(src), c + 1, Len(Contents(src)))
    <3>1. sz \in 0 .. Len(Contents(src)) /\ e \in 0 .. Len(Contents(src)) - sz
      BY <1>5, <2>1
    <3> QED  BY <1>5, <2>1, <2>3, <3>1, SubSeqSplit
  <2>6. PICK b1, b2 : /\ b1 = SubSeq(Contents(src), 1, sz)
                      /\ b2 = SubSeq(Contents(g), 1, e)
    OBVIOUS
  <2>7. b1 \in Seq(Byte) /\ Len(b1) = sz /\ b2 \in Seq(Byte) /\ Len(b2) = e
    <3>1. Contents(g) \in Seq(Byte) /\ e \in 0 .. Len(Contents(g))
      <4>1. GoodFifo(g, n, Byte) /\ g.numItems = num - sz
        BY <2>3
      <4>2. Contents(g) \in Seq(Byte) /\ Len(Contents(g)) = num - sz
        BY ONLY n \in Nat \ {0}, <4>1, ContentsType
      <4> QED  BY <2>1, <4>2
    <3> QED  BY <1>7, <2>6, <3>1, SubSeqFromOne
  <2>8. CopyDst(dst, src, c) = FIFO_Push(FIFO_Push(dst, b1), b2)
    BY <1>4, <1>9, <2>1, <2>2, <2>3, <2>4, <2>6 DEF CopyDst
  <2>9. CopySrc(src, c) = FIFO_IncrementOutPtr(g, e)
    BY <1>4, <1>9, <2>1, <2>2 DEF CopySrc
  <2>10. PICK h : /\ h = FIFO_Push(dst, b1)
                  /\ GoodFifo(h, m, Byte) /\ Contents(h) = Contents(dst) \o b1
    <3>1. b1 \in Seq(Byte) /\ Len(b1) <= FIFO_GetFreeSpace(dst)
      BY <1>2, <1>3, <1>9, <2>7 DEF FIFO_GetFreeSpace
    <3> QED  BY ONLY m \in Nat \ {0}, GoodFifo(dst, m, Byte), <3>1, PushAppends
  <2>11. GoodFifo(FIFO_Push(h, b2), m, Byte) /\ Contents(FIFO_Push(h, b2)) = Contents(h) \o b2
    <3>1. GoodFifo(h, m, Byte)
      BY <2>10
    <3>2. h.maxSz = m /\ h.numItems = dnum + sz
      <4>1. Contents(dst) \in Seq(Byte) /\ Len(Contents(dst)) = dnum
        BY ONLY m \in Nat \ {0}, GoodFifo(dst, m, Byte), <1>2, ContentsType
      <4>2. Len(Contents(h)) = dnum + sz
        BY <2>7, <2>10, <4>1, ConcatProperties
      <4>3. Len(Contents(h)) = h.numItems
        BY ONLY m \in Nat \ {0}, <3>1, ContentsType
      <4>4. h.maxSz = m
        BY ONLY m \in Nat \ {0}, <3>1, GoodFields
      <4> QED  BY <4>2, <4>3, <4>4
    <3>3. b2 \in Seq(Byte) /\ Len(b2) <= FIFO_GetFreeSpace(h)
      BY <1>3, <2>1, <2>7, <3>2 DEF FIFO_GetFreeSpace
    <3> QED  BY ONLY m \in Nat \ {0}, <3>1, <3>3, PushAppends
  <2>12. (Contents(dst) \o b1) \o b2 = Contents(dst) \o (b1 \o b2)
    BY <1>6, <2>7, ConcatAssociative
  <2>13. Contents(CopyDst(dst, src, c)) = Contents(dst) \o SubSeq(Contents(src), 1, c)
    BY <2>5, <2>6, <2>8, <2>10, <2>11, <2>12
  <2> QED  BY <2>4, <2>5, <2>8, <2>9, <2>10, <2>11, <2>13
<1> QED
  BY <1>8, <1>9

\* The trap of FIFO_InspectPtrs (fifo.h:38-54) is not taken on such a value.
LEMMA GoodPassesInspection ==
  ASSUME NEW n \in Nat \ {0}, NEW Byte, NEW f, GoodFifo(f, n, Byte)
  PROVE  InspectPtrs(f)
<1>1. PICK in \in 0 .. n - 1, out \in 0 .. n - 1, num \in 0 .. n :
        /\ f.maxSz = n /\ f.in = in /\ f.out = out /\ f.numItems = num
        /\ in = Wrap(n, out + num)
  BY GoodFields
<1>2. (IF in >= out THEN IF num = n THEN n ELSE in - out ELSE (n - out) + in) = num
  BY <1>1 DEF Wrap
<1> QED
  BY <1>1, <1>2 DEF InspectPtrs
=============================================================================
