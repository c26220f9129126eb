----------------------------- MODULE Fifo_proofs -----------------------------
(***************************************************************************)
(* The FIFOs of any program that checks space and count before it calls,   *)
(* of any sizes over any byte values, keep their invariant and are bounded *)
(* queues.  Each action is treated once: it preserves Inv and it is a step *)
(* of ByteQueue through Contents.                                          *)
(***************************************************************************)
EXTENDS Fifo, FifoOps_proofs

Abs == [q \in Fifos |-> Contents(fifo[q])]

LEMMA InvGood ==
  ASSUME Inv, NEW q \in Fifos
  PROVE  GoodFifo(fifo[q], Size[q], Byte) /\ Size[q] \in Nat \ {0}
BY SizeAssumption DEF Inv, TypeOK, GoodFifo

\* One FIFO replaced by a good one, the others kept.
LEMMA StoreKeepsInv ==
  ASSUME Inv, NEW q \in Fifos, NEW g, GoodFifo(g, Size[q], Byte), Store(q, g),
         popped' \in Seq(Byte)
  PROVE  /\ Inv'
         /\ Abs' = [Abs EXCEPT ![q] = Contents(g)]
<1>1. /\ DOMAIN fifo = Fifos /\ fifo = [p \in Fifos |-> fifo[p]]
      /\ \A p \in Fifos : fifo[p] \in FifoOf(Size[p], Byte) /\ WellFormed(fifo[p])
  BY DEF Inv, TypeOK
<1>2. fifo' = [p \in Fifos |-> IF p = q THEN g ELSE fifo[p]]
  BY <1>1 DEF Store
<1>3. g \in FifoOf(Size[q], Byte) /\ WellFormed(g)
  BY DEF GoodFifo
<1>4. \A p \in Fifos : fifo'[p] = IF p = q THEN g ELSE fifo[p]
  BY <1>2
<1>5. \A p \in Fifos : fifo'[p] \in FifoOf(Size[p], Byte)
  BY <1>1, <1>3, <1>4
<1>6. \A p \in Fifos : WellFormed(fifo'[p])
  BY <1>1, <1>3, <1>4
<1>7. DOMAIN fifo' = Fifos /\ fifo' = [p \in Fifos |-> fifo'[p]]
  BY <1>2
<1>8. Inv'
  BY <1>5, <1>6, <1>7 DEF Inv, TypeOK
<1>9. Abs' = [Abs EXCEPT ![q] = Contents(g)]
  <2>1. Abs' = [p \in Fifos |-> Contents(fifo'[p])]
    BY DEF Abs
  <2>2. [Abs EXCEPT ![q] = Contents(g)]
          = [p \in Fifos |-> IF p = q THEN Contents(g) ELSE Contents(fifo[p])]
    BY DEF Abs
  <2>3. \A p \in Fifos :
          Contents(fifo'[p]) = IF p = q THEN Contents(g) ELSE Contents(fifo[p])
    BY <1>4
  <2> QED  BY <2>1, <2>2, <2>3
<1> QED
  BY <1>8, <1>9

\* A call that appends bytes to a FIFO with room for them is a Put.
LEMMA PutStep ==
  ASSUME Inv, NEW q \in Fifos, NEW bytes, bytes \in Seq(Byte),
         Len(bytes) <= FIFO_GetFreeSpace(fifo[q]),
         NEW g, GoodFifo(g, Size[q], Byte), Contents(g) = Contents(fifo[q]) \o bytes,
         Store(q, g), UNCHANGED popped
  PROVE  Inv' /\ Queue!Put(q)
<1>1. Inv' /\ Abs' = [Abs EXCEPT ![q] = Contents(g)]
  <2>1. popped' \in Seq(Byte)
    BY DEF Inv, TypeOK
  <2> QED  BY <2>1, StoreKeepsInv
<1>2. Abs[q] = Contents(fifo[q])
  BY DEF Abs
<1>3. PICK k \in Nat : k = Len(bytes)
  BY LenProperties
<1>4. k \in 0 .. Size[q] - Len(Abs[q])
  <2>1. GoodFifo(fifo[q], Size[q], Byte) /\ Size[q] \in Nat \ {0}
    BY InvGood
  <2>2. fifo[q].maxSz = Size[q] /\ fifo[q].numItems \in 0 .. Size[q]
    BY <2>1, GoodFields
  <2>3. Len(Abs[q]) = fifo[q].numItems
    BY <1>2, <2>1, ContentsType
  <2> QED  BY <1>3, <2>1, <2>2, <2>3 DEF FIFO_GetFreeSpace
<1>5. bytes \in [1 .. k -> Byte]
  BY <1>3, LenProperties
<1>6. Abs' = [Abs EXCEPT ![q] = Abs[q] \o bytes]
  BY <1>1, <1>2
<1> QED
  BY <1>1, <1>4, <1>5, <1>6 DEF Queue!Put, Abs

\* A call that hands out and removes the c oldest bytes is a Get.
LEMMA GetStep ==
  ASSUME Inv, NEW q \in Fifos, NEW c \in Nat, c <= fifo[q].numItems,
         NEW g, GoodFifo(g, Size[q], Byte),
         Contents(g) = SubSeq(Contents(fifo[q]), c + 1, Len(Contents(fifo[q]))),
         popped' = SubSeq(Contents(fifo[q]), 1, c), Store(q, g)
  PROVE  Inv' /\ Queue!Get(q)
<1>1. GoodFifo(fifo[q], Size[q], Byte) /\ Size[q] \in Nat \ {0}
  BY InvGood
<1>2. /\ Contents(fifo[q]) \in Seq(Byte)
      /\ Len(Contents(fifo[q])) = fifo[q].numItems /\ fifo[q].numItems \in 0 .. Size[q]
  BY ONLY <1>1, ContentsType
<1>3. c \in 0 .. Len(Contents(fifo[q]))
  BY <1>2
<1>4. popped' \in Seq(Byte)
  BY <1>2, <1>3, SubSeqFromOne
<1>5. Inv' /\ Abs' = [Abs EXCEPT ![q] = Contents(g)]
  BY <1>4, StoreKeepsInv
<1>6. Abs[q] = Contents(fifo[q])
  BY DEF Abs
<1>7. /\ c \in 0 .. Len(Abs[q]) /\ popped' = SubSeq(Abs[q], 1, c)
      /\ Abs' = [Abs EXCEPT ![q] = SubSeq(Abs[q], c + 1, Len(Abs[q]))]
  BY <1>3, <1>5, <1>6
<1> QED
  BY <1>5, <1>7 DEF Queue!Get, Abs

LEMMA PushStep ==
  ASSUME Inv, NEW q \in Fifos, Push(q)
  PROVE  Inv' /\ Queue!Put(q)
<1>1. GoodFifo(fifo[q], Size[q], Byte) /\ Size[q] \in Nat \ {0}
  BY InvGood
<1>2. PICK n \in 0 .. FIFO_GetFreeSpace(fifo[q]) :
        \E bytes \in [1 .. n -> Byte] : Store(q, FIFO_Push(fifo[q], bytes)) /\ UNCHANGED popped
  BY DEF Push
<1>2a. PICK bytes \in [1 .. n -> Byte] :
         Store(q, FIFO_Push(fifo[q], bytes)) /\ UNCHANGED popped
  BY <1>2
<1>3. bytes \in Seq(Byte) /\ Len(bytes) = n
  BY SeqDef, LenProperties
<1>4. Len(bytes) <= FIFO_GetFreeSpace(fifo[q])
  <2>1. fifo[q].maxSz = Size[q] /\ fifo[q].numItems \in 0 .. Size[q]
    BY ONLY <1>1, GoodFields
  <2> QED  BY <1>1, <1>3, <2>1 DEF FIFO_GetFreeSpace
<1>5. /\ GoodFifo(FIFO_Push(fifo[q], bytes), Size[q], Byte)
      /\ Contents(FIFO_Push(fifo[q], bytes)) = Contents(fifo[q]) \o bytes
  <2>1. bytes \in Seq(Byte)
    BY <1>3
  <2> QED  BY ONLY <1>1, <1>4, <2>1, PushAppends
<1> QED
  BY <1>2a, <1>3, <1>4, <1>5, PutStep

\* One run of bytes at the write cursor, written in place or by FIFO_PushOne.
LEMMA RunStep ==
  ASSUME Inv, NEW q \in Fifos, NEW bytes, bytes \in Seq(Byte),
         Len(bytes) <= FIFO_GetOneShotWriteSize(fifo[q]),
         Store(q, PushRun(fifo[q], bytes)), UNCHANGED popped
  PROVE  Inv' /\ Queue!Put(q)
<1>1. GoodFifo(fifo[q], Size[q], Byte) /\ Size[q] \in Nat \ {0}
  BY InvGood
<1>2. PICK in \in 0 .. Size[q] - 1, num \in 0 .. Size[q] :
        fifo[q].maxSz = Size[q] /\ fifo[q].in = in /\ fifo[q].numItems = num
  BY ONLY <1>1, GoodFields
<1>3. PICK k \in Nat : k = Len(bytes)
  BY LenProperties
<1>4. k <= Size[q] - in /\ k <= Size[q] - num
  BY <1>1, <1>2, <1>3 DEF FIFO_GetOneShotWriteSize, FIFO_GetFreeSpace, MinOf
<1>5. Len(bytes) <= Size[q] - fifo[q].in /\ Len(bytes) <= Size[q] - fifo[q].numItems
  BY <1>2, <1>3, <1>4
<1>6. /\ GoodFifo(PushRun(fifo[q], bytes), Size[q], Byte)
      /\ Contents(PushRun(fifo[q], bytes)) = Contents(fifo[q]) \o bytes
  BY ONLY <1>1, bytes \in Seq(Byte), <1>5, PushRunAppends
<1>7. Len(bytes) <= FIFO_GetFreeSpace(fifo[q])
  BY <1>2, <1>5 DEF FIFO_GetFreeSpace
<1> QED
  BY <1>6, <1>7, PutStep

LEMMA PushOneStep ==
  ASSUME Inv, NEW q \in Fifos, PushOne(q)
  PROVE  Inv' /\ Queue!Put(q)
<1>1. GoodFifo(fifo[q], Size[q], Byte) /\ Size[q] \in Nat \ {0}
  BY InvGood
<1>2. PICK in \in 0 .. Size[q] - 1, num \in 0 .. Size[q] :
        fifo[q].maxSz = Size[q] /\ fifo[q].in = in /\ fifo[q].numItems = num
  BY ONLY <1>1, GoodFields
<1>3. PICK b \in Byte : Store(q, PushRun(fifo[q], <<b>>)) /\ UNCHANGED popped
  BY DEF PushOne, FIFO_PushOne
<1>4. 1 <= FIFO_GetOneShotWriteSize(fifo[q])
  BY <1>1, <1>2 DEF PushOne, FIFO_GetOneShotWriteSize, FIFO_GetFreeSpace, MinOf
<1>5. <<b>> \in Seq(Byte) /\ Len(<<b>>) = 1
  OBVIOUS
<1> QED
  BY <1>3, <1>4, <1>5, RunStep

LEMMA WriteInPlaceStep ==
  ASSUME Inv, NEW q \in Fifos, WriteInPlace(q)
  PROVE  Inv' /\ Queue!Put(q)
<1>1. GoodFifo(fifo[q], Size[q], Byte) /\ Size[q] \in Nat \ {0}
  BY InvGood
<1>2. PICK n \in 0 .. FIFO_GetOneShotWriteSize(fifo[q]) :
        \E bytes \in [1 .. n -> Byte] : Store(q, PushRun(fifo[q], bytes)) /\ UNCHANGED popped
  BY DEF WriteInPlace
<1>2a. PICK bytes \in [1 .. n -> Byte] :
         Store(q, PushRun(fifo[q], bytes)) /\ UNCHANGED popped
  BY <1>2
<1>3. bytes \in Seq(Byte) /\ Len(bytes) = n
  BY SeqDef, LenProperties
<1>4. Len(bytes) <= FIFO_GetOneShotWriteSize(fifo[q])
  <2>1. PICK in \in 0 .. Size[q] - 1, num \in 0 .. Size[q] :
          fifo[q].maxSz = Size[q] /\ fifo[q].in = in /\ fifo[q].numItems = num
    BY ONLY <1>1, GoodFields
  <2>2. FIFO_GetOneShotWriteSize(fifo[q]) \in Nat
    BY <1>1, <2>1 DEF FIFO_GetOneShotWriteSize, FIFO_GetFreeSpace, MinOf
  <2> QED  BY <1>3, <2>2
<1> QED
  BY <1>2a, <1>3, <1>4, RunStep

LEMMA PopStep ==
  ASSUME Inv, NEW q \in Fifos, Pop(q)
  PROVE  Inv' /\ Queue!Get(q)
<1>1. GoodFifo(fifo[q], Size[q], Byte) /\ Size[q] \in Nat \ {0}
  BY InvGood
<1>2. PICK c \in 0 .. FIFO_GetCount(fifo[q]) :
        popped' = FIFO_PopBytes(fifo[q], c) /\ Store(q, FIFO_Pop(fifo[q], c))
  BY DEF Pop
<1>3. c \in Nat /\ c <= fifo[q].numItems
  <2>1. fifo[q].numItems \in 0 .. Size[q]
    BY ONLY <1>1, GoodFields
  <2> QED  BY <2>1 DEF FIFO_GetCount
<1>4. /\ GoodFifo(FIFO_Pop(fifo[q], c), Size[q], Byte)
      /\ FIFO_PopBytes(fifo[q], c) = SubSeq(Contents(fifo[q]), 1, c)
      /\ Contents(FIFO_Pop(fifo[q], c))
           = SubSeq(Contents(fifo[q]), c + 1, Len(Contents(fifo[q])))
  BY ONLY <1>1, <1>3, PopRemoves
<1> QED
  BY <1>2, <1>3, <1>4, GetStep

\* The read cursor moved over one run, read in place or by FIFO_PopOne.
LEMMA ReadRunStep ==
  ASSUME Inv, NEW q \in Fifos, NEW c \in Nat, c <= FIFO_GetOneShotReadSize(fifo[q]),
         popped' = CopyOut(fifo[q].ptr, fifo[q].out, c),
         Store(q, FIFO_IncrementOutPtr(fifo[q], c))
  PROVE  Inv' /\ Queue!Get(q)
<1>1. GoodFifo(fifo[q], Size[q], Byte) /\ Size[q] \in Nat \ {0}
  BY InvGood
<1>2. PICK out \in 0 .. Size[q] - 1, num \in 0 .. Size[q] :
        fifo[q].maxSz = Size[q] /\ fifo[q].out = out /\ fifo[q].numItems = num
  BY ONLY <1>1, GoodFields
<1>3. c <= Size[q] - fifo[q].out /\ c <= fifo[q].numItems
  BY <1>1, <1>2 DEF FIFO_GetOneShotReadSize, FIFO_GetCount, MinOf
<1>4. /\ GoodFifo(FIFO_IncrementOutPtr(fifo[q], c), Size[q], Byte)
      /\ CopyOut(fifo[q].ptr, fifo[q].out, c) = SubSeq(Contents(fifo[q]), 1, c)
      /\ Contents(FIFO_IncrementOutPtr(fifo[q], c))
           = SubSeq(Contents(fifo[q]), c + 1, Len(Contents(fifo[q])))
  BY ONLY <1>1, <1>3, c \in Nat, PopRunRemoves
<1> QED
  BY <1>3, <1>4, GetStep

LEMMA PopOneStep ==
  ASSUME Inv, NEW q \in Fifos, PopOne(q)
  PROVE  Inv' /\ Queue!Get(q)
<1>1. GoodFifo(fifo[q], Size[q], Byte) /\ Size[q] \in Nat \ {0}
  BY InvGood
<1>2. PICK out \in 0 .. Size[q] - 1, num \in 0 .. Size[q] :
        fifo[q].maxSz = Size[q] /\ fifo[q].out = out /\ fifo[q].numItems = num
  BY ONLY <1>1, GoodFields
<1>3. 1 <= FIFO_GetOneShotReadSize(fifo[q])
  BY <1>1, <1>2 DEF PopOne, FIFO_GetOneShotReadSize, FIFO_GetCount, MinOf
<1> QED
  BY <1>3, ReadRunStep DEF PopOne

LEMMA ReadInPlaceStep ==
  ASSUME Inv, NEW q \in Fifos, ReadInPlace(q)
  PROVE  Inv' /\ Queue!Get(q)
<1>1. GoodFifo(fifo[q], Size[q], Byte) /\ Size[q] \in Nat \ {0}
  BY InvGood
<1>2. PICK out \in 0 .. Size[q] - 1, num \in 0 .. Size[q] :
        fifo[q].maxSz = Size[q] /\ fifo[q].out = out /\ fifo[q].numItems = num
  BY ONLY <1>1, GoodFields
<1>3. FIFO_GetOneShotReadSize(fifo[q]) \in Nat
  BY <1>1, <1>2 DEF FIFO_GetOneShotReadSize, FIFO_GetCount, MinOf
<1> QED
  BY <1>3, ReadRunStep DEF ReadInPlace

LEMMA ClearStep ==
  ASSUME Inv, NEW q \in Fifos, Clear(q)
  PROVE  Inv' /\ Queue!Empty(q)
<1>1. GoodFifo(fifo[q], Size[q], Byte) /\ Size[q] \in Nat \ {0}
  BY InvGood
<1>2. PICK g : g = FIFO_Clear(fifo[q])
  OBVIOUS
<1>3. g \in FifoOf(Size[q], Byte) /\ g.in = 0 /\ g.out = 0 /\ g.numItems = 0 /\ g.maxSz = Size[q]
  <2>1. PICK h : h = [fifo[q] EXCEPT !.in = 0]
    OBVIOUS
  <2>2. h \in FifoOf(Size[q], Byte) /\ h.in = 0
    BY <1>1, <2>1 DEF GoodFifo, FifoOf
  <2>3. PICK k : k = [h EXCEPT !.out = 0]
    OBVIOUS
  <2>4. k \in FifoOf(Size[q], Byte) /\ k.in = 0 /\ k.out = 0
    BY <1>1, <2>2, <2>3 DEF FifoOf
  <2>5. g = [k EXCEPT !.numItems = 0]
    BY <1>2, <2>1, <2>3 DEF FIFO_Clear
  <2> QED  BY <1>1, <2>4, <2>5 DEF FifoOf
<1>4. GoodFifo(g, Size[q], Byte)
  <2>1. WellFormed(g)
    BY <1>1, <1>3 DEF WellFormed, Slot, Wrap
  <2> QED  BY <1>3, <2>1 DEF GoodFifo
<1>5. Contents(g) = <<>>
  BY <1>3 DEF Contents
<1>6. popped' \in Seq(Byte) /\ Store(q, g) /\ UNCHANGED popped
  BY <1>2 DEF Clear, Inv, TypeOK
<1>7. Inv' /\ Abs' = [Abs EXCEPT ![q] = Contents(g)]
  BY <1>4, <1>6, StoreKeepsInv
<1> QED
  BY <1>5, <1>6, <1>7 DEF Queue!Empty, Abs

LEMMA CopyStep ==
  ASSUME Inv, NEW dst \in Fifos, NEW src \in Fifos, Copy(dst, src)
  PROVE  Inv' /\ Queue!Transfer(dst, src)
<1>1. /\ GoodFifo(fifo[dst], Size[dst], Byte) /\ Size[dst] \in Nat \ {0}
      /\ GoodFifo(fifo[src], Size[src], Byte) /\ Size[src] \in Nat \ {0}
  BY InvGood
<1>2. PICK d : d = fifo[dst]
  OBVIOUS
<1>3. PICK s : s = fifo[src]
  OBVIOUS
<1>4. PICK c \in 0 .. FIFO_GetCount(s) :
        /\ CopyFits(d, s, c)
        /\ fifo' = [fifo EXCEPT ![dst] = CopyDst(d, s, c), ![src] = CopySrc(s, c)]
  BY <1>2, <1>3 DEF Copy
<1>5. dst # src /\ UNCHANGED popped
  BY DEF Copy
<1>6. /\ s.numItems \in 0 .. Size[src] /\ d.numItems \in 0 .. Size[dst]
      /\ d.maxSz = Size[dst]
  BY <1>1, <1>2, <1>3, GoodFields
<1>7. c \in Nat /\ c <= s.numItems
  BY <1>4, <1>6 DEF FIFO_GetCount
<1>8. /\ GoodFifo(CopyDst(d, s, c), Size[dst], Byte)
      /\ GoodFifo(CopySrc(s, c), Size[src], Byte)
      /\ Contents(CopyDst(d, s, c)) = Contents(d) \o SubSeq(Contents(s), 1, c)
      /\ Contents(CopySrc(s, c)) = SubSeq(Contents(s), c + 1, Len(Contents(s)))
  <2>1. /\ Size[dst] \in Nat \ {0} /\ Size[src] \in Nat \ {0}
        /\ GoodFifo(d, Size[dst], Byte) /\ GoodFifo(s, Size[src], Byte)
        /\ c \in Nat /\ CopyFits(d, s, c)
    BY <1>1, <1>2, <1>3, <1>4, <1>7
  <2> QED  BY ONLY <2>1, CopyMoves
<1>9. PICK g : g = CopyDst(d, s, c)
  OBVIOUS
<1>10. PICK h : h = CopySrc(s, c)
  OBVIOUS
<1>11. PICK mid : mid = [fifo EXCEPT ![dst] = g]
  OBVIOUS
<1>12. /\ DOMAIN fifo = Fifos /\ fifo = [p \in Fifos |-> fifo[p]]
       /\ \A p \in Fifos : fifo[p] \in FifoOf(Size[p], Byte) /\ WellFormed(fifo[p])
       /\ popped \in Seq(Byte)
  BY DEF Inv, TypeOK
<1>13. fifo' = [p \in Fifos |-> IF p = src THEN h ELSE IF p = dst THEN g ELSE fifo[p]]
  BY <1>4, <1>5, <1>9, <1>10, <1>12
<1>14. /\ g \in FifoOf(Size[dst], Byte) /\ WellFormed(g)
       /\ h \in FifoOf(Size[src], Byte) /\ WellFormed(h)
  BY <1>8, <1>9, <1>10 DEF GoodFifo
<1>15. \A p \in Fifos :
         fifo'[p] = IF p = src THEN h ELSE IF p = dst THEN g ELSE fifo[p]
  BY <1>13
<1>16. Inv'
  <2>1. \A p \in Fifos : fifo'[p] \in FifoOf(Size[p], Byte) /\ WellFormed(fifo'[p])
    BY <1>12, <1>14, <1>15
  <2>2. DOMAIN fifo' = Fifos /\ fifo' = [p \in Fifos |-> fifo'[p]]
    BY <1>13
  <2> QED  BY <1>5, <1>12, <2>1, <2>2 DEF Inv, TypeOK
<1>17. Abs' = [Abs EXCEPT ![dst] = Abs[dst] \o SubSeq(Abs[src], 1, c),
                          ![src] = SubSeq(Abs[src], c + 1, Len(Abs[src]))]
  <2>1. Abs[dst] = Contents(d) /\ Abs[src] = Contents(s)
    BY <1>2, <1>3 DEF Abs
  <2>2. Abs' = [p \in Fifos |-> Contents(fifo'[p])]
    BY DEF Abs
  <2>3. \A p \in Fifos : Contents(fifo'[p]) = IF p = src THEN Contents(h)
                                              ELSE IF p = dst THEN Contents(g)
                                              ELSE Contents(fifo[p])
    BY <1>15
  <2>4. [Abs EXCEPT ![dst] = Contents(g), ![src] = Contents(h)]
          = [p \in Fifos |-> IF p = src THEN Contents(h)
                             ELSE IF p = dst THEN Contents(g) ELSE Contents(fifo[p])]
    BY <1>5 DEF Abs
  <2>5. Abs' = [Abs EXCEPT ![dst] = Contents(g), ![src] = Contents(h)]
    BY <2>2, <2>3, <2>4
  <2> QED  BY <1>8, <1>9, <1>10, <2>1, <2>5
<1>18. c \in 0 .. Len(Abs[src]) /\ Len(Abs[dst]) + c <= Size[dst]
  <2>1. Len(Abs[src]) = s.numItems /\ Len(Abs[dst]) = d.numItems
    BY <1>1, <1>2, <1>3, ContentsType DEF Abs
  <2> QED  BY <1>1, <1>4, <1>6, <1>7, <2>1 DEF CopyFits, FIFO_GetFreeSpace
<1> QED
  BY <1>5, <1>16, <1>17, <1>18 DEF Queue!Transfer, Abs

-----------------------------------------------------------------------------
LEMMA InitInv == Init => Inv /\ Queue!Init
<1> SUFFICES ASSUME Init PROVE Inv /\ Queue!Init
  OBVIOUS
<1>1. PICK mem : /\ \A q \in Fifos : mem[q] \in [0 .. Size[q] - 1 -> Byte]
                 /\ fifo = [q \in Fifos |-> FIFO_Init(mem[q], Size[q])]
  BY DEF Init
<1>2. popped = <<>> /\ popped \in Seq(Byte)
  BY DEF Init
<1>3. ASSUME NEW q \in Fifos
      PROVE  /\ fifo[q] \in FifoOf(Size[q], Byte) /\ WellFormed(fifo[q])
             /\ Contents(fifo[q]) = <<>>
  <2>1. Size[q] \in Nat \ {0} /\ fifo[q] = FIFO_Init(mem[q], Size[q])
    BY <1>1, SizeAssumption
  <2>2. fifo[q] \in FifoOf(Size[q], Byte)
    BY <1>1, <2>1 DEF FIFO_Init, FifoOf
  <2>3. fifo[q].maxSz = Size[q] /\ fifo[q].in = 0 /\ fifo[q].out = 0 /\ fifo[q].numItems = 0
    BY <2>1 DEF FIFO_Init
  <2>4. WellFormed(fifo[q])
    BY <2>1, <2>3 DEF WellFormed, Slot, Wrap
  <2>5. Contents(fifo[q]) = <<>>
    BY <2>3 DEF Contents
  <2> QED  BY <2>2, <2>4, <2>5
<1>4. Inv
  BY <1>1, <1>2, <1>3 DEF Inv, TypeOK
<1>5. Queue!Init
  BY <1>2, <1>3 DEF Queue!Init
<1> QED
  BY <1>4, <1>5

\* Every call preserves the invariant, and is a step of the abstract queues.
LEMMA StepInv == Inv /\ [Next]_vars => Inv' /\ [Queue!Next]_(Queue!vars)
<1> SUFFICES ASSUME Inv, [Next]_vars
             PROVE  Inv' /\ [Queue!Next]_(Queue!vars)
  OBVIOUS
<1>1. ASSUME NEW q \in Fifos, Push(q) PROVE Inv' /\ Queue!Next
  BY <1>1, PushStep DEF Queue!Next
<1>2. ASSUME NEW q \in Fifos, PushOne(q) PROVE Inv' /\ Queue!Next
  BY <1>2, PushOneStep DEF Queue!Next
<1>3. ASSUME NEW q \in Fifos, WriteInPlace(q) PROVE Inv' /\ Queue!Next
  BY <1>3, WriteInPlaceStep DEF Queue!Next
<1>4. ASSUME NEW q \in Fifos, Pop(q) PROVE Inv' /\ Queue!Next
  BY <1>4, PopStep DEF Queue!Next
<1>5. ASSUME NEW q \in Fifos, PopOne(q) PROVE Inv' /\ Queue!Next
  BY <1>5, PopOneStep DEF Queue!Next
<1>6. ASSUME NEW q \in Fifos, ReadInPlace(q) PROVE Inv' /\ Queue!Next
  BY <1>6, ReadInPlaceStep DEF Queue!Next
<1>7. ASSUME NEW q \in Fifos, Clear(q) PROVE Inv' /\ Queue!Next
  BY <1>7, ClearStep DEF Queue!Next
<1>8. ASSUME NEW dst \in Fifos, NEW src \in Fifos, Copy(dst, src)
      PROVE  Inv' /\ Queue!Next
  BY <1>8, CopyStep DEF Queue!Next
<1>9. CASE UNCHANGED vars
  BY <1>9 DEF vars, Inv, TypeOK, Queue!vars
<1> QED
  BY <1>1, <1>2, <1>3, <1>4, <1>5, <1>6, <1>7, <1>8, <1>9 DEF Next

-----------------------------------------------------------------------------
\* Whatever the sizes, the byte values and the order of the calls, the cursors
\* of every FIFO stay inside its memory and agree with its count.
THEOREM InvHolds == Spec => []Inv
<1>1. Init => Inv
  BY InitInv
<1>2. Inv /\ [Next]_vars => Inv'
  BY StepInv
<1> QED
  BY <1>1, <1>2, PTL DEF Spec

\* The debug trap of FIFO_InspectPtrs (fifo.h:38-54) can never be reached.
THEOREM CursorsAgreeHolds == Spec => []CursorsAgree
<1>1. Inv => CursorsAgree
  BY InvGood, GoodPassesInspection DEF CursorsAgree
<1> QED
  BY <1>1, InvHolds, PTL

\* The FIFOs implement bounded first-in first-out queues.
THEOREM Refinement == Spec => ImplementsQueue
<1>1. Init => Queue!Init
  BY InitInv
<1>2. Inv /\ [Next]_vars => [Queue!Next]_(Queue!vars)
  BY StepInv
<1> QED
  BY <1>1, <1>2, InvHolds, PTL DEF Spec, Queue!Spec, ImplementsQueue
=============================================================================
