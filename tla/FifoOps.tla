------------------------------- MODULE FifoOps -------------------------------
(***************************************************************************)
(* The embedded FIFO of inc/fifo.h and src/fifo.c as operators on a value  *)
(* of type fifo_t: a record with the memory `ptr' (indices 0..maxSz-1),    *)
(* the write cursor `in', the read cursor `out' and the item count.  Each  *)
(* operator returns the fifo_t the C function leaves behind.  The build    *)
(* uses the inline push and pop (INLINE_FIFO_PUSH_POP is defined).         *)
(***************************************************************************)
EXTENDS Integers, Sequences

\* A fifo_t over the memory of a caller's buffer, as FIFO_Init leaves it: the
\* memory itself is not touched.
FIFO_Init(buffer, sz) ==
  [ptr |-> buffer, maxSz |-> sz, in |-> 0, out |-> 0, numItems |-> 0]

FIFO_Clear(f) == [f EXCEPT !.in = 0, !.out = 0, !.numItems = 0]

\* One conditional subtraction, not a modulo: right only for x < 2 * n.
Wrap(n, x) == IF x >= n THEN x - n ELSE x

FIFO_IncrementInPtr_nowrap(f, c) == [f EXCEPT !.in = @ + c, !.numItems = @ + c]
FIFO_IncrementInPtr(f, c) ==
  [f EXCEPT !.in = Wrap(f.maxSz, f.in + c), !.numItems = @ + c]

FIFO_IncrementOutPtr_strict(f, c) ==
  [f EXCEPT !.out = IF @ + c > f.maxSz THEN @ + c - f.maxSz ELSE @ + c,
            !.numItems = @ - c]
FIFO_IncrementOutPtr(f, c) ==
  [f EXCEPT !.out = Wrap(f.maxSz, f.out + c), !.numItems = @ - c]

FIFO_GetFreeSpace(f) == f.maxSz - f.numItems

FIFO_GetCount(f) == f.numItems

MinOf(a, b) == IF a > b THEN b ELSE a

FIFO_GetOneShotWriteSize(f) == MinOf(f.maxSz - f.in, FIFO_GetFreeSpace(f))

FIFO_GetOneShotReadSize(f) == MinOf(f.maxSz - f.out, FIFO_GetCount(f))

\* memcpy of `bytes' into the memory from index `at' on.
CopyIn(ptr, at, bytes) ==
  [i \in DOMAIN ptr |->
     IF i \in at .. at + Len(bytes) - 1 THEN bytes[i - at + 1] ELSE ptr[i]]

\* The n bytes of the memory from index `at' on.
CopyOut(ptr, at, n) == [i \in 1 .. n |-> ptr[at + i - 1]]

\* One memcpy to IN_PTR and the cursor update that follows it.
PushRun(f, bytes) ==
  FIFO_IncrementInPtr([f EXCEPT !.ptr = CopyIn(@, f.in, bytes)], Len(bytes))

\* FIFO_Push: up to the end of the memory, then the rest from its start.
FIFO_Push_oneRun(f, bytes) == PushRun(f, bytes)
FIFO_Push(f, bytes) ==
  LET copySz == MinOf(Len(bytes), f.maxSz - f.in)
      first  == PushRun(f, SubSeq(bytes, 1, copySz))
  IN  IF Len(bytes) > copySz
      THEN PushRun(first, SubSeq(bytes, copySz + 1, Len(bytes)))
      ELSE first

\* FIFO_Pop: what it writes to the caller's array and the FIFO it leaves.
FIFO_PopBytes(f, n) ==
  LET copySz == MinOf(n, f.maxSz - f.out)
      first  == FIFO_IncrementOutPtr(f, copySz)
  IN  CopyOut(f.ptr, f.out, copySz) \o CopyOut(f.ptr, first.out, n - copySz)

FIFO_Pop(f, n) ==
  LET copySz == MinOf(n, f.maxSz - f.out)
      first  == FIFO_IncrementOutPtr(f, copySz)
  IN  IF n > copySz THEN FIFO_IncrementOutPtr(first, n - copySz) ELSE first

FIFO_PushOne(f, b) == PushRun(f, <<b>>)

\* FIFO_Copy returns 0 and changes nothing when this does not hold.
CopyFits(dst, src, n) == FIFO_GetFreeSpace(dst) >= n /\ FIFO_GetCount(src) >= n

\* The destination of FIFO_Copy: one push, or two when the source wraps.
CopyDst(dst, src, n) ==
  LET sz == FIFO_GetOneShotReadSize(src)
      g  == FIFO_IncrementOutPtr(src, sz)
  IN  IF sz >= n THEN FIFO_Push(dst, CopyOut(src.ptr, src.out, n))
      ELSE FIFO_Push(FIFO_Push(dst, CopyOut(src.ptr, src.out, sz)),
                     CopyOut(src.ptr, g.out, n - sz))

\* The source of FIFO_Copy.
CopySrc(src, n) ==
  LET sz == FIFO_GetOneShotReadSize(src)
  IN  IF sz >= n THEN FIFO_IncrementOutPtr(src, n)
      ELSE FIFO_IncrementOutPtr(FIFO_IncrementOutPtr(src, sz), n - sz)

-----------------------------------------------------------------------------
(***************************************************************************)
(* What a fifo_t stands for.                                               *)
(***************************************************************************)

\* Index of the i-th oldest byte (i from 0).
Slot(f, i) == Wrap(f.maxSz, f.out + i)

\* The stored bytes, oldest first.
Contents(f) == [i \in 1 .. f.numItems |-> f.ptr[Slot(f, i - 1)]]

\* The fifo_t values over a memory of n bytes: both cursors inside the memory,
\* at most n items.
FifoOf(n, Byte) ==
  [ptr : [0 .. n - 1 -> Byte], maxSz : {n}, in : 0 .. n - 1, out : 0 .. n - 1,
   numItems : 0 .. n]

\* The write cursor is the read cursor plus the count, around the memory's end.
WellFormed(f) == f.in = Slot(f, f.numItems)

\* The check FIFO_InspectPtrs makes after every cursor update when
\* FIFO_INSPECT_PTRS is defined; it traps when this is false.
InspectPtrs(f) ==
  LET expectedCount ==
        IF f.in >= f.out
        THEN IF f.numItems = f.maxSz THEN f.maxSz ELSE f.in - f.out
        ELSE (f.maxSz - f.out) + f.in
  IN  expectedCount = f.numItems
=============================================================================
