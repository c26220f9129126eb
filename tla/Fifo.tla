--------------------------------- MODULE Fifo ---------------------------------
(***************************************************************************)
(* A program that uses the FIFOs of inc/fifo.h the way this library does:  *)
(* it checks the free space before it pushes and the count before it pops, *)
(* and it drains the transmit FIFO in place, through FIFO_GetReadPtr,      *)
(* FIFO_GetOneShotReadSize and FIFO_IncrementOutPtr.                       *)
(*                                                                         *)
(* Cursors are unsigned int in the code.  With maxSz = 4096 no sum here    *)
(* reaches 2^32, so they are plain numbers.                                *)
(***************************************************************************)
EXTENDS FifoOps

CONSTANTS
  Fifos,   (* the FIFOs of the program                   *)
  Byte,    (* the values a byte takes                    *)
  Size     (* Size[q]: the size of the buffer given to q *)

ASSUME SizeAssumption == Size \in [Fifos -> Nat \ {0}]

VARIABLES
  fifo,    (* fifo[q]: the fifo_t of q                         *)
  popped   (* what the last reading call handed to its caller  *)

vars == <<fifo, popped>>

\* FIFO_Init gets memory the caller did not clear.
Init ==
  /\ \E mem \in [Fifos -> UNION {[0 .. Size[q] - 1 -> Byte] : q \in Fifos}] :
       /\ \A q \in Fifos : mem[q] \in [0 .. Size[q] - 1 -> Byte]
       /\ fifo = [q \in Fifos |-> FIFO_Init(mem[q], Size[q])]
  /\ popped = <<>>

Store(q, f) == fifo' = [fifo EXCEPT ![q] = f]

Push(q) ==
  \E n \in 0 .. FIFO_GetFreeSpace(fifo[q]) : \E bytes \in [1 .. n -> Byte] :
    /\ Store(q, FIFO_Push(fifo[q], bytes))
    /\ UNCHANGED popped

PushOne(q) ==
  /\ FIFO_GetFreeSpace(fifo[q]) > 0
  /\ \E b \in Byte : Store(q, FIFO_PushOne(fifo[q], b))
  /\ UNCHANGED popped

\* Bytes written in place at FIFO_GetWritePtr, then the cursor moved.
WriteInPlace(q) ==
  \E n \in 0 .. FIFO_GetOneShotWriteSize(fifo[q]) : \E bytes \in [1 .. n -> Byte] :
    /\ Store(q, PushRun(fifo[q], bytes))
    /\ UNCHANGED popped

Pop(q) ==
  \E n \in 0 .. FIFO_GetCount(fifo[q]) :
    /\ popped' = FIFO_PopBytes(fifo[q], n)
    /\ Store(q, FIFO_Pop(fifo[q], n))

\* FIFO_PopOne reads the byte at the read cursor, then moves the cursor by one.
PopOne(q) ==
  /\ FIFO_GetCount(fifo[q]) > 0
  /\ popped' = CopyOut(fifo[q].ptr, fifo[q].out, 1)
  /\ Store(q, FIFO_IncrementOutPtr(fifo[q], 1))

\* What neoRADIO2GetNewData does with the transmit FIFO: hand out a run of
\* bytes in place, then move the read cursor by as many as were accepted.
ReadInPlace(q) ==
  \E n \in 0 .. FIFO_GetOneShotReadSize(fifo[q]) :
    /\ popped' = CopyOut(fifo[q].ptr, fifo[q].out, n)
    /\ Store(q, FIFO_IncrementOutPtr(fifo[q], n))

Clear_keepCount(q) ==
  Store(q, [fifo[q] EXCEPT !.in = 0, !.out = 0]) /\ UNCHANGED popped
Clear(q) == Store(q, FIFO_Clear(fifo[q])) /\ UNCHANGED popped

Copy(dst, src) ==
  /\ dst # src
  /\ \E n \in 0 .. FIFO_GetCount(fifo[src]) :
       /\ CopyFits(fifo[dst], fifo[src], n)
       /\ fifo' = [fifo EXCEPT ![dst] = CopyDst(fifo[dst], fifo[src], n),
                               ![src] = CopySrc(fifo[src], n)]
  /\ UNCHANGED popped

Next ==
  \/ \E q \in Fifos : \/ Push(q) \/ PushOne(q) \/ WriteInPlace(q)
                      \/ Pop(q) \/ PopOne(q) \/ ReadInPlace(q) \/ Clear(q)
  \/ \E dst, src \in Fifos : Copy(dst, src)

Spec == Init /\ [][Next]_vars

-----------------------------------------------------------------------------
\* Type correctness: every fifo_t keeps its memory and size, its cursors stay
\* inside the memory and its count between 0 and maxSz (fifo.h:56-80).
TypeOK ==
  /\ DOMAIN fifo = Fifos
  /\ \A q \in Fifos : fifo[q] \in FifoOf(Size[q], Byte)
  /\ popped \in Seq(Byte)

\* The inductive invariant behind the properties below: besides the types, the
\* two cursors and the count of a FIFO never disagree.
Inv ==
  /\ TypeOK
  /\ fifo = [q \in Fifos |-> fifo[q]]
  /\ \A q \in Fifos : WellFormed(fifo[q])

\* The trap of FIFO_InspectPtrs (fifo.h:38-54, "make sure every push/pop is
\* valid") is never taken, whatever sequence of calls comes before.
CursorsAgree == \A q \in Fifos : InspectPtrs(fifo[q])

\* Seen through Contents, the FIFOs are bounded queues: bytes come out in the
\* order they went in, none lost, duplicated or overwritten, across every
\* wrap of either cursor and every split copy.
Queue == INSTANCE ByteQueue WITH
           Queues <- Fifos, Capacity <- Size,
           queue <- [q \in Fifos |-> Contents(fifo[q])], taken <- popped
ImplementsQueue == Queue!Spec
=============================================================================
