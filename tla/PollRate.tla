------------------------------- MODULE PollRate -------------------------------
(***************************************************************************)
(* How full txfifo gets while a chain is polled: every tick that does not  *)
(* fail sends one report out of txfifo and then queues a READ_DATA packet  *)
(* for some of the devices.  neoRADIO2ProcessConnectedState does not look  *)
(* at the result of neoRADIO2SendPacket, so a packet that did not fit      *)
(* would leave marks of questions that were never asked.  Only the cursor  *)
(* and the count of txfifo matter, and they have their real sizes.         *)
(***************************************************************************)
EXTENDS Integers, TLAPS

TxSize == 4096     \* NEORADIO2_TX_BUFFER_SIZE
MaxTxReport == 59  \* the bytes a report takes
PacketSize == 6    \* a packet without data: the header and the CRC
MaxDevices == 8    \* the slots of ChainList
Backlog == 64      \* what may be left in txfifo when the state is reached

VARIABLES out, numItems   (* of txfifo *)

vars == <<out, numItems>>

MinOf(a, b) == IF a > b THEN b ELSE a

\* FIFO_GetOneShotReadSize, at most a report.
TransmitSize == MinOf(MinOf(TxSize - out, numItems), MaxTxReport)

Init == out \in 0 .. TxSize - 1 /\ numItems \in 0 .. Backlog

\* neoRADIO2SendPacket for n devices, as many as fit.
Fitting(n, free) == MinOf(n, free \div PacketSize)

\* A tick: a whole report is taken, then packets for n devices are queued.
Tick(n) ==
  LET left == numItems - TransmitSize
  IN  /\ out' = IF out + TransmitSize >= TxSize THEN out + TransmitSize - TxSize
                ELSE out + TransmitSize
      /\ numItems' = left + PacketSize * Fitting(n, TxSize - left)

Next == \E n \in 0 .. MaxDevices : Tick(n)

Spec == Init /\ [][Next]_vars

-----------------------------------------------------------------------------
\* Polls never pile up, though a report ends where txfifo's memory ends and may
\* so be as short as one byte: at most two reports' worth is ever queued, and so
\* every packet of the next tick finds room (PacketHandler.c:74-78, 199).
NoPileUp == numItems <= 2 * MaxTxReport

-----------------------------------------------------------------------------
(* The proof.  A full report takes 59 bytes and a tick queues 48 at most, so  *)
(* txfifo gains only in the tick whose report is cut short by the end of the  *)
(* memory.  After that tick out is 0, and 4096 bytes, 69 full reports, must   *)
(* go out before it happens again.  Behind it the backlog sinks by 11 bytes   *)
(* with every 59 that out moves on, until it is so small that it is sent in   *)
(* one report: Sinking draws this line.                                       *)
(******************************************************************************)
Sinking == numItems <= 64 \/ 59 * (numItems - 112) <= -(11 * out)

IInv == out \in 0 .. TxSize - 1 /\ numItems \in Nat /\ Sinking

\* Eight packets at most are queued in a tick, and no negative number.
LEMMA FittingBound ==
  ASSUME NEW n \in 0 .. MaxDevices, NEW free \in Nat
  PROVE  Fitting(n, free) \in 0 .. MaxDevices
  BY DEF Fitting, MinOf, MaxDevices, PacketSize

\* The line starts at 112 where out is 0, and falls from there.
LEMMA IInvBound == IInv => numItems \in 0 .. 112
<1> SUFFICES ASSUME IInv PROVE numItems \in 0 .. 112
  OBVIOUS
<1>1. out \in Nat /\ numItems \in Nat
  BY DEF IInv, TxSize
<1>2. CASE 59 * (numItems - 112) <= -(11 * out)
  BY <1>1, <1>2
<1>3. CASE numItems <= 64
  BY <1>1, <1>3
<1> QED BY <1>2, <1>3 DEF IInv, Sinking

LEMMA IInvInit == Init => IInv
  BY DEF Init, IInv, Sinking, TxSize, Backlog

LEMMA IInvNext == IInv /\ [Next]_vars => IInv'
<1> SUFFICES ASSUME IInv, [Next]_vars PROVE IInv'
  OBVIOUS
<1>1. CASE UNCHANGED vars
  BY <1>1 DEF IInv, Sinking, vars
<1>2. CASE Next
  <2>1. PICK n \in 0 .. MaxDevices : Tick(n)
    BY <1>2 DEF Next
  <2> DEFINE sent == TransmitSize
             left == numItems - sent
             new  == PacketSize * Fitting(n, TxSize - left)
  <2>2. /\ out \in 0 .. 4095 /\ numItems \in 0 .. 112
        /\ numItems <= 64 \/ 59 * (numItems - 112) <= -(11 * out)
    BY IInvBound DEF IInv, Sinking, TxSize
  <2>3. /\ sent \in 0 .. 59 /\ sent <= numItems /\ sent <= 4096 - out
        /\ sent = 59 \/ sent = numItems \/ sent = 4096 - out
    BY <2>2 DEF TransmitSize, MinOf, TxSize, MaxTxReport
  <2> HIDE DEF sent
  <2>4. left \in 0 .. 112 /\ TxSize - left \in Nat
    BY <2>2, <2>3 DEF TxSize
  <2> HIDE DEF left
  <2>5. new \in 0 .. 48
    BY <2>4, FittingBound DEF PacketSize, MaxDevices
  <2>6. /\ out' = IF out + sent >= 4096 THEN out + sent - 4096 ELSE out + sent
        /\ numItems' = left + new
    BY <2>1 DEF Tick, sent, left, TxSize
  <2> HIDE DEF new
  <2>7. out' \in 0 .. TxSize - 1 /\ numItems' \in Nat
    BY <2>2, <2>3, <2>4, <2>5, <2>6 DEF TxSize
  <2>8. left = numItems - sent
    BY DEF left
  <2>9. Sinking'
    <3>1. CASE sent = numItems
      BY <3>1, <2>2, <2>5, <2>6, <2>8 DEF Sinking
    <3>2. CASE sent = 4096 - out
      BY <3>2, <2>2, <2>3, <2>5, <2>6, <2>8 DEF Sinking
    <3>3. CASE sent = 59 /\ sent # 4096 - out
      BY <3>3, <2>2, <2>3, <2>5, <2>6, <2>8 DEF Sinking
    <3> QED BY <2>3, <3>1, <3>2, <3>3
  <2> QED BY <2>7, <2>9 DEF IInv
<1> QED BY <1>1, <1>2

\* With the real sizes, polling all eight devices in every tick never fills
\* txfifo: NoPileUp always holds.
THEOREM NoPileUpHolds == Spec => []NoPileUp
<1>1. IInv => NoPileUp
  BY IInvBound DEF NoPileUp, MaxTxReport
<1> QED BY <1>1, IInvInit, IInvNext, PTL DEF Spec
=============================================================================
