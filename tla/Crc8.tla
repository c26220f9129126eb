--------------------------------- MODULE Crc8 ---------------------------------
(***************************************************************************)
(* The CRC-8 of frames, calculated by several threads that each serve a    *)
(* device of their own.  All of them use neoRADIO2CRC8Table, which has no  *)
(* lock: whoever finds table[1] not set fills it.  What a thread reads     *)
(* there while the stores of the first filling are under way is a race;    *)
(* it finds each entry either still 0 or right.  A byte is the set of its  *)
(* bits that are 1: the terms of a polynomial.                             *)
(***************************************************************************)
EXTENDS JavaThreads, Integers, Sequences

CONSTANTS
  CRC_POLYNIMIAL,
  Frames       (* thread -> the frames it receives: their bytes as they were *)
               (* sent and as they arrive, the last of them the CRC          *)

Byte == SUBSET (0 .. 7)
a ^^ b == (a \ b) \cup (b \ a)

-----------------------------------------------------------------------------
\* The polynomial that bytes 1 to n and eight zeros behind them are the terms of,
\* divided by x^8 + CRC_POLYNIMIAL: long division brings down one term after the
\* other.
BringDown(r, bit) ==
  LET s == {k \in 1 .. 8 : k - 1 \in r} \cup bit
  IN  IF 8 \in s THEN s ^^ ({8} \cup CRC_POLYNIMIAL) ELSE s
Term(bytes, n, m) ==
  IF m <= 8 * n /\ 7 - ((m - 1) % 8) \in bytes[((m - 1) \div 8) + 1] THEN {0} ELSE {}
Division(bytes, n) ==
  LET r[m \in 0 .. 8 * n + 8] ==
        IF m = 0 THEN {} ELSE BringDown(r[m - 1], Term(bytes, n, m))
  IN  r[8 * n + 8]

\* A frame ends with the remainder of its other bytes.
Whole(bytes) == bytes[Len(bytes)] = Division(bytes, Len(bytes) - 1)

Damaged(f) == f.bytes # f.sent
Flipped(f) == {p \in (DOMAIN f.sent) \X (0 .. 7) : p[2] \in f.sent[p[1]] ^^ f.bytes[p[1]]}

\* The bits that the line changed are at most eight in a row.
Burst(f) == \A p, q \in Flipped(f) : (8 * p[1] - p[2]) - (8 * q[1] - q[2]) <= 7

ASSUME Crc8Assumption ==
  /\ CRC_POLYNIMIAL \in Byte /\ 0 \in CRC_POLYNIMIAL
  /\ \A t \in Threads : \A f \in Frames[t] :
       /\ f.sent \in Seq(Byte) /\ f.bytes \in Seq(Byte)
       /\ f.sent # <<>> /\ Len(f.bytes) = Len(f.sent)
       /\ Whole(f.sent) /\ Burst(f)

VARIABLES
  table,    (* neoRADIO2CRC8Table: "empty", "filling" until all threads see   *)
            (* the stores of one that filled it, then "full"                  *)
  filled,   (* the threads that filled it themselves                          *)
  calc,     (* where in neoRADIO2CalcCRC8 a thread is, "none" when it is not  *)
  frame,    (* the frame it was called for                                    *)
  i, crc,   (* the bytes it has taken and their CRC                           *)
  safe      (* history: no thread was at its first filling in the meantime    *)

crcVars == <<table, filled, calc, frame, i, crc, safe>>

NoFrame == [sent |-> <<>>, bytes |-> <<>>]

\* One turn of neoRADIO2CRC8_Init's inner loop, in 8 bits.
ShiftOnce(c) == {k \in 0 .. 7 : k - 1 \in c} ^^ (IF 7 \in c THEN CRC_POLYNIMIAL ELSE {})

\* The table it fills.
neoRADIO2CRC8_Init ==
  [k \in Byte |-> LET c[j \in 0 .. 8] == IF j = 0 THEN k ELSE ShiftOnce(c[j - 1])
                  IN  c[8]]

CrcInit ==
  /\ table = "empty" /\ filled = {}
  /\ calc = [t \in Threads |-> "none"] /\ frame = [t \in Threads |-> NoFrame]
  /\ i = [t \in Threads |-> 0] /\ crc = [t \in Threads |-> {}]
  /\ safe = [t \in Threads |-> TRUE]

\* What thread t may read at k; 0 is the empty set.
Read_inPlace(t, k) ==
  IF \E u \in Threads \ {t} : calc[u] = "fill" THEN {{}, k, neoRADIO2CRC8_Init[k]}
  ELSE IF table = "empty" THEN {{}} ELSE {neoRADIO2CRC8_Init[k]}
Read(t, k) ==
  IF table = "full" \/ t \in filled THEN {neoRADIO2CRC8_Init[k]}
  ELSE IF table = "filling" THEN {{}, neoRADIO2CRC8_Init[k]}
  ELSE {{}}

Others(t) == Threads \ {t}

\* neoRADIO2CalcCRC8 is called for the bytes before the CRC.
Call(t) ==
  /\ calc[t] = "none" /\ calc' = [calc EXCEPT ![t] = "check"]
  /\ \E f \in Frames[t] : frame' = [frame EXCEPT ![t] = f]
  /\ i' = [i EXCEPT ![t] = 0] /\ crc' = [crc EXCEPT ![t] = {}]
  /\ safe' = [u \in Threads |->
       IF u = t THEN table = "full" \/ (table = "empty" /\ \A v \in Others(t) : calc[v] = "none")
       ELSE safe[u] /\ table = "full"]
  /\ UNCHANGED <<table, filled>>

Check(t) ==
  /\ calc[t] = "check"
  /\ \E x \in Read(t, {0}) :
       IF x # CRC_POLYNIMIAL
       THEN /\ calc' = [calc EXCEPT ![t] = "fill"]
            /\ table' = IF table = "empty" THEN "filling" ELSE table
       ELSE calc' = [calc EXCEPT ![t] = "loop"] /\ UNCHANGED table
  /\ UNCHANGED <<filled, frame, i, crc, safe>>

FillEnds(t) ==
  /\ calc[t] = "fill" /\ calc' = [calc EXCEPT ![t] = "loop"]
  /\ filled' = filled \cup {t}
  /\ UNCHANGED <<table, frame, i, crc, safe>>

\* All threads see the stores of one that has filled the table.
Settle ==
  /\ table = "filling" /\ filled # {} /\ table' = "full"
  /\ UNCHANGED <<filled, calc, frame, i, crc, safe>>

DataLen(t) == Len(frame[t].bytes) - 1

\* The loop, for one byte.
Index_noChain(c, b) == b
Index(c, b) == c ^^ b
Feed(t) ==
  /\ calc[t] = "loop" /\ i[t] < DataLen(t)
  /\ i' = [i EXCEPT ![t] = @ + 1]
  /\ \E x \in Read(t, Index(crc[t], frame[t].bytes[i[t] + 1])) :
       crc' = [crc EXCEPT ![t] = x]
  /\ UNCHANGED <<table, filled, calc, frame, safe>>

\* The parser compares the result with the last byte of the frame.
Ended(t) == calc[t] = "loop" /\ i[t] = DataLen(t)
Accepts(t) == crc[t] = frame[t].bytes[DataLen(t) + 1]

Return(t) ==
  /\ Ended(t) /\ calc' = [calc EXCEPT ![t] = "none"]
  /\ frame' = [frame EXCEPT ![t] = NoFrame]
  /\ i' = [i EXCEPT ![t] = 0] /\ crc' = [crc EXCEPT ![t] = {}]
  /\ safe' = [safe EXCEPT ![t] = TRUE]
  /\ UNCHANGED <<table, filled>>

CalcCRC8(t) == Call(t) \/ Check(t) \/ FillEnds(t) \/ Feed(t) \/ Return(t)

-----------------------------------------------------------------------------
\* A thread that begins when the table is full, or has it for itself until it is
\* done, gets the remainder of its bytes, whatever other threads do: that the
\* table may be filled again, by a thread that found it empty before, harms nobody
\* (PacketHandler.c:542-567).
IsDivision ==
  \A t \in Threads : safe[t] /\ calc[t] = "loop" => crc[t] = Division(frame[t].bytes, i[t])

\* A frame whose line damaged at most eight bits in a row, also across two bytes
\* or in the CRC itself, is not accepted, and a whole one is, except in a race
\* (PacketHandler.c:297).
DamageFound == \A t \in Threads : safe[t] /\ Ended(t) => (Accepts(t) <=> ~Damaged(frame[t]))
=============================================================================
