------------------------------ MODULE Transport ------------------------------
(***************************************************************************)
(* The byte path of one device: neoRADIO2ProcessIncomingData moves UART    *)
(* bytes from USB reports into rxfifo, bytes of txfifo into one USB        *)
(* report, and parses rxfifo into rxDataBuffer; neoRADIO2SendPacket puts a *)
(* packet into txfifo.  A call of ProcessIncomingData (a tick) is split at *)
(* every USB call and at every turn of the parser's loop; `pc' says where  *)
(* the tick is.  A USB call may fail wherever it is made.                  *)
(*                                                                         *)
(* A frame on the line is a header of HeaderSize bytes, start of frame     *)
(* first and data length last, the data, and one CRC byte over both.       *)
(***************************************************************************)
EXTENDS FifoOps

CONSTANTS
  Byte,          (* the values a byte takes: 0 .. 255 on the wire          *)
  Sof,           (* the start-of-frame bytes: 0x55 from a device, 0xAA     *)
  HostSof,       (* 0xAA                                                   *)
  HeaderSize,    (* sizeof(neoRADIO2frame_header) = 5                      *)
  MaxLen,        (* the largest value of the length byte                   *)
  Crc(_),        (* neoRADIO2CalcCRC8                                      *)
  RxSize,        (* NEORADIO2_RX_BUFFER_SIZE = 4096                        *)
  TxSize,        (* NEORADIO2_TX_BUFFER_SIZE = 4096                        *)
  CountMod,      (* rxDataCount is a uint8_t: 2^8                          *)
  MaxReport,     (* UART bytes in a USB report the device sends            *)
  MaxTxReport,   (* UART bytes in a USB report the host sends: 59          *)
  SendBuf,       (* the size of the buffer a packet is built in: 128       *)
  Packets,       (* the packets handed to SendPacket: header fields, data  *)
  MaxRxBytes,    (* bound: bytes that enter rxfifo                         *)
  MaxTxBytes     (* bound: bytes that enter txfifo                         *)

MinPacket == HeaderSize + 1   (* minPacketSize, with the CRC *)

ASSUME TransportAssumption ==
  /\ MaxLen \in Nat
  /\ Byte \subseteq 0 .. MaxLen
  /\ 0 \in Byte
  /\ HeaderSize \in Nat /\ HeaderSize >= 2
  /\ RxSize \in Nat \ {0} /\ TxSize \in Nat \ {0}
  /\ CountMod \in Nat \ {0}
  /\ MaxReport \in Nat /\ MaxTxReport \in Nat /\ SendBuf \in Nat
  /\ \A n \in 0 .. HeaderSize + MaxLen : \A s \in [1 .. n -> Byte] : Crc(s) \in Byte
  /\ HostSof \in Byte
  /\ Packets \subseteq [fields : [1 .. HeaderSize - 2 -> Byte], data : Seq(Byte)]
  /\ \A p \in Packets : Len(p.data) \in Byte

VARIABLES
  pc,             (* "idle" between ticks, else the part of the tick that is next *)
  rxfifo, txfifo,
  rxDataBuffer,   (* the slots frames are stored in                    *)
  rxDataCount,
  rxdata, loc,    (* the parser's copy of rxfifo and its index into it *)
  accepted,       (* history: every byte pushed into rxfifo            *)
  consumed,       (* history: how many of them left it                 *)
  frames,         (* history: where in `accepted' the parser found a frame *)
  handled,        (* history: the frames the handlers were given       *)
  queued,         (* history: the bytes of the packets SendPacket took *)
  wire            (* history: the bytes the USB device took            *)

rxVars == <<rxfifo, rxDataBuffer, rxDataCount, rxdata, loc>>
rxHistory == <<accepted, consumed, frames, handled>>
txVars == <<txfifo, queued, wire>>
vars == <<pc, rxVars, rxHistory, txVars>>

ZeroBuffer(n) == [i \in 0 .. n - 1 |-> 0]

\* The record of the device is zeroed before its FIFOs are set up.
Init ==
  /\ pc = "idle"
  /\ rxfifo = FIFO_Init(ZeroBuffer(RxSize), RxSize)
  /\ txfifo = FIFO_Init(ZeroBuffer(TxSize), TxSize)
  /\ rxDataBuffer = [i \in 0 .. CountMod - 1 |-> <<>>]
  /\ rxDataCount = 0
  /\ rxdata = <<>> /\ loc = 0
  /\ accepted = <<>> /\ consumed = 0 /\ frames = <<>> /\ handled = <<>>
  /\ queued = <<>> /\ wire = <<>>

-----------------------------------------------------------------------------
(***************************************************************************)
(* neoRADIO2GetNewData                                                     *)
(***************************************************************************)

\* The device is connected, so the tick goes on to GetNewData.
Tick ==
  /\ pc = "idle"
  /\ pc' = "receive"
  /\ UNCHANGED <<rxVars, rxHistory, txVars>>

\* The part of a report that rxfifo has room for.
Kept(report) == SubSeq(report, 1, MinOf(Len(report), FIFO_GetFreeSpace(rxfifo)))

Accept(bytes) ==
  /\ rxfifo' = FIFO_Push(rxfifo, bytes)
  /\ accepted' = accepted \o bytes

\* One report was read.  A report that does not fit fills rxfifo, its other
\* bytes are lost and the loop is left; otherwise the next report is read.
ReceiveReport ==
  /\ pc = "receive"
  /\ \E n \in 1 .. MaxReport : \E report \in [1 .. n -> Byte] :
       /\ Len(accepted) + n <= MaxRxBytes
       /\ Accept(Kept(report))
       /\ pc' = IF n > FIFO_GetFreeSpace(rxfifo) THEN "transmit" ELSE "receive"
  /\ UNCHANGED <<rxDataBuffer, rxDataCount, rxdata, loc, consumed, frames, handled, txVars>>

\* No report is waiting.
ReceiveNone ==
  /\ pc = "receive"
  /\ pc' = "transmit"
  /\ UNCHANGED <<rxVars, rxHistory, txVars>>

\* hid_read failed: the tick ends at once, with what was already pushed in
\* rxfifo and the frames of an earlier tick in rxDataBuffer.
ReceiveError ==
  /\ pc = "receive"
  /\ pc' = "idle"
  /\ UNCHANGED <<rxVars, rxHistory, txVars>>

TransmitSize_full ==
  IF FIFO_GetOneShotReadSize(txfifo) < MaxTxReport THEN 0 ELSE MaxTxReport
TransmitSize == MinOf(FIFO_GetOneShotReadSize(txfifo), MaxTxReport)

\* One report takes bytes from the front of txfifo, in place.
Transmit ==
  /\ pc = "transmit" /\ TransmitSize > 0
  /\ \E n \in 0 .. TransmitSize :
       /\ wire' = wire \o CopyOut(txfifo.ptr, txfifo.out, n)
       /\ txfifo' = FIFO_IncrementOutPtr(txfifo, n)
  /\ pc' = "parse"
  /\ UNCHANGED <<rxVars, rxHistory, queued>>

TransmitNothing ==
  /\ pc = "transmit" /\ TransmitSize = 0
  /\ pc' = "parse"
  /\ UNCHANGED <<rxVars, rxHistory, txVars>>

\* hid_write failed: what was received stays unparsed until a later tick.
TransmitError ==
  /\ pc = "transmit" /\ TransmitSize > 0
  /\ pc' = "idle"
  /\ UNCHANGED <<rxVars, rxHistory, txVars>>

-----------------------------------------------------------------------------
(***************************************************************************)
(* neoRADIO2LookForDevicePackets                                           *)
(***************************************************************************)

\* The copy made of rxfifo: the bytes up to the end of its memory, then the
\* rest from its start.
ParserCopy_noWrap(f) == CopyOut(f.ptr, f.out, FIFO_GetOneShotReadSize(f))
ParserCopy(f) ==
  LET readsize == FIFO_GetOneShotReadSize(f)
  IN  CopyOut(f.ptr, f.out, readsize) \o CopyOut(f.ptr, 0, FIFO_GetCount(f) - readsize)

StartParse_lateReset ==
  /\ pc = "parse"
  /\ IF FIFO_GetCount(rxfifo) < MinPacket
     THEN pc' = "dispatch" /\ UNCHANGED <<rxDataCount, rxdata, loc>>
     ELSE pc' = "scan" /\ rxDataCount' = 0 /\ rxdata' = ParserCopy(rxfifo) /\ loc' = 0
  /\ UNCHANGED <<rxfifo, rxDataBuffer, rxHistory, txVars>>
StartParse ==
  /\ pc = "parse"
  /\ rxDataCount' = 0
  /\ IF FIFO_GetCount(rxfifo) < MinPacket
     THEN pc' = "dispatch" /\ UNCHANGED <<rxdata, loc>>
     ELSE pc' = "scan" /\ rxdata' = ParserCopy(rxfifo) /\ loc' = 0
  /\ UNCHANGED <<rxfifo, rxDataBuffer, rxHistory, txVars>>

\* Byte i of a header at 0-based offset `at' of s is s[at + i].
IsStart(s, at) == s[at + 1] \in Sof
DataLen(s, at) == s[at + HeaderSize]
FrameSize(s, at) == DataLen(s, at) + MinPacket
Body(s, at) == SubSeq(s, at + 1, at + HeaderSize + DataLen(s, at))
CrcMatches(s, at) == Crc(Body(s, at)) = s[at + FrameSize(s, at)]

Scanning == pc = "scan" /\ loc + MinPacket <= Len(rxdata)
Complete_strict == FrameSize(rxdata, loc) < Len(rxdata) - loc
Complete == FrameSize(rxdata, loc) <= Len(rxdata) - loc

\* Nothing more to look at, or the rest of a frame is still to come.
ScanEnd_badCrc ==
  /\ pc = "scan"
  /\ \/ loc + MinPacket > Len(rxdata)
     \/ Scanning /\ IsStart(rxdata, loc) /\ ~(Complete /\ CrcMatches(rxdata, loc))
  /\ pc' = "dispatch"
  /\ UNCHANGED <<rxVars, rxHistory, txVars>>
ScanEnd ==
  /\ pc = "scan"
  /\ \/ loc + MinPacket > Len(rxdata)
     \/ Scanning /\ IsStart(rxdata, loc) /\ ~Complete
  /\ pc' = "dispatch"
  /\ UNCHANGED <<rxVars, rxHistory, txVars>>

\* n bytes leave rxfifo and the copy's index moves over them.
Consume_one(n) ==
  /\ rxfifo' = FIFO_IncrementOutPtr(rxfifo, 1)
  /\ loc' = loc + n
  /\ consumed' = consumed + n
Consume(n) ==
  /\ rxfifo' = FIFO_IncrementOutPtr(rxfifo, n)
  /\ loc' = loc + n
  /\ consumed' = consumed + n

\* A frame with the right CRC is stored, header and data.
ScanFrame ==
  /\ Scanning /\ IsStart(rxdata, loc) /\ Complete /\ CrcMatches(rxdata, loc)
  /\ rxDataBuffer' = [rxDataBuffer EXCEPT ![rxDataCount] = Body(rxdata, loc)]
  /\ rxDataCount' = (rxDataCount + 1) % CountMod
  /\ Consume(FrameSize(rxdata, loc))
  /\ frames' = Append(frames, consumed)
  /\ UNCHANGED <<pc, rxdata, accepted, handled, txVars>>

\* Not a start of frame, or one whose CRC is wrong: only this byte is dropped,
\* a frame may start inside what looked like a frame.
ScanDrop_frame ==
  /\ Scanning
  /\ IsStart(rxdata, loc) => Complete /\ ~CrcMatches(rxdata, loc)
  /\ Consume(IF IsStart(rxdata, loc) THEN FrameSize(rxdata, loc) ELSE 1)
  /\ UNCHANGED <<pc, rxdata, rxDataBuffer, rxDataCount, accepted, frames, handled, txVars>>
ScanDrop ==
  /\ Scanning
  /\ IsStart(rxdata, loc) => Complete /\ ~CrcMatches(rxdata, loc)
  /\ Consume(1)
  /\ UNCHANGED <<pc, rxdata, rxDataBuffer, rxDataCount, accepted, frames, handled, txVars>>

\* The handler of the state runs over rxDataBuffer[0 .. rxDataCount - 1].
Dispatch ==
  /\ pc = "dispatch"
  /\ handled' = handled \o [i \in 1 .. rxDataCount |-> rxDataBuffer[i - 1]]
  /\ pc' = "idle"
  /\ UNCHANGED <<rxVars, accepted, consumed, frames, txVars>>

-----------------------------------------------------------------------------
PacketBytes(p) ==
  LET body == <<HostSof>> \o p.fields \o <<Len(p.data)>> \o p.data
  IN  body \o <<Crc(body)>>

\* neoRADIO2SendPacket, called by the application between ticks and by the
\* handlers.  It returns -1 and queues nothing when the data is too long or
\* the packet does not fit.
SendPacket_noSpaceCheck(p) ==
  /\ pc \in {"idle", "dispatch"}
  /\ Len(p.data) <= SendBuf - HeaderSize
  /\ Len(queued) + Len(PacketBytes(p)) <= MaxTxBytes
  /\ txfifo' = FIFO_Push(txfifo, PacketBytes(p))
  /\ queued' = queued \o PacketBytes(p)
  /\ UNCHANGED <<pc, rxVars, rxHistory, wire>>
SendPacket(p) ==
  /\ pc \in {"idle", "dispatch"}
  /\ Len(p.data) <= SendBuf - HeaderSize
  /\ FIFO_GetFreeSpace(txfifo) >= Len(PacketBytes(p))
  /\ Len(queued) + Len(PacketBytes(p)) <= MaxTxBytes
  /\ txfifo' = FIFO_Push(txfifo, PacketBytes(p))
  /\ queued' = queued \o PacketBytes(p)
  /\ UNCHANGED <<pc, rxVars, rxHistory, wire>>

Receive == ReceiveReport \/ ReceiveNone \/ ReceiveError
Send == Transmit \/ TransmitNothing \/ TransmitError
Parse == StartParse \/ ScanEnd \/ ScanFrame \/ ScanDrop

Next ==
  \/ Tick \/ Receive \/ Send \/ Parse \/ Dispatch
  \/ \E p \in Packets : SendPacket(p)

Spec == Init /\ [][Next]_vars

-----------------------------------------------------------------------------
(***************************************************************************)
(* Properties                                                              *)
(***************************************************************************)

\* Type correctness: both FIFOs keep their memory and cursors, the parser's
\* index and the frame count stay in range.
TypeOK ==
  /\ pc \in {"idle", "receive", "transmit", "parse", "scan", "dispatch"}
  /\ rxfifo \in FifoOf(RxSize, Byte) /\ WellFormed(rxfifo)
  /\ txfifo \in FifoOf(TxSize, Byte) /\ WellFormed(txfifo)
  /\ rxDataBuffer \in [0 .. CountMod - 1 -> Seq(Byte)]
  /\ rxDataCount \in 0 .. CountMod - 1
  /\ rxdata \in Seq(Byte) /\ loc \in Nat
  /\ accepted \in Seq(Byte) /\ consumed \in 0 .. Len(accepted)
  /\ frames \in Seq(Nat) /\ handled \in Seq(Seq(Byte))
  /\ queued \in Seq(Byte) /\ wire \in Seq(Byte)

\* rxfifo holds exactly the accepted bytes that were not consumed yet: no
\* report, cut or whole, and no parser step loses, repeats or reorders one.
RxStream == Contents(rxfifo) = SubSeq(accepted, consumed + 1, Len(accepted))

\* Likewise for txfifo: what the device took and what is still queued are the
\* packets of SendPacket, whole and in order, wherever txfifo wraps and however
\* few bytes a report takes (PacketHandler.c:73-86).
TxStream == wire \o Contents(txfifo) = queued

\* The parser reads a copy of rxfifo while it pops rxfifo itself; the two never
\* drift apart (PacketHandler.c:280-333).
CopyInStep ==
  pc = "scan" => Contents(rxfifo) = SubSeq(rxdata, loc + 1, Len(rxdata))

\* A frame with the right CRC lies at offset `at' of s.
ValidFrameAt(s, at) ==
  /\ at + MinPacket <= Len(s)
  /\ IsStart(s, at)
  /\ at + FrameSize(s, at) <= Len(s)
  /\ CrcMatches(s, at)

FrameEnd(i) == frames[i] + FrameSize(accepted, frames[i])

\* The frames found lie in the consumed bytes, one after the other.
FramesInOrder ==
  \A i \in 1 .. Len(frames) :
    /\ ValidFrameAt(accepted, frames[i])
    /\ FrameEnd(i) <= IF i < Len(frames) THEN frames[i + 1] ELSE consumed

\* What the parser knew when it dropped the byte at offset `at': the header was
\* there and is not a start, or the frame was there and its CRC is wrong.  More
\* bytes cannot change this.
Rejected(s, at) ==
  /\ at + MinPacket <= Len(s)
  /\ IsStart(s, at) => at + FrameSize(s, at) <= Len(s) /\ ~CrcMatches(s, at)

InFoundFrame(at) == \E i \in 1 .. Len(frames) : frames[i] <= at /\ at < FrameEnd(i)

\* However the bytes were cut into reports and ticks, the parser resynchronises
\* without missing anything: a valid frame among the consumed bytes was either
\* found or starts inside one that was (PacketHandler.c:280-333).
NoFrameSkipped ==
  \A at \in 0 .. consumed - 1 :
    ValidFrameAt(accepted, at) => InFoundFrame(at)

\* After a parse less than one frame of the largest size is left, so rxfifo
\* always has room for the rest of a frame it waits for: whatever noise comes
\* in, a header can never make the parser wait for bytes that do not fit.
RoomAfterParse ==
  pc = "dispatch" => FIFO_GetCount(rxfifo) < MaxLen + MinPacket

\* The inductive invariant of the byte path.
IInv ==
  /\ TypeOK
  /\ RxStream /\ TxStream
  /\ CopyInStep /\ (pc = "scan" => loc <= Len(rxdata))
  /\ FramesInOrder
  /\ \A at \in 0 .. consumed - 1 : Rejected(accepted, at) \/ InFoundFrame(at)
  /\ RoomAfterParse

\* The frames in rxDataBuffer for the handler, once the parser has reset it.
InBuffer ==
  IF pc \in {"scan", "dispatch"}
  THEN [i \in 1 .. rxDataCount |-> rxDataBuffer[i - 1]] ELSE <<>>

\* Each frame found is handed to a handler exactly once, unchanged and in the
\* order of the line.  neoRAD-IO2.h:42 makes rxDataBuffer large enough for
\* every frame rxfifo can hold (NEORADIO2_RX_BUFFER_SIZE / 6 + 1 slots).
HandledOnce ==
  handled \o InBuffer = [i \in 1 .. Len(frames) |-> Body(accepted, frames[i])]
=============================================================================
