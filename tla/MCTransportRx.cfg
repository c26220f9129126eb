\* The receive path: every byte stream of MaxRxBytes bytes, cut in every way
\* into reports and ticks, with an rxfifo that fills up and wraps.
CONSTANTS
  Byte = {0, 1, 2}
  Sof = {2}
  HostSof = 2
  HeaderSize = 2
  MaxLen = 2
  Crc <- MCCrc
  RxSize = 6
  TxSize = 4
  CountMod = 3
  MaxReport = 2
  SendBuf = 3
  MaxTxReport = 3
  Packets <- OnePacket
  MaxRxBytes = 7
  MaxTxBytes = 3
SPECIFICATION Spec
INVARIANTS
  TypeOK
  RxStream
  CopyInStep
  FramesInOrder
  NoFrameSkipped
  RoomAfterParse
  HandledOnce
