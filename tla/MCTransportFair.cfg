\* A clean line, failing USB calls and a txfifo that fills up and wraps: everything
\* gets through in the end, the packets whole and in order.
CONSTANTS
  Byte = {0, 1, 2}
  Sof = {2}
  HostSof = 2
  HeaderSize = 2
  MaxLen = 2
  Crc <- MCCrc
  RxSize = 6
  TxSize = 5
  CountMod = 3
  MaxReport = 3
  SendBuf = 3
  MaxTxReport = 2
  Packets <- MCPackets
  MaxRxBytes = 10
  MaxTxBytes = 7
  Line <- MCLine
SPECIFICATION FairSpec
INVARIANT TxStream
PROPERTIES
  FramesArrive
  PacketsLeave
