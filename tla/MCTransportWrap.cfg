\* As MCTransportRx, but rxfifo can hold as many frames as rxDataCount has
\* values, as 4096 bytes and a uint8_t do.
CONSTANTS
  Byte = {0, 1, 2}
  Sof = {2}
  HostSof = 2
  HeaderSize = 2
  MaxLen = 2
  Crc <- MCCrc
  RxSize = 6
  TxSize = 1
  CountMod = 2
  MaxReport = 3
  SendBuf = 3
  MaxTxReport = 0
  Packets <- NoPackets
  MaxRxBytes = 6
  MaxTxBytes = 0
SPECIFICATION Spec
INVARIANT HandledOnce
