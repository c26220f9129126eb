CONSTANTS
  rxfifo = rxfifo
  txfifo = txfifo
  Fifos = {rxfifo, txfifo}
  Byte = {0, 1}
  Size <- MCSize
SPECIFICATION Spec
INVARIANTS
  Inv
  CursorsAgree
PROPERTY ImplementsQueue
