-------------------------------- MODULE MCFifo --------------------------------
(* Two FIFOs of different sizes, so that FIFO_Copy meets every pair of      *)
(* cursor positions, with two byte values.                                  *)
EXTENDS Fifo, TLC

CONSTANTS rxfifo, txfifo

MCSize == rxfifo :> 3 @@ txfifo :> 2
=============================================================================
