--------------------------- MODULE MCTransportFair ---------------------------
(* A line of three frames, one of them with data, and packets to send.      *)
EXTENDS TransportFair, MCTransport

MCLine ==
  LET Frame(body) == Append(body, MCCrc(body))
  IN  <<Frame(<<2, 0>>), Frame(<<2, 1, 2>>), Frame(<<2, 0>>)>>
=============================================================================
