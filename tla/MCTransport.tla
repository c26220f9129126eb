----------------------------- MODULE MCTransport -----------------------------
(* Small instances of Transport: three byte values, a header of two bytes,  *)
(* start of frame and length, and a checksum of one byte.                   *)
EXTENDS Transport, SequencesExt

MCCrc(s) == FoldLeft(LAMBDA sum, b : (2 * sum + b + 1) % 3, 0, s)

\* A packet without data, one with data, and one SendPacket refuses.
MCPackets == {[fields |-> <<>>, data |-> d] : d \in {<<>>, <<1>>, <<1, 1>>}}
NoPackets == {}
\* One of the smallest size, and a refused one.
OnePacket == {p \in MCPackets : Len(p.data) # 1}
=============================================================================
