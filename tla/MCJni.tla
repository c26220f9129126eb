-------------------------------- MODULE MCJni --------------------------------
EXTENDS Jni, TLC

\* CRC_POLYNIMIAL is 7.
MCPolynomial == {0, 1, 2}

MCWhole(b1, b2) == <<b1, b2, Division(<<b1, b2>>, 2)>>
MCIntact(bytes) == [sent |-> bytes, bytes |-> bytes]

\* The bits of a frame of three bytes, counted from its first, that are in d change.
MCDamaged(bytes, d) ==
  [sent |-> bytes,
   bytes |-> [k \in 1 .. 3 |-> bytes[k] ^^ {b \in 0 .. 7 : 8 * k - 1 - b \in d}]]

\* Up to eight bits in a row, beginning anywhere: the ends of the row alone or the
\* whole of it.
MCBursts ==
  {d \in UNION {{{k, k + n}, k .. k + n} : k \in 0 .. 23, n \in 0 .. 7} : d \subseteq 0 .. 23}

MCThreads == 1 .. 2
MCBase == MCWhole({0, 7}, {1, 6})
MCFramesOf1 ==
  {MCIntact(MCWhole(b, {0, 7})) : b \in Byte} \cup {MCDamaged(MCBase, d) : d \in MCBursts}
MCFramesOf2 == {MCIntact(MCWhole({}, 0 .. 7))}
MCFrames == [t \in MCThreads |-> IF t = 1 THEN MCFramesOf1 ELSE MCFramesOf2]
=============================================================================
