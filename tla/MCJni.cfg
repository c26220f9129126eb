CONSTANTS
  CRC_POLYNIMIAL <- MCPolynomial
  Threads <- MCThreads
  Frames <- MCFrames
SPECIFICATION Spec
INVARIANTS IsDivision DamageFound EnvOnce
