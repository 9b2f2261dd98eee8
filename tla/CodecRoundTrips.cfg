\* Bytes of three bits, words of five, blocks of two.
\* A section is read once.
CHECK_DEADLOCK FALSE
SPECIFICATION Spec
CONSTANTS
  ByteBits = 3
  WordBits = 5
  BufferBits = 8
  BlockMax = 2
  CrcBits = 5
  Polynomial <- SmallPolynomial
  Values = {0, 1, 2, 5, 16, 31}
  MaxLen = 3
  MaxForeign = 4
INVARIANTS
  TypeOK
  RoundTrip
  WrongLengthIsRejected
  BurstsAreNoticed
  DecodedIsWellFormed
  InBounds
