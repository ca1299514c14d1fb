SPECIFICATION BigIntSpec
CONSTANTS
  LimbBits = 2
  UdivThreshold = 2
  Operands = {0, 1, 2, 3}
  MaxExponent = 3
  MaxShift = 5
  MaxLimbs = 3
INVARIANT UnsignedExact
CHECK_DEADLOCK FALSE
