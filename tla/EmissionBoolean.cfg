SPECIFICATION EmissionSpec
CONSTANTS
  WordBits = 3
  ByteBits = 1
  Ops <- MCBooleanOps
  RegPlaces = {"rbx", "r12"}
  SpillPlaces = {"slot0", "slot1"}
INVARIANTS
  ComputesMeaning
