SPECIFICATION Spec
CONSTANTS
  ByteBits = 2
  IntBits = 3
  LongBits = 4
  Object <- Objects
  IntValue <- Ints
  LongValue <- Longs
  Junk <- JunkValues
INVARIANT CountIsImmOrCl
