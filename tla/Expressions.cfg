SPECIFICATION Spec
CONSTANTS
  ByteBits = 2
  IntBits = 3
  LongBits = 4
  Symbols <- SymbolsDef
  Inputs <- InputsDef
INVARIANTS RefusedExactly ComputesAsC InstructionsFit FoldedAsRun
CHECK_DEADLOCK FALSE
