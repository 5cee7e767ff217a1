SPECIFICATION Spec
CONSTANTS
  Kind = {"null", "expr", "return", "break", "continue", "goto", "label", "if", "for", "while", "dowhile", "switch", "case", "default", "block"}
  Value = {0, 1}
  Weight <- Weights
  MaxWeight = 7
  MaxFunctions = 2
INVARIANT JumpsResolve
PROPERTY ImplementsStructure
