SPECIFICATION Spec
CONSTANTS
  x = x
  y = y
  anon = anon
  Name = {x, y}
  Anonymous = anon
  IntModulus = 8
  Decl <- TwoNames
  MaxDecls = 4
  MaxScopes = 4
  MaxDepth = 4
INVARIANTS AssemblerNamesDistinct LinkedOnce OneSymbolPerEntity VisibleIsInnermost
