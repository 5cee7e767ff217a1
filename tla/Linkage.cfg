SPECIFICATION Spec
CONSTANTS
  x = x
  y = y
  anon = anon
  Name = {x, y}
  Anonymous = anon
  IntModulus = 8
  Decl <- OneNameAnyForm
  MaxDecls = 3
  MaxScopes = 3
  MaxDepth = 3
INVARIANTS DiagnosedExactly StorageAsDeclared DefinedHasBody
PROPERTY SymbolsStable
