SPECIFICATION Spec
CONSTANTS
  l1 = l1
  l2 = l2
  Label = {l1, l2}
  Value = {1, 9}
  Kind = {"plain", "block", "if", "loop", "switch", "case", "break", "default", "label", "goto", "continue"}
  IntModulus = 8
  MaxStmts = 4
  MaxDepth = 5
  MaxGroups = 2
INVARIANT ContextIsInnermost
PROPERTY ImplementsNesting
