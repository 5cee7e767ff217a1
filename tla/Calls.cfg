SPECIFICATION Spec
CONSTANTS
  main = main
  two = two
  one = one
  none = none
  m1 = m1
  m2 = m2
  t1 = t1
  t2 = t2
  t3 = t3
  o1 = o1
  o2 = o2
  i1 = i1
  i2 = i2
  l1 = l1
  l2 = l2
  None = None
  Function = {main, two, one, none}
  Pseudo = {m1, t1, t2, t3, o1, o2}
  Owner <- Owners
  Params <- ParamsOf
  Size <- Sizes
  ReturnSize <- ReturnSizes
  Main = main
  ArgRegCount = 1
  Int4 = {i1}
  Long8 = {l1, l2}
  Top = 256
  MaxDepth = 3
INVARIANTS SlotsApart SlotsInFrame SlotsAligned AlignedAtCalls Balanced
PROPERTIES SlotsKept ImplementsActivations
