SPECIFICATION Spec
CONSTANTS
  Key = {1, 2, 3, 4}
  Value = {11, 12}
  Nullptr = Nullptr
  InitialCapacity = 2
  Hashes <- HashesDef
INVARIANT RoomLeft
PROPERTIES ImplementsDictionary CallsReturn
