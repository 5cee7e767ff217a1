SPECIFICATION Spec
CONSTANTS
  Most = 4
  MaxNodes = 4
PROPERTY ImplementsSequences
CHECK_DEADLOCK FALSE
