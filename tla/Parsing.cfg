SPECIFICATION Spec
CONSTANTS
  Files <- FilesDef
  Language <- LanguageDef
  MaxErrors = 12
INVARIANTS ParsesGrammar ListsWhole OneReportPerToken
PROPERTY Terminates
CHECK_DEADLOCK FALSE
