SPECIFICATION Spec
CONSTANTS
  one = one
  two = two
  Runs = {one, two}
  Situations <- SituationsDef
INVARIANTS SuccessIsTrue CompiledUpToFirstError NothingLeftBehind ErrorsKeepExecutable
PROPERTY EveryRunEnds
CHECK_DEADLOCK FALSE
