SPECIFICATION Spec
CONSTANTS
  Parsed <- MCParsed
  Meant <- MCMeant
  Inputs <- MCInputs
  MaxRounds <- MCMaxRounds
INVARIANTS
  TypeOK
  PassesFindWhatTheyNeed
  BlocksFollowControl
  CyclesAreMutual
  MeaningKept
  NamesResolve
PROPERTIES
  RefinesSchedule
  Terminates
CHECK_DEADLOCK FALSE
