SPECIFICATION Spec
CONSTANTS
  Parsed <- ChangedParsed
  Meant <- ChangedMeant
  Inputs <- MCInputs
  MaxRounds <- MCMaxRounds
INVARIANT
  ResultMeansTheSame
CHECK_DEADLOCK FALSE
