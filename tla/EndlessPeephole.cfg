SPECIFICATION Spec
CONSTANTS
  Parsed <- EndlessParsed
  Meant <- EndlessMeant
  Inputs <- MCInputs
  MaxRounds <- MCMaxRounds
PROPERTY
  Terminates
CHECK_DEADLOCK FALSE
