SPECIFICATION Spec
CONSTANTS
  Sources <- MCSources
  MaxRest = 2
INVARIANTS
  TypeOK
  AcceptedAsMeant
  ExpressionsAreTaken
\* Parsing ends, accepted or refused.
CHECK_DEADLOCK FALSE
