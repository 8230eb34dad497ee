SPECIFICATION Spec
CONSTANTS
  f = f
  x = x
  y = y
  NoName = NoName
  Names <- AllNames
  Programs <- BranchNameKinds
  MaxCalls = 2
INVARIANTS
  EveryNameMeansItsBlock
\* A program may stop anywhere, refused or finished.
CHECK_DEADLOCK FALSE
