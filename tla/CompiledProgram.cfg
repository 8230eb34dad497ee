SPECIFICATION Spec
CONSTANTS
  f = f
  x = x
  y = y
  NoName = NoName
  Names <- AllNames
  Programs <- AllKinds
  MaxCalls = 2
INVARIANTS
  TypeOK
  NoUndeclaredAccess
  NoRedeclaration
  NoUninitialisedRead
  StackDiscipline
  JumpsResolve
  ParseAssertions
  DeclarationsHaveAPlace
  EveryNameMeansItsBlock
  MainHasNoLocals
\* A program may stop anywhere, refused or finished.
CHECK_DEADLOCK FALSE
