SPECIFICATION Spec
CONSTANTS
  f = f
  x = x
  y = y
  NoName = NoName
  Names <- MCNames
  ParameterLists <- MCParameterLists
  MaxTables = 3
  MaxBorn = 4
INVARIANTS
  TypeOK
  NoIdentityReuse
  LastDeclarationWins
  OuterMeaningKept
  RegisterInvariant
\* The source program may end after any declaration.
CHECK_DEADLOCK FALSE
