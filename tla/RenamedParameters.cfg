SPECIFICATION Spec
CONSTANTS
  f = f
  x = x
  y = y
  NoName = NoName
  Names <- AllNames
  Programs <- RenameKind
  MaxCalls = 2
INVARIANTS
  NoRedeclaration
\* A program may stop anywhere, refused or finished.
CHECK_DEADLOCK FALSE
