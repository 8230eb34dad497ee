SPECIFICATION Spec
\* Five addresses: a list of three instructions has one at each end and one
\* between them, with two more for the other list, or to come and go.
CONSTANTS
  Instructions = {i1, i2, i3, i4, i5}
  NULL = NULL
INVARIANTS
  ListsAreHeld
PROPERTIES
  WalksAsAsked
