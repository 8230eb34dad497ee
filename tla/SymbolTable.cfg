SPECIFICATION LinkedSpec
CONSTANTS
  first = first
  second = second
  j = j
  k = k
  l = l
  NULL = NULL
  NoTable = NoTable
  Addresses <- MCAddresses
  Keys <- MCKeys
  Hash <- MCHash
  Sizes <- MCSizes
  Tables <- MCTables
  MaxCount = 3
SYMMETRY MCSymmetry
INVARIANTS
  TypeOK
  PagesAreLinked
  EveryPageHasAnOwner
  LinksAreChains
PROPERTY
  ImplementsMaps
