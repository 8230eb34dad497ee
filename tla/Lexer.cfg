\* Every short text over each part of the alphabet.
CONSTANTS
  MaxLength = 5
  Sources <- MCSources
  Keywords <- MCKeywords
  IntBits = 6
  LongBits = 8
SPECIFICATION Spec
INVARIANTS
  TypeOK
  TokensAreLongest
  DataSaysTheText
  NothingIsLost
  TokensInOrder
PROPERTY
  CallsReturn
