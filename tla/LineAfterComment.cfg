\* Short texts with comments, and the line a message would name.
CONSTANTS
  MaxLength = 5
  Sources <- MCComments
  Keywords <- MCKeywords
  IntBits = 6
  LongBits = 8
SPECIFICATION Spec
INVARIANT LineIsTheActualLine
