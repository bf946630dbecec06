SPECIFICATION Spec
CONSTANTS
  Size = 4
  MaxLen = 3
  MaxStart = 5
  MaxLabels = 1
INVARIANT RawBinaryListed
