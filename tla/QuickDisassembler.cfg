SPECIFICATION FairSpec
CONSTANTS
  Size = 4
  MaxLen = 3
  MaxStart = 5
  MaxLabels = 1
INVARIANTS
  Contiguous
  EntriesTellTheTruth
  SkipsAreMaximal
  PrintsWhatItDecoded
PROPERTIES
  Terminates
  ImplementsListing
