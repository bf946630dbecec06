SPECIFICATION Spec
CONSTANTS
  Size = 3
  Symbols = {"s", "t"}
  Files <- MCFiles
  MaxRows = 3
INVARIANTS
  InfoConsistent
  MetadataOfRows
  AcceptsComplete
