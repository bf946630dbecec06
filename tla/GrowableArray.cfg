SPECIFICATION SearchThenUse
CONSTANTS
  InitSize = 0
  Bits = 8
  Values = {"a", "b"}
  Fresh = "a"
  Iters = {"i"}
  NULL = NULL
  NoAnswer = "none"
  MaxLevels = 3
  MaxLength = 7
INVARIANTS
  TypeOK
  PointersRight
  FindsTheLevel
PROPERTIES
  ImplementsSequence
  Terminates
