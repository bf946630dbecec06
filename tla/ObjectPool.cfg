SPECIFICATION Spec
CONSTANTS
  h1 = h1
  h2 = h2
  h3 = h3
  Handles = {h1, h2, h3}
  MaxItems = 3
SYMMETRY HandleSymmetry
INVARIANTS
  CountsExact
  NothingLost
PROPERTY ImplementsHeap
