SPECIFICATION Spec
CONSTANTS
  Bits = 8
  MaxDepth = 12
  Files <- MCFiles
  Sessions <- MCSessions
  Scripts <- MCScripts
  MeaningsOf <- MCMeaningsOf
INVARIANTS LineNumbers NoRecursion ForwardsDefined ScansAgree Meaning
