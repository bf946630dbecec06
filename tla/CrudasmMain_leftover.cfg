SPECIFICATION Spec
CONSTANTS
  i1 = i1
  i2 = i2
  n1 = n1
  n2 = n2
  Instances = {i1, i2}
  Names = {n1, n2}
  NoName = NoName
  MaxRefused = 1
SYMMETRY InstanceSymmetry
INVARIANT DeletesTemporaryFiles
