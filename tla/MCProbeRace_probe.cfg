SPECIFICATION Spec
CONSTANTS
  p1 = p1
  p2 = p2
  Probers <- MCProbers
  MaxReloads = 2
SYMMETRY Symmetry
INVARIANT ProbeSeesBuiltConfig
