SPECIFICATION FairSpec
CONSTANTS
  a = a
  b = b
  w1 = w1
  w2 = w2
  w3 = w3
  Root = {a, b}
  Worker = {w1, w2, w3}
  DocRoot <- MCDocRoot
  MaxRoots = 5
  MaxChange = 2
  MaxFault = 2
INVARIANT RegistryBounded
PROPERTY DependenciesKnown
CHECK_DEADLOCK FALSE
