SPECIFICATION Spec
CONSTANTS
  Request = {r1, r2}
  NoRequest = NoRequest
  MaxPlugins = 2
  MaxUpload = 5
SYMMETRY MCSymmetry
INVARIANTS
  TypeOK
  PrunesOnlyOld
PROPERTIES
  RemovesOnlyUnused
  WedgedStays
