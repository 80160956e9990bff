SPECIFICATION Spec
CONSTANTS
  Admin = {a1}
  Task = {t1, t2}
  Slot = {s1, s2}
  Md5 = {p1, p2}
  NoMd5 = NoMd5
  NoSlot = NoSlot
  MaxTime = 1
  MaxEvents = 1
SYMMETRY Symmetry
INVARIANTS
  TypeOK
  NeverAhead
  HoldsPublished
PROPERTIES
  ImplementsDelivery
