SPECIFICATION FairSpec
CONSTANTS
  Admin = {a1, a2}
  Task = {t1}
  Slot = {s1, s2}
  Md5 = {p1, p2}
  NoMd5 = NoMd5
  NoSlot = NoSlot
  MaxTime = 2
  MaxEvents = 1
PROPERTIES
  StuckOnlyWhenAhead
