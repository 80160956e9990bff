SPECIFICATION FairSpec
CONSTANTS
  Worker = {w1}
  Key = {k1, k2}
  LruMax <- MCLruMax
  Oversize <- MCOversize
  MaxPlugin = 2
  MaxConfig = 2
  MaxTime = 2
  MaxFault = 2
INVARIANTS
  TypeOK
  LruBounded
  ConfigAtLeastAnnounced
  SnapshotAtLeastAnnounced
  WhiteAtLeastConfig
  FreshVerdicts
PROPERTIES
  Delivered
  
CHECK_DEADLOCK FALSE
