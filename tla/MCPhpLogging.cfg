SPECIFICATION FairLogSpec
CONSTANTS
  Burst = 2
  Refill = 1
  MaxTime = 2
  MaxLines = 3
  DayLen = 1
  Batch = 1
  MaxCrash = 1
  MaxReject = 1
INVARIANTS
  LogTypeOK
  AtMostBurst
  SavedIsDelivered
  
  ReadIsKept
  
PROPERTY Collected
CHECK_DEADLOCK FALSE
