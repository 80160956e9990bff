SPECIFICATION FairSpec
CONSTANTS
  Detector = {tomcat, dubbo}
  MaxChange = 3
  MaxFault = 3
INVARIANTS
  TypeOK
  OffOnlyWhenLost
PROPERTY
  HooksComeBack
CHECK_DEADLOCK FALSE
