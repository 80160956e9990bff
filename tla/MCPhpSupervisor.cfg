SPECIFICATION FairSpec
CONSTANTS
  NumAgents = 2
  LogAgent = 2
  MaxForks = 3
  MaxFault = 1
INVARIANTS
  OneLivePerAgent
  DeathsNoticed
  SparesServer
PROPERTIES
  AgentsComeBack
  SupervisorLeaves
  AgentsLeave
CHECK_DEADLOCK FALSE
