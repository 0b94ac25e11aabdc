SPECIFICATION FairSpec
CONSTANTS
  m1 = m1
  m2 = m2
  m3 = m3
  Models = {m1, m2, m3}
  Pools <- MCPools
  LongestPool = 3
  MaxWorkers = 2
  Agents = {m2, m3}
INVARIANTS
  TypeOK
  RowsOfThePool
  JudgedOnOneTree
  ExitZeroIsAReportedPass
PROPERTIES
  EveryBakeOffEnds
  FanOutIsOneRound
CHECK_DEADLOCK FALSE
