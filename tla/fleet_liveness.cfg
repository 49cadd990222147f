SPECIFICATION MCFairSpec
CONSTANTS
  Pools = {p1}
  Launchers = {l1}
  PoolOf <- MCOnePerPool
  Replicas <- MCOneReplica
  Ops = {o1, o2}
  Evidence = {e1}
  NoEvidence = NoEvidence
  MaxWork = 1
  Flaky = {l1}
  DataFaults = FALSE
CHECK_DEADLOCK FALSE
PROPERTIES CallEnds
