SPECIFICATION Spec
CONSTANTS
  Pools = {p1}
  Launchers = {l1, l2}
  PoolOf <- MCOnePerPool
  Replicas <- MCTwoReplicas
  Ops = {o1, o2}
  Evidence = {e1, e2}
  NoEvidence = NoEvidence
  MaxWork = 1
  Flaky = {l1}
  DataFaults = TRUE
SYMMETRY MCSymmetry
CHECK_DEADLOCK FALSE
INVARIANTS RetiredPoolIsIdle WorkIsAuthorized WithdrawalIsInForce
PROPERTIES AttestationIsFinal RefinesControl
