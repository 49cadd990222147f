SPECIFICATION ServingSpec
CONSTANTS
  pa = pa
  pb = pb
  la = la
  lb = lb
  oa = oa
  ob = ob
  oc = oc
  od = od
  oe = oe
  of = of
  da = da
  db = db
  dc = dc
  rb = rb
  x = x
  y = y
  Pools = {pa, pb}
  Launchers = {la, lb}
  PoolOf <- MCPoolOf
  Replicas <- MCReplicas
  Ops = {oa, ob}
  Evidence = {e1}
  NoEvidence = NoEvidence
  MaxWork = 1
  Flaky = {}
  DataFaults = FALSE
  Lineages = {x}
  Deploys = {da, db}
  DeployPool <- MCDeployPool
  DeployOp <- MCDeployOp
  Target <- MCTarget
  Rollbacks = {}
  Source <- MCNone
  Goal <- MCNone
  EnableOp <- MCNone
  LeaveOp <- MCNone
PROPERTIES WorkKeepsRecoveryPool
CHECK_DEADLOCK FALSE
