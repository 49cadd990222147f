SPECIFICATION MixedSpec
CONSTANTS
  pa = pa
  pb = pb
  la = la
  lb = lb
  oa = oa
  ob = ob
  oc = oc
  od = od
  oe = oe
  of = of
  da = da
  db = db
  dc = dc
  rb = rb
  x = x
  y = y
  Pools = {pa, pb}
  Launchers = {la, lb}
  PoolOf <- MCPoolOf
  Replicas <- MCReplicas
  Ops = {oa, ob, oc, od, oe, of}
  Evidence = {e1}
  NoEvidence = NoEvidence
  MaxWork = 1
  Flaky = {la}
  DataFaults = FALSE
  Lineages = {x, y}
  Deploys = {da, db, dc}
  DeployPool <- MCDeployPool
  DeployOp <- MCDeployOp
  Target <- MCTarget
  Rollbacks = {rb}
  Source <- MCSource
  Goal <- MCGoal
  EnableOp <- MCEnableOp
  LeaveOp <- MCLeaveOp
INVARIANTS DeploysDoNotLeanOnEachOther RollbackKeepsRecovery
PROPERTIES IdleRedeployStrandsNothing LoneDeployKeepsRecovery
CONSTRAINT OneMix
CHECK_DEADLOCK FALSE
