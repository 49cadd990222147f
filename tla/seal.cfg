SPECIFICATION MCFairSpec
CONSTANTS
  k2 = k2
  Serve = serve
  Once = {once}
  Setups = {k1, k2}
  NoKey = NoKey
  MaxRestarts = 1
INVARIANTS SealKeyIsOriginal
PROPERTIES WaitingIsServed
CHECK_DEADLOCK FALSE
