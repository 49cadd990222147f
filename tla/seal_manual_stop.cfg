SPECIFICATION Spec
CONSTANTS
  Serve = serve
  Once = {}
  Setups = {k1}
  k2 = k2
  NoKey = NoKey
  MaxRestarts = 1
PROPERTIES ManualStopIsRespected
CHECK_DEADLOCK FALSE
