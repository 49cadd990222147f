SPECIFICATION InitSpec
CONSTANTS
  Inits = {i1, i2}
  Nothing = Nothing
  Foreign = Foreign
INVARIANTS ResponseIsKept
CHECK_DEADLOCK FALSE
