SPECIFICATION MCFairSpec
CONSTANTS
  Order <- MCOrder
INVARIANTS EndsRestored
PROPERTIES FaultsOnlyWhole RestoreIsProven SmokeEnds
CHECK_DEADLOCK FALSE
