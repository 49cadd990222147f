SPECIFICATION MCFairSpec
CONSTANTS
  NoReport = NoReport
  Identities <- MCIdentities
  Skews <- MCSkews
  MaxElapsed = 4
  current = current
  earlier = earlier
  Workers = {current, earlier}
  NoId = NoId
  MaxIds = 3
INVARIANTS CoveredTokensAreRevoked ObservedAssignmentHolds
PROPERTIES KeepsPromise NothingStays
CHECK_DEADLOCK FALSE
