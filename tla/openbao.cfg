SPECIFICATION OpenBaoSpec
CONSTANTS
  Runs = {r1, r2, r3}
  Outputs = {o1, o2}
  Classes = {c1, c2}
  Cutovers = {u1, u2}
  NoFile = NoFile
  NoRun = NoRun
  a = a
  b = b
  c = c
  Provisions = {a, b, c}
  Kind <- MCTwoApi
  Nobody = Nobody
  Faulty = {a}
  Grace = 3
  Budget = 4
  Inits = {i1, i2}
  Nothing = Nothing
  Foreign = Foreign
SYMMETRY MCSymmetry
INVARIANTS
  CommandRunsOncePerOutput ObservedIsRevoked CutoverFollowsRevocation
  CompletedIsUsable PairIsWhole FailureLeavesNothing SecretIsConfined
  StopsInBudget UninterruptedIsKept
CHECK_DEADLOCK FALSE
