SPECIFICATION Spec
CONSTANTS
  Runs = {u1, u2}
  NoRun = NoRun
  Images = {i1}
  a1 = a1
  a2 = a2
  b1 = b1
  b2 = b2
  Supplies <- MCSupplies
  Nothing = Nothing
  Torn = Torn
  MaxClusters = 2
INVARIANTS TypeOK InitAskedOnce BootstrapIsWhole GoesOnWithOriginal PinsAgree
PROPERTIES EnvelopeIsOriginal
SYMMETRY MCSymmetry
CHECK_DEADLOCK FALSE
