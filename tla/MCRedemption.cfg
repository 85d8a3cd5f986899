CONSTANTS
  k1 = k1
  k2 = k2
  k3 = k3
  Key <- MCKey
  Expiry <- MCExpiry
  Req = {r1, r2, r3}
  MaxNow = 8
  PruneInterval = 2
  Second = 2
SYMMETRY RequestSymmetry
SPECIFICATION RedemptionSpec
INVARIANTS RedeemedOnceUntilExpiry
PROPERTIES PruneClears KeepsContract KvKeepsContract
CHECK_DEADLOCK FALSE
