CONSTANTS
  Req = {r1, r2}
  User = {u1}
  Client = {c1, c2}
  Resource = {mcp}
  ScopeName = {read, write}
  Advertised = {read, write}
  TokenId = {t1, t2, t3}
  Lifetime = 1
  MaxNow = 2
  MaxGrants = 2
  Faults = TRUE
SYMMETRY Symmetry
SPECIFICATION Spec
INVARIANTS TypeOK RotationPreservesTheGrant AcceptedTokenIsReplaced
  RemovedUserRunsOut
PROPERTIES GrantIsOneLine RevokedTokenIsDead OnlyItsClientSpendsAToken
