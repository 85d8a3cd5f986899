CONSTANTS
  desk = desk
  web = web
  agent = agent
  uriA = uriA
  uriB = uriB
  Req = {r1, r2}
  Browser = {b1}
  User = {u1, u2}
  Nobody = Nobody
  Client = {desk}
  Redirect = {uriA}
  Registered = {desk}
  RegisteredRedirects <- DeskRedirects
  Confidential = {}
  CimdClient = {}
  CimdRedirects <- NoCimdRedirects
  Allowlist = {}
  AllowUnregistered = FALSE
  RequireRegistered = TRUE
  Challenge = {v1}
  Resource = {mcp}
  ScopeName = {}
  Advertised = {}
  DefaultScopes = {}
  PreApproved = {}
  TicketId = {t1}
  CodeId = {d1, d2}
  TicketTtl = 1
  CodeTtl = 1
  MaxNow = 3
  Faults = TRUE
SYMMETRY RequestSymmetry
SPECIFICATION Spec
INVARIANTS SingleUseUntilExpiry DecisionIsFinal OnlyTheUserSpendsATicket
PROPERTIES ConsentIsOneLine
