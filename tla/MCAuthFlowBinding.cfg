CONSTANTS
  desk = desk
  web = web
  agent = agent
  uriA = uriA
  uriB = uriB
  Req = {r1}
  Browser = {b1}
  User = {u1, u2}
  Nobody = Nobody
  Client = {desk, web, agent}
  Redirect = {uriA, uriB}
  Registered = {desk}
  RegisteredRedirects <- DeskRedirects
  Confidential = {desk}
  CimdClient = {agent}
  CimdRedirects <- AgentRedirects
  Allowlist = {uriB}
  AllowUnregistered = TRUE
  RequireRegistered = FALSE
  Challenge = {v1, v2}
  Resource = {mcpA, mcpB}
  ScopeName = {read, write}
  Advertised = {read}
  DefaultScopes = {read}
  PreApproved = {desk, web}
  TicketId = {t1}
  CodeId = {d1}
  TicketTtl = 1
  CodeTtl = 1
  MaxNow = 0
  Faults = FALSE
SYMMETRY DataSymmetry
SPECIFICATION Spec
INVARIANTS TokensTraceToConsent CodesGoToTrustedRedirects NoApprovalLost
