CONSTANTS
  Request = {r1}
  good = good
  poor = poor
  foreign = foreign
  here = here
  elsewhere = elsewhere
  listed = listed
  other = other
  read = read
  guarded = guarded
  open = open
  AnyOrigin = AnyOrigin
  None = None
  NoScope = NoScope
  UnknownTool = UnknownTool
  Wildcard = Wildcard
  Origin = {listed, other}
  AllowedOrigin = {listed}
  Matching <- MCMatching
  Token = {good, poor, foreign}
  Audience <- MCAudience
  Granted <- MCGranted
  Resource = here
  Scope = {read}
  Tool = {guarded, open}
  ToolScope <- MCToolScope
  PublicMethods <- DefaultPublicMethods
  ValidateArgs = TRUE
SPECIFICATION FairSpec
INVARIANTS OnlyEntitledCallsReachTheHost AuditTellsTheAnswer AnswersCarryTheirId
PROPERTIES EveryRequestEnds
CHECK_DEADLOCK FALSE
