CONSTANTS
  Req = {r1}
  Host = {ours, theirs}
  AllowedHosts = {ours}
  RestrictsHosts = TRUE
  Origin = {listed, other}
  AllowedOrigins = {listed}
  Limit <- MCLimit
  MaxChunks = 3
  None = None
  Parsed = Parsed
  Invalid = Invalid
SPECIFICATION FairSpec
INVARIANTS BodyIsWhole RefusedBeforeAnythingRuns AnsweredOnceThenClosed
PROPERTIES EveryRequestIsAnswered
CHECK_DEADLOCK FALSE
