CONSTANTS
  MaxErrors = 2
  Call = {c1, c2}
  Tool <- Tools
  Accepts <- ConstructionAccepts
  ErrorsOf <- Validate
SPECIFICATION FairSpec
INVARIANTS SchemaIsEnforced NoListenerLeftBehind AbortsAreHeard ResultTellsTheCause
PROPERTIES EveryCallEnds
CHECK_DEADLOCK FALSE
