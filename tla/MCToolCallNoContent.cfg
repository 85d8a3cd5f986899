CONSTANTS
  MaxErrors = 2
  Call = {c1}
  Tool <- ApiTools
  Accepts <- ConstructionAccepts
  ErrorsOf <- Validate
SPECIFICATION Spec
PROPERTIES SuccessIsShaped
CHECK_DEADLOCK FALSE
