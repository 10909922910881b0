SPECIFICATION Spec
CONSTANTS
  Depth = {1, 2, 3}
  Flow = {"unit", "scope", "part", "list", "text"}
  ContextFlow = {"scope"}
  EsmWords <- Imports
  ProseWords <- Beginnings
  MaxNodes = 5
  MaxOpen = 5
  None = None
INVARIANTS EndsWhatIsClosed SectionsHoldTheirOwn UnitsKeepTheirPlace
CHECK_DEADLOCK FALSE
