SPECIFICATION Spec
CONSTANTS
  Width = 4
  OverflowChecks = TRUE
  Programs <- Programs_
  Base <- Base_
  MaxDepth = 5
PROPERTIES EnginesAgree TypesHold WasmAsWalked
CHECK_DEADLOCK FALSE
