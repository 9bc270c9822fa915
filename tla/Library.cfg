SPECIFICATION Spec
CONSTANTS
  Width = 4
  OverflowChecks = TRUE
  Code <- CodeOf
  Wide = {"e'", "E'"}
  Space <- Space_
  UpperOf <- Upper_
  LowerOf <- Lower_
  Elements <- Elements_
  Items <- Items_
  Functions1 <- Functions1_
  Words <- Words_
  Parts <- Parts_
  MaxLen = 5
CHECK_DEADLOCK FALSE
PROPERTIES ListsAndSetsAgree TextsAndPathsAgree IntsAndRecordsAgree
