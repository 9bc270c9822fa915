SPECIFICATION Spec
CONSTANTS
  Ints = {"1", "2", "3", "4", "5", "6", "7", "0", "9"}
  Strs <- MCStrs
  Wide <- MCWide
  RunIds <- MCRunIds
  Interps <- MCInterps
  Letter = {"a", "e"}
  Digit = {"0", "1", "9"}
  DigitOf <- MCDigitOf
  Width = 4
  Pieces <- MCPieces
  MaxPieces = 3
  Operands <- MCOperands
  Around <- MCAround
  MaxAround = 3
  Lines <- MCLines
  MaxLines = 3
PROPERTIES  NothingIsLostExactlyIf  
CHECK_DEADLOCK FALSE
