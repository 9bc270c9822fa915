SPECIFICATION Spec
CONSTANTS
  Letter = {"a", "b", "R", "u", "n"}
  Digit = {"1"}
  Bytes <- MCBytes
  MaxBytes = 4
  Operators = {"||", "&&", "==", "<", "++", "-", "*", "%"}
  MaxOperators = 4
  Declarations <- MCDeclarations
  MaxLines = 4
  Headers <- MCHeaders
  Phrases <- MCPhrases
  Endings <- MCEndings
  MaxEndings = 1
  Values <- MCValues
  MaxValues = 3
  Digits = {"0", "1", "2"}
  Texts <- MCTexts
  Hexes = {}
  Alphabet <- MCAlphabet
  Width = 4
  IntOf <- MCIntOf
  TextOf <- MCTextOf
  BytesOf <- MCBytesOf
  World <- MCWorld
  MaxDepth = 4
PROPERTIES SourcesReadBackExactlyIf CanonNamesTheModule EffectsAreDeclared ValuesAgree
CHECK_DEADLOCK FALSE
