SPECIFICATION Spec
CONSTANTS
  WIDTH = 3
  HEIGHT = 3
  BYTE = 4
  WORD = 512
  High <- HighChars
  Messages <- SomeMessages
  MaxCalls = 3
INVARIANTS TypeOK ShowsTheText PrintsTheMessage
CHECK_DEADLOCK FALSE
