CONSTANTS
  Windows = {"Src", "Asm", "Dbg", "Reg"}
  Keys = {"home", "end", "ppage", "npage", "down", "up", "left", "right"}
  Texts <- MCTexts  MaxLine = 11
  WindowSizes <- MCWindowSizes
  FreshHeadLine = {"NULL", "garbage"}
SPECIFICATION Spec
INVARIANTS TypeOK NeverCrashes RowMatchesLine
PROPERTIES WrapsText StopsAtEnds
CHECK_DEADLOCK FALSE
