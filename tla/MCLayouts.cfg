CONSTANTS
  Table <- MCTable
  WinPlugins = {1, 3, 4, 5}
  TopbarPlugins = {1, 4}
  Keys <- MCKeys
  CommandLetters <- MCCommandLetters
  Debuggers <- MCDebuggers
  WordLen = 4
  TitleLength <- MCTitleLength
  Elusive = {5}
  NameWidth = 3
  KeyStrLen = 14
  Segments = 3
  Files <- MCFiles
  Screens <- MCScreens
  Fresh = {"null", "garbage"}
  MaxRenders = 3
SPECIFICATION Spec
INVARIANTS TypeOK CommandFits LastBindingWins ArtIsMatrix Tiling ShowsChosenLayout TitlesFound CleansUp
CHECK_DEADLOCK FALSE
