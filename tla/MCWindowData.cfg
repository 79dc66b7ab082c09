SPECIFICATION Spec
CONSTANTS
  Debuggers = {"GDB", "PDB"}
  Plugins = {"Run", "Kil", "Prm", "Unt", "AtP", "Lay"}
  in_main = in_main
  in_helper = in_helper
  main_c = main_c
  helper_c = helper_c
  main_fn = main_fn
  helper_fn = helper_fn
  None = None
  Places <- MCPlaces
  File <- MCFile
  Func <- MCFunc
  ErrorWord <- MCErrorWord
  ModuleLevel <- MCModuleLevel
  Length <- MCLength
  Outputs <- MCOutputs
  MainFile = main_c
  MainFunc = main_fn
  MaxCommands = 2
  MaxQueuedUpdates = 9
INVARIANTS TypeOK ShowsProgram ShowsNoProgram OutputShownOnce ReadersFindAnswers
CHECK_DEADLOCK FALSE
