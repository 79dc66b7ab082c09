CONSTANTS
  confirm_off = confirm_off  info_file = info_file  exec_next = exec_next  call_fflush = call_fflush
  disassemble = disassemble  print = print
  code = code  stopped = stopped  output = output  place = place  value = value
  Texts <- MCTexts
  Debuggers = {"GDB", "PDB"}
  Commands <- MCCommands
  Answers <- MCAnswers
  Marker = Marker  Parse = Parse
  main = main  send_key = send_key  update_thread = update_thread
  Users = {send_key, update_thread}
  StartScript <- MCStartScript
  Scripts <- MCScripts
  MaxRestarts = 0
SPECIFICATION Spec
INVARIANT OutputIsOwn
CHECK_DEADLOCK FALSE
