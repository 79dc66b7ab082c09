CONSTANTS
  a = a  b = b
  Chars = {a, b}
  Nul = Nul  Undefined = Undefined
  OrigBufLen = 2
  MaxDoubleTimes = 2
  MaxText = 11
SPECIFICATION Spec
INVARIANTS TypeOK PrefixDefined LossAccounted CopiesText
CHECK_DEADLOCK FALSE
