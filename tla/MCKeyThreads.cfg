CONSTANTS
  q = q  r = r  s = s  Digit = Digit  Esc = Esc
  Keys = {q, r, s, Digit, Esc}
  Letters = {q, r, s}
  BoundKeys = {q, r, s}
  BoundTo <- MCBoundTo
  UnboundIndex = {"none", "select"}
  KeyPipeSize = 2
SPECIFICATION FairSpec
INVARIANTS TypeOK OneTerminalReader FlagsTellTruth
PROPERTY SessionEnds
