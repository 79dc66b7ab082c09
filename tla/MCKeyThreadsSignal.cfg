CONSTANTS
  q = q  r = r  s = s  Digit = Digit  Esc = Esc
  Keys = {q, r, s, Digit, Esc}
  Letters = {q, r, s}
  BoundKeys = {q, r, s}
  BoundTo <- MCBoundTo
  UnboundIndex = {"none"}
  KeyPipeSize = 2
SPECIFICATION Spec
INVARIANT SelectExitWakesGetKey
