CONSTANTS
  a1 = a1
  a2 = a2
  o1 = o1
  k1 = k1
  k2 = k2
  s1 = s1
  None = None
  Rpas = {a1, a2, o1}
  Statics = {s1}
  Named = {s1, a1}
  Irks = {k1, k2}
  Key <- MCKey
  Own <- MCOwn
  Size = 2
SPECIFICATION LiveSpec
INVARIANTS TypeOK TargetsAgree VerdictIsRight
PROPERTIES CancelSticks TargetTracksRpa
CHECK_DEADLOCK FALSE
