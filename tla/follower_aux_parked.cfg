SPECIFICATION Spec
CONSTANTS
  t1 = t1
  t2 = t2
  o1 = o1
  s1 = s1
  Adv = Adv
  None = None
  NSlots = 1
  Links = {t1, o1}
  Streams = {}
  TargetLinks = {t1, o1}
  AuxLinks = {o1}
  Malformed = {}
  Straps = {37}
  Mortal = {}
  Interval <- MCInterval
  MissLimit <- MCMissLimit
  MaxDue = 0
  ClaimGate = {TRUE}
  Ctrl = {}
  HostCommands = {"target on", "follow", "single off"}
  RelockAfter = 1
  GiveUpMiss = 1
  NeverHeardMiss = 2
  AuxMaxChain = 2
INVARIANTS RadioNeverParked
