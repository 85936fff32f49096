SPECIFICATION Spec
CONSTANTS
  t1 = t1
  t2 = t2
  o1 = o1
  s1 = s1
  Adv = Adv
  None = None
  NSlots = 2
  Links = {t1, o1}
  Streams = {s1}
  TargetLinks = {t1}
  AuxLinks = {}
  Malformed = {}
  Straps = {37}
  Mortal = {}
  Interval <- MCInterval
  MissLimit <- MCMissLimit
  MaxDue = 0
  ClaimGate = {TRUE}
  Ctrl = {"terminate", "cis_ind", "cis_terminate"}
  HostCommands = {"target on", "single off", "follow"}
  RelockAfter = 1
  GiveUpMiss = 1
  NeverHeardMiss = 2
  AuxMaxChain = 0
INVARIANTS TypeOK NoDuplicateFollow ActiveSlotScheduled RadioNeverParked
PROPERTIES ExclusiveFollow FollowsTargetOnly HeardLinkIsKept
