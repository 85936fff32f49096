CONSTANTS
  Bits = 4
  NChannels = 5
  Kinds = {"cis"}
  NStreams = 2
  ChanIds <- MCChanIds
  Map <- MCMap
  Interval = 16
  Nse = 2
  Layouts <- MCLayouts
  PacketAir = 1
  Ifs = 1
  WideGuard = 3
  LockedGuard = 1
  Tail = 1
  LateLead = 1
  RxReady = 0
  Span = 2
  SpanMargin = 2
  WidenEvery = 1
  WidenMax = 2
  RspDelay = 3
  RelockMiss = 2
  Limit = 3
  Rounding = 0
  Errors = {0}
  Starts <- MCStarts
  Lates = {2, 14}
  MaxUpsets = 0
  MaxDrift = 0
SPECIFICATION Spec
INVARIANTS AnchorIsPacketStart
CHECK_DEADLOCK FALSE
