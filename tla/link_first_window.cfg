CONSTANTS
  Bits = 4
  NChannels = 5
  ChanId = 6
  Hop = 2
  Maps <- MCMaps
  Intervals <- MCIntervals
  ConnIntervals <- MCConnIntervals
  LongestFirst = 2000000
  Offsets = {0, 5000}
  WinSize = 2500
  Guard = 300
  LeadPer = 1000
  Preamble <- MCPreamble
  RxReady = 70
  Steady = 2600
  Coded = 6000
  RelockSpan = 600
  LateLead = 20
  RelockAfter = 1
  UnmappedRelock = 2
  ProbeAfter = 1
  WidenMax = 5
  Limit = 5
  SingleTarget = TRUE
  Factors = {1}
  Continuation = 1
  Starts <- MCStarts
  SkipsAtStart = {0, 1}
  MaxEvents = 7
  MaxAhead = 2
  MaxLate = 2
  MaxUpdates = 0
SPECIFICATION Spec
INVARIANTS FirstWindowCovers
CHECK_DEADLOCK FALSE
