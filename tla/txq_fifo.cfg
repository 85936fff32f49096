SPECIFICATION FairSpec
CONSTANTS
  Lens <- MCFields
  Datas <- MCFields
  Ticks <- MCFields
  Message <- MCMessage
  Blank <- MCBlank
  Depth = 4
  CounterMod = 2
INVARIANTS TypeOK NoLostWakeup
PROPERTIES ImplementsFifo EveryMessageLeaves
