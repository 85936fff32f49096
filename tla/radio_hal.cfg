CONSTANTS
  Chips = {"nrf52", "nrf54l"}
  CentralPhys = {"1M"}
  PeripheralPhys = {"1M", "2M"}
  Horizon = 1
  Commands = {"start", "stop"}
SPECIFICATION LiveSpec
INVARIANTS TypeOK BufferUntouched PhyTakesTurns
PROPERTIES ReceptionResumes CallbackComes
