CONSTANTS
  Chips = {"nrf52", "nrf54l"}
  CentralPhys = {"1M", "2M"}
  PeripheralPhys = {"2M"}
  Horizon = 1
  Commands = {"start", "stop"}
SPECIFICATION Spec
INVARIANT PhyNeverOvertaken
