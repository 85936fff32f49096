CONSTANTS
  Chips = {"nrf52", "nrf54l"}
  CentralPhys = {"1M"}
  PeripheralPhys = {"2M"}
  Horizon = 1
  Commands = {"start"}
SPECIFICATION Spec
INVARIANT NeverEarly

