SPECIFICATION Spec
CONSTANTS
  d1 = d1
  d2 = d2
  NoSettings = NoSettings
  Devices <- TwoDevices
  Settings <- Both
  MaxEdits = 1
PROPERTIES
  StopBlocks
