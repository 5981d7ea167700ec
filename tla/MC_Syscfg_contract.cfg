CONSTANTS
  DualBank = TRUE
  MaxPort = 74
  PortIds = {65, 67, 74, 75}
  PinIds = {0, 5, 15, 16}
SPECIFICATION Spec
INVARIANT
  SyscfgAsCommented
