\* Two pads of any type; transfers and packets may fail or be refused.
SPECIFICATION LiveSpec
CONSTANTS
  None = None
  Addr <- MCAddr
  Type <- Types
  MaxAir = 1
INVARIANTS
  Streaming
  NothingLeftBehind
  PlayedIsLit
PROPERTIES
  MountEnds
  WirelessConnects
