\* A hub with any two of the units, in both host modes.
SPECIFICATION Spec
CONSTANTS
  Nil = Nil
  Device  <- MCDevices
  Kind    <- MCKind
  Unit    <- MCUnit
  DeviceMax = 2
  Key     <- MCKey
INVARIANTS
  ReadAsItself
  OwnDescriptor
  SlotAvailable
  KeysSurviveMouse
PROPERTIES
  CapsOncePerPress
\* The null pointer of a second descriptor stops the model (halted).
CHECK_DEADLOCK FALSE
