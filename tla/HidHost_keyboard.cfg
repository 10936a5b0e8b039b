\* The devices of HidHost.cfg: a keyboard comes and goes before a pad.
SPECIFICATION Spec
CONSTANTS
  Nil = Nil
  Device  <- MCDevices
  Kind    <- MCKind
  Unit    <- MCUnit
  DeviceMax = 2
  Key     <- MCKey
INVARIANTS
  OnlyPadIsRead
\* The null pointer of a second descriptor stops the model (halted).
CHECK_DEADLOCK FALSE
