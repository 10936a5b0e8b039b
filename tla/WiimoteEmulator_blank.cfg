\* Reads issued before all earlier replies have come.
SPECIFICATION Spec
CONSTANTS
  Request <- MCReadRequests
  HOTPLUG  = 2
  MaxQueue = 1
INVARIANT NoBlankReport
