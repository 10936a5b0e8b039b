\* The extension port, hotplug, reporting modes and memory, with overlapping
\* requests and the link coming and going.
SPECIFICATION FairSpec
CONSTANTS
  Request <- MCRequests
  HOTPLUG  = 2
  MaxQueue = 1
INVARIANTS
  FormatMatchesExtension
  ConsoleIsTold
  ReadsAreFilled
PROPERTIES
  UnpluggedLongEnough
  ExecutedOnce
  ExtensionArrives
