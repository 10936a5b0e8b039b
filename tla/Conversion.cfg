CONSTANTS
  MaxHeld = 3
  StickEnds <- MCStickEnds
  Zones <- MCZones
  Garbage = Garbage
SPECIFICATION Spec
INVARIANTS Chained RimIsFelt
PROPERTIES EveryButtonCounts
