\* Two consoles paired in one session.
SPECIFICATION Spec
CONSTANTS
  a1 = a1
  a2 = a2
  ff = ff
  ModeByte   <- MCModes
  Addr       <- MCAddrs
  ErasedAddr = ff
INVARIANT SkippedSaveIsRedundant
SYMMETRY MCSymmetry
