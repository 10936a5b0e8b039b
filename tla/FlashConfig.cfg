\* Every writer of the sector, resets and power cuts at any point.
SPECIFICATION Spec
CONSTANTS
  a1 = a1
  a2 = a2
  ff = ff
  ModeByte   <- MCModes
  Addr       <- MCAddrs
  ErasedAddr = ff
INVARIANTS
  RamMatchesFlash
  ConsoleRemembered
PROPERTIES
  ImplementsStore
  SwapExchanges
SYMMETRY MCSymmetry
