\* The hotkeys during the 500 ms before the reboot.
SPECIFICATION Spec
CONSTANTS
  a1 = a1
  a2 = a2
  ff = ff
  ModeByte   <- MCModes
  Addr       <- MCAddrs
  ErasedAddr = ff
PROPERTY HotkeysAlwaysExchange
SYMMETRY MCSymmetry
