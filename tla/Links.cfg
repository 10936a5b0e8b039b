\* Every link of a board, one at a time.
SPECIFICATION Spec
CONSTANTS
  MaxRead   = 6
  Depth     = 2
  MaxUsages = 2
  MaxWire   = 4
  BeyondLower = 0
  BeyondUpper = 9
  TxDepth   = 5
  MaxCuts   = 3
  Words     = 3
  MaxAir    = 2
  MaxSpare  = 2
INVARIANTS
  FieldsDisjoint
  PoolsBalance
  NothingStuck
  CutsCostOnePoll
  OneExchange
  OwnDescriptor
  ExtensionFollowsMode
PROPERTIES
  PadIsRead
  Flows
  ComputerCatchesUp
