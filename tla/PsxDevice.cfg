\* Every command; SEL may fall again before core 0 has served the interrupt,
\* and card payloads hold the pad's address; progress of core 1 under the
\* fairness of the console and the interrupt.
SPECIFICATION FairSpec
CONSTANTS
  Consoles <- MCConsoles
  RxDepth  = 1
INVARIANTS
  ReplyLengthMatchesId
  ModeMatchesPollConfig
  RepliesInStep
PROPERTIES
  SetupChangesOnlyInConfig
  CardTrafficIgnored
  TransactionEnds
