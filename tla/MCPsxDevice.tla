---------------------------- MODULE MCPsxDevice ----------------------------
(* Instances of PsxDevice for TLC.                                         *)
EXTENDS PsxDevice

\* The commands that set the mode, one of those with a constant reply (they
\* share a handler in the model), and an unknown one (0x48); 0x43 and 0 to a
\* card look like a pad's bytes.
Patient ==
  [command |-> {CMD_POLL, CMD_CONFIG, CMD_STATUS, CMD_ANALOG_SWITCH, CMD_POLL_CONFIG, 72},
   arg     |-> {0, 1, 3},
   card    |-> {CMD_CONFIG, 0},
   hasty   |-> FALSE]

\* The motors, whose mapping no other command reads or writes.
Rumbling ==
  [command |-> {CMD_POLL, CMD_CONFIG, CMD_ENABLE_RUMBLE},
   arg     |-> {0, 1},
   card    |-> {CMD_CONFIG, 0},
   hasty   |-> FALSE]

\* The poll configuration with what leads to it; a payload may hold 0x01, the
\* pad's address.
Hasty ==
  [command |-> {CMD_CONFIG, CMD_POLL_CONFIG},
   arg     |-> {0, 1},
   card    |-> {PadAddress, CMD_CONFIG},
   hasty   |-> TRUE]

MCConsoles == {Patient, Rumbling, Hasty}

=============================================================================
