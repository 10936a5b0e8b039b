------------------------- MODULE MCWiimoteEmulator -------------------------
(* Instances of WiimoteEmulator for TLC.                                   *)
EXTENDS WiimoteEmulator

Plain(ops) == [op : ops]

Mode(modes) == [op : {"mode"}, mode : modes, continuous : BOOLEAN]

Reads(ops, sizes) == [op : ops, packets : sizes]

\* The extension port with the Motion Plus and encryption, the interleaved
\* reporting modes 0x3e and 0x3f, and reads of none to three packets.
MCRequests ==
  Plain({"acked", "unplugWmp", "stopWmp", "encrypt", "silent", "status"})
    \cup Reads({"readExtension"}, {1}) \cup Reads({"readWmp"}, {2})
    \cup Reads({"readEeprom"}, {0, 3})
    \cup [op : {"startWmp"}, type : {5}]
    \cup Mode({62})

\* What leads to reads issued before all earlier replies have come.
MCReadRequests == Plain({"status"}) \cup Reads({"readEeprom"}, {2})
=============================================================================
