--------------------------- MODULE MCFlashConfig ---------------------------
(* Instances of FlashConfig for TLC.                                       *)
EXTENDS FlashConfig, TLC

CONSTANTS a1, a2, ff

\* SWITCH, WII, and the first byte that is no device mode, which main reads
\* as 0, XINPUT.
MCModes == {1, WII, 8}

MCAddrs == {a1, a2}

\* Neither the code nor the properties tell the addresses apart.
MCSymmetry == Permutations(MCAddrs)
=============================================================================
