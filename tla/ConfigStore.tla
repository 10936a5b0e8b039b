---------------------------- MODULE ConfigStore ----------------------------
(***************************************************************************)
(* What the converter promises about its persistent configuration: the     *)
(* settings change one group at a time, each change takes effect at once   *)
(* and leaves the other settings alone, except that all of them may be     *)
(* lost together.  FlashConfig implements it with a sector that must be    *)
(* erased before it can be written again.                                  *)
(***************************************************************************)
CONSTANTS
  ModeByte,    \* bytes a mode setting may hold
  Addr,        \* Bluetooth addresses
  Blank        \* the configuration of an erased sector

VARIABLE cfg

\* The web page sets the modes, and the address of a Bluetooth pad with them.
SetMode ==
  \E h, d \in ModeByte, a \in Addr \cup {Blank.bt, cfg.bt} :
    cfg' = [cfg EXCEPT !.host = h, !.device = d, !.bt = a]

\* Switched off, the features keep their data.
SetFeatures ==
  \/ cfg' = [cfg EXCEPT !.set = 0]
  \/ \E a \in ModeByte : cfg' = [cfg EXCEPT !.set = 1, !.alt = a]

\* The hotkeys store the device mode as the alternative one.
SwapModes ==
  \E d \in ModeByte : cfg' = [cfg EXCEPT !.device = d, !.alt = cfg.device]

SaveConsole ==
  \E a \in Addr \cup {Blank.wii} : cfg' = [cfg EXCEPT !.wiiset = 1, !.wii = a]

Lose == cfg' = Blank

Init == cfg = Blank

Next == SetMode \/ SetFeatures \/ SwapModes \/ SaveConsole \/ Lose

Spec == Init /\ [][Next]_cfg
=============================================================================
