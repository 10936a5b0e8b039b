------------------------------- MODULE Links -------------------------------
(***************************************************************************)
(* The links between the board and what is connected to it.  main starts   *)
(* one component for the gamepad and one for the console, each for ever on *)
(* a core of its own, by the modes found in flash; they meet only in the    *)
(* report that new_report_fun converts.  One link of a board is watched at  *)
(* a time, from power-up on; the others keep still.                        *)
(***************************************************************************)
EXTENDS Integers, Sequences, FiniteSets

CONSTANTS MaxRead, Depth, MaxUsages, MaxWire, BeyondLower, BeyondUpper, TxDepth, MaxCuts, Words,
          MaxAir, MaxSpare

ASSUME WordsAssumption == Words \in Nat \ {0}

VARIABLES
  watched,  \* the link that runs
  \* HidParser
  phase, read, table, sizes, counting, usingIDs, usages, parents, current, found, taken,
  \* Ps2Keyboard
  keyboard_t, release, shift, down, repeating, wire, crossed,
  \* JoybusHost
  core, command, count, response, tx, rx, pio, sending, plugged,
  \* GcDevice
  core1, part, fifo, stray, line, awaiting, missed, cuts,
  \* PsxHost
  handler, data_psx, stored, clocking, exchange, keys, seen, pressed_hotkeys, held, swaps,
  \* BlueLink
  TYPE, link, peer, hid_host_cid, hid_host_descriptor_available, first_time, info, connected,
  asked, told, air, relayed,
  \* WiiLink
  step, hid, loop_wii, led_state, sdp, size, mode, switch_mode, reset_ir, converting, updating,
  extension, lost,
  \* UsbReport
  streams, holds, reported, spare, device_report, offering, bus, endpoint, computer

Parser == INSTANCE HidParser
Ps2    == INSTANCE Ps2Keyboard
Joybus == INSTANCE JoybusHost
Gc     == INSTANCE GcDevice
Psx    == INSTANCE PsxHost
Blue   == INSTANCE BlueLink
Wii    == INSTANCE WiiLink
Usb    == INSTANCE UsbReport

\* The variables of each link.
parser == <<phase, read, table, sizes, counting, usingIDs, usages, parents, current, found, taken>>
ps2    == <<keyboard_t, release, shift, down, repeating, wire, crossed>>
joybus == <<core, command, count, response, tx, rx, pio, sending, plugged>>
gc     == <<core1, part, fifo, stray, line, awaiting, missed, cuts>>
psx    == <<handler, data_psx, stored, clocking, exchange, keys, seen, pressed_hotkeys, held, swaps>>
blue   == <<TYPE, link, peer, hid_host_cid, hid_host_descriptor_available, first_time, info,
            connected, asked, told, air, relayed>>
wii    == <<step, hid, loop_wii, led_state, sdp, size, mode, switch_mode, reset_ir, converting,
            updating, extension, lost>>
usb    == <<streams, holds, reported, spare, device_report, offering, bus, endpoint, computer>>

vars == <<watched, parser, ps2, joybus, gc, psx, blue, wii, usb>>

-----------------------------------------------------------------------------
(* main.c                                                                  *)

Hosts == {"XINPUT", "DINPUT", "KBD_PS2", "PSX", "BLUETOOTH", "N64"}

Devices == {"XINPUT", "SWITCH", "DINPUT", "PSX", "BLUETOOTH", "WII", "GC"}

\* What a core runs for the gamepad: core 1, or core 0 when core 1 is kept for
\* a PlayStation or a GameCube.  USB pads are read with the parser when their
\* descriptor is not known.
HostLink(h, d) ==
  CASE h = "KBD_PS2" -> {"keyboard"}
    [] h = "PSX"     -> {"playstation pad"}
    [] h = "N64"     -> {"nintendo 64 pad"}
    [] h = "BLUETOOTH" -> IF d \in {"BLUETOOTH", "WII"} THEN {} ELSE {"bluetooth", "descriptor"}
    [] h = "DINPUT"  -> {"descriptor"}
    [] OTHER -> {}

\* What a core runs for the console, of what is modelled here.
DeviceLink(d) ==
  CASE d = "GC"  -> {"gamecube"}
    [] d = "WII" -> {"wii"}
    [] d = "BLUETOOTH" -> {"bluetooth"}
    [] d \in {"XINPUT", "SWITCH", "DINPUT"} -> {"usb"}
    [] OTHER -> {}

Init ==
  /\ \E HOST \in Hosts, DEVICE \in Devices :
       watched \in HostLink(HOST, DEVICE) \cup DeviceLink(DEVICE)
  /\ Parser!Init /\ Ps2!Init /\ Joybus!Init /\ Gc!Init /\ Psx!Init /\ Blue!Init /\ Wii!Init
  /\ Usb!Init
  /\ watched # "nintendo 64 pad" => plugged
  /\ watched # "bluetooth" => TYPE = "GENERIC"
  /\ watched # "usb" => streams

-----------------------------------------------------------------------------
\* All that is not part of the link.
Elsewhere(l) ==
  /\ UNCHANGED watched
  /\ IF l = "descriptor" THEN TRUE ELSE UNCHANGED parser
  /\ IF l = "keyboard" THEN TRUE ELSE UNCHANGED ps2
  /\ IF l = "nintendo 64 pad" THEN TRUE ELSE UNCHANGED joybus
  /\ IF l = "gamecube" THEN TRUE ELSE UNCHANGED gc
  /\ IF l = "playstation pad" THEN TRUE ELSE UNCHANGED psx
  /\ IF l = "bluetooth" THEN TRUE ELSE UNCHANGED blue
  /\ IF l = "wii" THEN TRUE ELSE UNCHANGED wii
  /\ IF l = "usb" THEN TRUE ELSE UNCHANGED usb

Step(l, A) == watched = l /\ A /\ Elsewhere(l)

Next ==
  \/ Step("descriptor", Parser!Next)
  \/ Step("keyboard", Ps2!Next)
  \/ Step("nintendo 64 pad", Joybus!Next)
  \/ Step("gamecube", Gc!Next)
  \/ Step("playstation pad", Psx!Next)
  \/ Step("bluetooth", Blue!Next)
  \/ Step("wii", Wii!Next)
  \/ Step("usb", Usb!Next)

\* The core that polls a Nintendo 64 pad, its PIO program and the pad go on;
\* the Bluetooth stacks send a report they were asked for and deliver it; time
\* passes, a USB gamepad reports, and the computer polls while it is awake.
Fairness ==
  /\ WF_vars(Step("nintendo 64 pad", Joybus!Run))
  /\ WF_vars(Step("bluetooth", Blue!CanSendNow))
  /\ WF_vars(Step("bluetooth", Blue!HandleReport))
  /\ WF_vars(Step("usb", Usb!Millisecond))
  /\ WF_vars(Step("usb", Usb!Report))
  /\ WF_vars(Step("usb", Usb!Offer))
  /\ WF_vars(Step("usb", Usb!Fetch))

Spec == Init /\ [][Next]_vars /\ Fairness

-----------------------------------------------------------------------------
(* The properties, stated in the modules of the links.                     *)

\* hidparser.c: the fields of a report do not share bits.
FieldsDisjoint == Parser!FieldsDisjoint

\* hidparser.c: the pools lose no structure.
PoolsBalance == Parser!PoolsBalance

\* ps2kbd.c: no key stays pressed that is not held.
NothingStuck == Ps2!NothingStuck

\* gamecube_device.c: a command that is broken off costs one poll at most.
CutsCostOnePoll == Gc!CutsCostOnePoll

\* psx.c: one exchange at a time is converted.
OneExchange == Psx!OneExchange

\* blue_host.c: each pad is read with its own descriptor.
OwnDescriptor == Blue!OwnDescriptor

\* wiimote_btstack.c: the extension follows the mode the gamepad chose.
ExtensionFollowsMode == Wii!ExtensionFollowsMode

\* joybus_controller.c: a pad that is there is read for ever.
PadIsRead == watched = "nintendo 64 pad" => Joybus!PadIsRead

\* blue_hid.c, blue_host.c: reports keep going while the link is up.
Flows == Blue!Flows

\* main.c, xinput_driver.c, hid_driver.c: a computer that is awake learns what
\* the user of a gamepad that repeats its reports holds.
ComputerCatchesUp == Usb!ComputerCatchesUp
=============================================================================
