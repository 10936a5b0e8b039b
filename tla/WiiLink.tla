------------------------------ MODULE WiiLink ------------------------------
(***************************************************************************)
(* The Bluetooth link to a Wii (wiimote_btstack.c) and the report that the  *)
(* two cores share (case WII of new_report_fun, input_update_wiimote).      *)
(*                                                                         *)
(* One core converts reports of the gamepad and changes mode when HOME and  *)
(* DOWN are let go; the other, in the run loop of the stack, turns reset_ir  *)
(* into a change of the extension.  Neither locks anything.                 *)
(***************************************************************************)
EXTENDS Integers

VARIABLES
  step,      \* of hci_packet_handler: "off", "working", "iac", "discoverable"
  hid,       \* the HID channel: "none", "opening" or "open"
  loop_wii,  \* is the timer of the task running?
  led_state, \* is the timer of the LED running?
  sdp,       \* the SDP channel: 0 none, else its cid
  size,      \* does an SDP answer wait to be sent?
  mode, switch_mode, reset_ir,  \* of input_report
  converting, updating,         \* next step of each core
  extension, \* wiimote.usr.connected_extension_type
  lost       \* a change of mode was cleared before it was seen

wiiVars == <<step, hid, loop_wii, led_state, sdp, size, mode, switch_mode, reset_ir,
             converting, updating, extension, lost>>

link   == <<step, hid, loop_wii, led_state, sdp, size>>
report == <<mode, switch_mode, reset_ir, converting>>
wiimote == <<updating, extension, lost>>

Modes == {"NO_EXTENSION", "WIIMOTE_AND_NUNCHUCK", "CLASSIC_CONTROLLER"}

Following(m) ==
  CASE m = "NO_EXTENSION" -> "WIIMOTE_AND_NUNCHUCK"
    [] m = "WIIMOTE_AND_NUNCHUCK" -> "CLASSIC_CONTROLLER"
    [] OTHER -> "NO_EXTENSION"

-----------------------------------------------------------------------------
\* wiimote_emulator
Init ==
  /\ step = "off" /\ hid = "none" /\ loop_wii = FALSE /\ led_state = TRUE
  /\ sdp = 0 /\ size = FALSE
  /\ mode = "NO_EXTENSION" /\ switch_mode = FALSE /\ reset_ir = FALSE
  /\ converting = "" /\ updating = "" /\ extension = "NO_EXTENSION" /\ lost = FALSE

(* hci_packet_handler.                                                     *)

\* BTSTACK_EVENT_STATE; the command to set the IAC LAP goes out when the
\* stack can take it, and the pad becomes discoverable then.
Working == step = "off" /\ step' = "working" /\ UNCHANGED <<hid, loop_wii, led_state, sdp, size, report, wiimote>>

WriteIacLap ==
  /\ step = "working" /\ step' = "iac"
  /\ UNCHANGED <<hid, loop_wii, led_state, sdp, size, report, wiimote>>

\* HCI_EVENT_COMMAND_COMPLETE: the console of the flash is called.
CommandComplete ==
  /\ step = "iac" /\ step' = "discoverable"
  /\ hid' = IF hid = "none" THEN "opening" ELSE hid
  /\ UNCHANGED <<loop_wii, led_state, sdp, size, report, wiimote>>

\* A console may call too, as soon as the pad can be found.
Incoming ==
  /\ step \in {"iac", "discoverable"} /\ hid = "none" /\ hid' = "opening"
  /\ UNCHANGED <<step, loop_wii, led_state, sdp, size, report, wiimote>>

ConnectionOpened ==
  /\ hid = "opening"
  /\ hid' = "open" /\ loop_wii' = TRUE /\ led_state' = FALSE
  /\ UNCHANGED <<step, sdp, size, report, wiimote>>

OpenFailed ==
  /\ hid = "opening" /\ hid' = "none"
  /\ UNCHANGED <<step, loop_wii, led_state, sdp, size, report, wiimote>>

\* The console is called again.
ConnectionClosed ==
  /\ hid = "open" /\ updating = ""
  /\ hid' = "opening" /\ loop_wii' = FALSE /\ led_state' = TRUE
  /\ UNCHANGED <<step, sdp, size, report, wiimote>>

(* l2cap_sdp_packet_handler: one channel at a time, one answer waiting.    *)

SdpIncoming(cid) ==
  /\ updating = "" /\ step # "off"
  /\ IF sdp = 0 THEN sdp' = cid /\ size' = FALSE ELSE UNCHANGED <<sdp, size>>
  /\ UNCHANGED <<step, hid, loop_wii, led_state, report, wiimote>>

SdpRequest ==
  /\ updating = "" /\ sdp # 0 /\ size' \in {size, TRUE}
  /\ UNCHANGED <<step, hid, loop_wii, led_state, sdp, report, wiimote>>

sdp_respond ==
  /\ updating = "" /\ size /\ sdp # 0 /\ size' = FALSE
  /\ UNCHANGED <<step, hid, loop_wii, led_state, sdp, report, wiimote>>

SdpClosed(cid) ==
  /\ updating = "" /\ cid = sdp /\ sdp # 0 /\ sdp' = 0
  /\ UNCHANGED <<step, hid, loop_wii, led_state, size, report, wiimote>>

-----------------------------------------------------------------------------
(* The core that converts.                                                 *)

\* A report with both keys, or with them let go.
Convert(keys) ==
  /\ converting = ""
  /\ switch_mode' = (switch_mode \/ keys)
  /\ converting' = IF ~keys /\ switch_mode THEN "first" ELSE ""
  /\ UNCHANGED <<mode, reset_ir, link, wiimote>>

\* Faulty: the flag is set before the mode it stands for.
WritesAnnounced ==
  IF converting = "first" THEN reset_ir' = TRUE /\ UNCHANGED <<mode, switch_mode>>
  ELSE mode' = Following(mode) /\ switch_mode' = FALSE /\ UNCHANGED reset_ir

Writes ==
  IF converting = "first" THEN mode' = Following(mode) /\ switch_mode' = FALSE /\ UNCHANGED reset_ir
  ELSE reset_ir' = TRUE /\ UNCHANGED <<mode, switch_mode>>

Change ==
  /\ converting # "" /\ Writes
  /\ converting' = IF converting = "first" THEN "second" ELSE ""
  /\ UNCHANGED <<link, wiimote>>

(* The core of the run loop: send_data, then input_update_wiimote.         *)

Update ==
  /\ loop_wii /\ updating = "" /\ reset_ir
  /\ updating' = "read"
  /\ UNCHANGED <<link, report, extension, lost>>

ReadMode ==
  /\ updating = "read" /\ updating' = "clear"
  /\ extension' = mode /\ lost' = FALSE
  /\ UNCHANGED <<link, report>>

ClearReset ==
  /\ updating = "clear" /\ updating' = ""
  /\ reset_ir' = FALSE /\ lost' = (mode # extension)
  /\ UNCHANGED <<mode, switch_mode, converting, link, extension>>

Next ==
  \/ Working \/ WriteIacLap \/ CommandComplete \/ Incoming
  \/ ConnectionOpened \/ OpenFailed \/ ConnectionClosed
  \/ \E cid \in {1, 2} : SdpIncoming(cid) \/ SdpClosed(cid)
  \/ SdpRequest \/ sdp_respond
  \/ \E keys \in BOOLEAN : Convert(keys)
  \/ Change \/ Update \/ ReadMode \/ ClearReset

-----------------------------------------------------------------------------
\* The extension the console sees is the one the gamepad chose, with nothing
\* on its way: a change is lost only when it falls between the run loop's
\* reading of the mode and its clearing of the flag, and then until the next.
ExtensionFollowsMode ==
  converting = "" /\ updating = "" /\ ~reset_ir /\ ~lost => extension = mode
=============================================================================
