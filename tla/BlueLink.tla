----------------------------- MODULE BlueLink -----------------------------
(***************************************************************************)
(* A converter with Bluetooth output (blue_hid.c) and pads of other makers, *)
(* one at a time linked to a converter with Bluetooth input (blue_host.c,   *)
(* whose stack is built for one connection).  Each end learns of the link   *)
(* by events of its own.  A pad of unknown make is read with the descriptor *)
(* it sent when it connected, parsed at its first report; a PS4 or 8BitDo    *)
(* pad has a fixed layout.                                                  *)
(***************************************************************************)
EXTENDS Integers, Sequences

CONSTANT MaxAir  \* bound: reports on their way

VARIABLES
  TYPE,        \* the make in the flash of the host
  link,        \* "down", "opening", "up" or, until both ends know, "lost"
  peer,        \* the pad the link belongs to
  hid_host_cid, hid_host_descriptor_available, first_time,
  info,        \* the pad whose descriptor is parsed, "none" if nothing is
  connected,   \* of the converter that is a pad
  asked,       \* it has asked for the next CAN_SEND_NOW
  told,        \* the ends that have seen the last event of the link
  air,         \* reports on their way, each by its pad
  relayed      \* the last report the host gave to callback_send

blueVars == <<TYPE, link, peer, hid_host_cid, hid_host_descriptor_available, first_time,
              info, connected, asked, told, air, relayed>>

host   == <<TYPE, hid_host_cid, hid_host_descriptor_available, first_time, info, relayed>>
device == <<connected, asked>>

\* A converter; a pad whose descriptor can be read, and one whose cannot.
Pads == {"converter", "pad", "odd"}

Nothing == [from |-> "none", read |-> "none"]

-----------------------------------------------------------------------------
Init ==
  /\ TYPE \in {"GENERIC", "PS4", "EIGHT_BITDO"}
  /\ link = "down" /\ peer = "none"
  /\ hid_host_cid = "none" /\ hid_host_descriptor_available = FALSE
  /\ first_time = FALSE /\ info = "none"
  /\ connected = FALSE /\ asked = FALSE /\ told = {}
  /\ air = <<>> /\ relayed = Nothing

\* hid_host_connect when the stack works, or hid_host_accept_connection.
Connect(p) ==
  /\ link = "down"
  /\ link' = "opening" /\ peer' = p /\ told' = {}
  /\ UNCHANGED <<host, device, air>>

\* HID_SUBEVENT_CONNECTION_OPENED with an error: both ends clear their cid.
OpenFailed ==
  /\ link = "opening" /\ told = {}
  /\ link' = "down" /\ peer' = "none"
  /\ hid_host_cid' = "none" /\ connected' = FALSE
  /\ UNCHANGED <<TYPE, hid_host_descriptor_available, first_time, info, relayed, asked, told, air>>

Up(end) == told' = told \cup {end} /\ link' = IF told' = {"host", "pad"} THEN "up" ELSE link

HostOpened ==
  /\ link = "opening" /\ "host" \notin told /\ Up("host")
  /\ hid_host_cid' = peer /\ hid_host_descriptor_available' = FALSE
  /\ UNCHANGED <<TYPE, first_time, info, relayed, device, peer, air>>

\* hid_embedded_start_gamepad asks for the first report.
PadOpened ==
  /\ link = "opening" /\ "pad" \notin told /\ Up("pad")
  /\ IF peer = "converter" THEN connected' = TRUE /\ asked' = TRUE ELSE UNCHANGED device
  /\ UNCHANGED <<host, peer, air>>

\* HID_SUBEVENT_DESCRIPTOR_AVAILABLE
DescriptorAvailable ==
  /\ hid_host_cid = peer /\ link \in {"opening", "up"} /\ peer # "none"
  /\ ~hid_host_descriptor_available
  /\ hid_host_descriptor_available' = TRUE
  /\ UNCHANGED <<TYPE, hid_host_cid, first_time, info, relayed, device, link, peer, told, air>>

-----------------------------------------------------------------------------
\* Faulty: the next event is not asked for.
send_reportOnce == asked' = FALSE /\ UNCHANGED connected

\* send_report asks for the next event.
send_report == asked' = TRUE /\ UNCHANGED connected

\* HID_SUBEVENT_CAN_SEND_NOW, and what another pad does
CanSendNow ==
  /\ link \in {"opening", "up"} /\ "pad" \in told
  /\ Len(air) < MaxAir
  /\ IF peer = "converter" THEN asked /\ send_report ELSE UNCHANGED device
  /\ air' = Append(air, peer)
  /\ UNCHANGED <<host, link, peer, told>>

\* generate_HID_report_info fails for the odd pad and is tried at each report.
Relay(from) ==
  IF TYPE # "GENERIC"
    THEN relayed' = [from |-> from, read |-> TYPE] /\ UNCHANGED <<first_time, info>>
  ELSE IF ~first_time /\ hid_host_cid = "odd"
    THEN info' = "none" /\ UNCHANGED <<first_time, relayed>>
  ELSE /\ info' = IF first_time THEN info ELSE hid_host_cid
       /\ first_time' = TRUE
       /\ relayed' = [from |-> from, read |-> info']

\* HID_SUBEVENT_REPORT
HandleReport ==
  /\ air # <<>> /\ hid_host_cid # "none"
  /\ air' = Tail(air)
  /\ IF hid_host_descriptor_available THEN Relay(Head(air)) ELSE UNCHANGED <<first_time, info, relayed>>
  /\ UNCHANGED <<TYPE, hid_host_cid, hid_host_descriptor_available, device, link, peer, told>>

-----------------------------------------------------------------------------
\* The link breaks: what is in the air is lost.
Lose ==
  /\ link = "up"
  /\ link' = "lost" /\ told' = {} /\ air' = <<>>
  /\ UNCHANGED <<host, device, peer>>

Down(end) ==
  /\ told' = told \cup {end}
  /\ IF told' = {"host", "pad"} THEN link' = "down" /\ peer' = "none" ELSE UNCHANGED <<link, peer>>

\* Faulty: the descriptor stays parsed.
KeepInfo == UNCHANGED <<first_time, info>>

\* free_HID_report_info
FreeInfo == first_time' = FALSE /\ info' = "none"

\* HID_SUBEVENT_CONNECTION_CLOSED
HostClosed ==
  /\ link = "lost" /\ "host" \notin told /\ Down("host")
  /\ hid_host_cid' = "none" /\ hid_host_descriptor_available' = FALSE
  /\ FreeInfo
  /\ UNCHANGED <<TYPE, relayed, device, air>>

\* The stack drops the event that was asked for.
PadClosed ==
  /\ link = "lost" /\ "pad" \notin told /\ Down("pad")
  /\ connected' = FALSE /\ asked' = FALSE
  /\ UNCHANGED <<host, air>>

Next ==
  \/ \E p \in Pads : Connect(p)
  \/ OpenFailed \/ HostOpened \/ PadOpened \/ DescriptorAvailable
  \/ CanSendNow \/ HandleReport \/ Lose \/ HostClosed \/ PadClosed

-----------------------------------------------------------------------------
\* A report is read with the descriptor of the pad that sent it, however often
\* pads came and went and whichever end saw the break first.
OwnDescriptor == relayed.read \in {"none", "PS4", "EIGHT_BITDO", relayed.from}

\* While the link to a converter stays up, reports keep going through it.
Flows == <>[](link = "up" /\ peer = "converter") => []<><<HandleReport>>_blueVars
=============================================================================
