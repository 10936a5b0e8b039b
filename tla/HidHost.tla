------------------------------ MODULE HidHost ------------------------------
(***************************************************************************)
(* The callbacks of the USB host for HID and Xbox devices (main.c) with    *)
(* the keyboard decoder (process_keyboard.c): which host mode, HID type    *)
(* and parsed report descriptor a report is read with.                     *)
(*                                                                         *)
(* HOST, HID_HOST, the descriptor info, the LED and the keyboard state are *)
(* single variables, whatever the number of devices a hub brings in.  A    *)
(* device is one interface; the interfaces of one unit come and go         *)
(* together.  A callback runs to its end before the next one (tuh_task),   *)
(* so a callback is one action.                                            *)
(***************************************************************************)
EXTENDS Integers, Sequences, FiniteSets

CONSTANTS
  Device,     \* the interfaces that may be plugged in
  Kind,       \* what each of them is
  Unit,       \* the unit each of them belongs to
  DeviceMax,  \* units that a hub brings in at once (CFG_TUH_DEVICE_MAX)
  Key,        \* keys of a keyboard that are told apart
  Nil

Known   == {"LOGITECH", "PS3", "PS4", "EIGHT_BITDO"}   \* by vendor and product
Boot    == {"KEYBOARD", "MOUSE"}                       \* interface protocol
HidKind == Known \cup Boot \cup {"GENERIC", "UNREADABLE"}

\* "UNREADABLE": a HID device without a field the parser wants.
Kinds == HidKind \cup {"XINPUT"}

Mode == {"XINPUT", "DINPUT", "KEYBOARD"}

ASSUME KindAssumption == Kind \in [Device -> Kinds]

ASSUME DeviceAssumption == Nil \notin Device /\ DeviceMax \in Nat

VARIABLES
  configured, \* the host mode main reads from flash
  HOST, HID_HOST,
  info,       \* the device whose descriptor is parsed in the only slot, or Nil
  led,
  mounted,    \* interfaces that are plugged in
  receiving,  \* interfaces whose next report has been asked for
  prev, CAPS_LOCK,         \* the statics of process_kbd_report
  current_keyboard_report,
  buttons,    \* mouse_report.buttons: is the left button down?
  halted,     \* the descriptor pool was empty: a null pointer was written
  out,        \* the report that was just handed to sendReportData, or Nil
  \* History, which no step reads:
  pressed,    \* keys down in the last report of each keyboard
  typist,     \* the keyboard, still plugged in, that reported last, or Nil
  desk,       \* has a keyboard or a mouse been plugged in since boot?
  undisturbed,\* interfaces after which none came that is read in another way
  orphaned    \* interfaces that were there while another HID device went

history == <<pressed, typist, desk, undisturbed, orphaned>>

vars == <<configured, HOST, HID_HOST, info, led, mounted, receiving, prev, CAPS_LOCK,
          current_keyboard_report, buttons, halted, out, history>>

Init ==
  /\ configured \in {"XINPUT", "DINPUT"}
  /\ HOST = configured
  /\ HID_HOST = "GENERIC"
  /\ info = Nil
  /\ led = FALSE
  /\ mounted = {}
  /\ receiving = {}
  /\ prev = {}
  /\ CAPS_LOCK = FALSE
  /\ current_keyboard_report = {}
  /\ buttons = FALSE
  /\ halted = FALSE
  /\ out = Nil
  /\ pressed = [d \in Device |-> {}]
  /\ typist = Nil
  /\ desk = FALSE
  /\ undisturbed = {}
  /\ orphaned = {}

\* There is room for so many units.
CanMount(d) == /\ ~halted
               /\ d \notin mounted
               /\ Cardinality({Unit[e] : e \in mounted \cup {d}}) <= DeviceMax

-----------------------------------------------------------------------------
(* Plugging and unplugging.                                                *)

keyboardUnchanged ==
  UNCHANGED <<configured, prev, CAPS_LOCK, current_keyboard_report, buttons>>

\* Does d, mounted after e, leave e to be read as something else?  What HOST is
\* left at by a keyboard, a mouse or an Xbox pad, and HID_HOST by another pad.
Overrules(d, e) ==
  \/ Kind[d] \in Boot /\ Kind[e] \notin Boot
  \/ Kind[d] = "XINPUT" /\ Kind[e] # "XINPUT"
  \/ Kind[d] \in Known \cup {"GENERIC"} /\ Kind[e] \in HidKind \ Boot /\ Kind[e] # Kind[d]

\* What every mount leaves in the history.
Arrived(d) ==
  /\ out' = Nil
  /\ desk' = (desk \/ Kind[d] \in Boot)
  /\ undisturbed' = {e \in undisturbed : ~Overrules(d, e)} \cup {d}
  /\ UNCHANGED <<pressed, typist, orphaned>>

\* Faulty: an Xbox pad leaves the host mode alone.
HostForBootOnly(d) == IF Kind[d] \in Boot THEN "KEYBOARD" ELSE HOST

\* A keyboard, a mouse or an Xbox pad sets the host mode; any other pad does
\* not.
HostFor(d) == IF Kind[d] \in Boot THEN "KEYBOARD"
              ELSE IF Kind[d] = "XINPUT" THEN "XINPUT" ELSE HOST

\* Faulty: a known pad keeps the HID type it finds.
TypeKept(d) == HID_HOST

TypeFor(d) == Kind[d]

\* Is the descriptor parsed with success?
Parsed(d) == info = Nil /\ Kind[d] = "GENERIC"

\* Faulty: no return when the descriptor cannot be parsed.
ListenedAnyway(d) == receiving \cup {d}

Listened(d) == IF Parsed(d) THEN receiving \cup {d} ELSE receiving

MountBoot(d) ==
  /\ CanMount(d)
  /\ Kind[d] \in Boot
  /\ led' = TRUE
  /\ HOST' = HostFor(d)
  /\ mounted' = mounted \cup {d}
  /\ receiving' = receiving \cup {d}
  /\ UNCHANGED <<HID_HOST, info, halted>>
  /\ keyboardUnchanged
  /\ Arrived(d)

MountKnown(d) ==
  /\ CanMount(d)
  /\ Kind[d] \in Known
  /\ led' = TRUE
  /\ HID_HOST' = TypeFor(d)
  /\ mounted' = mounted \cup {d}
  /\ receiving' = receiving \cup {d}
  /\ UNCHANGED <<HOST, info, halted>>
  /\ keyboardUnchanged
  /\ Arrived(d)

\* Any other device has its descriptor parsed: into the one slot there is, or
\* through a null pointer when the slot is taken; a descriptor without a field
\* of interest gives the slot back and the device is never read.
MountOther(d) ==
  /\ CanMount(d)
  /\ Kind[d] \in {"GENERIC", "UNREADABLE"}
  /\ led' = TRUE
  /\ mounted' = mounted \cup {d}
  /\ halted' = (info # Nil)
  /\ info' = IF Parsed(d) THEN d ELSE info
  /\ HID_HOST' = IF Parsed(d) THEN "GENERIC" ELSE HID_HOST
  /\ receiving' = Listened(d)
  /\ UNCHANGED HOST
  /\ keyboardUnchanged
  /\ Arrived(d)

\* tuh_xinput_mount_cb of a wired pad; the driver is there only when the
\* configuration selects XINPUT (usbh_app_driver_get_cb).
MountXinput(d) ==
  /\ CanMount(d)
  /\ Kind[d] = "XINPUT"
  /\ configured = "XINPUT"
  /\ HOST' = HostFor(d)
  /\ led' = TRUE
  /\ mounted' = mounted \cup {d}
  /\ receiving' = receiving \cup {d}
  /\ UNCHANGED <<HID_HOST, info, halted>>
  /\ keyboardUnchanged
  /\ Arrived(d)

\* Faulty: the descriptor of an unplugged pad stays in the slot.
NeverFreed(gone) == info

\* Closing any HID device frees the slot.
Freed(gone) == IF \E e \in gone : Kind[e] # "XINPUT" THEN Nil ELSE info

\* Faulty: an unplugged interface is still read.
KeptReceiving(gone) == receiving

StillReceiving(gone) == receiving \ gone

\* What unplugging leaves in the history.
Left(gone) ==
  /\ out' = Nil
  /\ pressed' = [e \in Device |-> IF e \in gone THEN {} ELSE pressed[e]]
  /\ typist' = IF typist \in gone THEN Nil ELSE typist
  /\ undisturbed' = undisturbed \ gone
  /\ orphaned' = (IF \E e \in gone : Kind[e] # "XINPUT" THEN mounted ELSE orphaned) \ gone
  /\ UNCHANGED desk

\* Every interface of the unit is closed in the same turn of tuh_task.
Unplug(d) ==
  LET gone == {e \in mounted : Unit[e] = Unit[d]}
  IN  /\ ~halted
      /\ d \in mounted
      /\ led' = FALSE
      /\ info' = Freed(gone)
      /\ mounted' = mounted \ gone
      /\ receiving' = StillReceiving(gone)
      /\ UNCHANGED <<configured, HOST, HID_HOST, prev, CAPS_LOCK, current_keyboard_report,
                     buttons, halted>>
      /\ Left(gone)

-----------------------------------------------------------------------------
(* process_kbd_report: from keys to bits of the report.                    *)

Stick == [a |-> <<"LEFT", "LX_L">>, d |-> <<"RIGHT", "LX_R">>,
          s |-> <<"DOWN", "LX_D">>, w |-> <<"UP", "LX_U">>]

Plain == [e |-> "RIGHT_SHOULDER", h |-> "X", j |-> "A", k |-> "B",
          m |-> "RIGHT_THUMB", n |-> "LEFT_THUMB", p |-> "GUIDE",
          q |-> "LEFT_SHOULDER", r |-> "RIGHT_TRIGGER", u |-> "Y",
          enter |-> "START", backspace |-> "BACK", tab |-> "LEFT_TRIGGER"]

keycode2xinput(key, shift) ==
  IF key \in DOMAIN Stick THEN {Stick[key][IF shift THEN 2 ELSE 1]}
  ELSE IF key \in DOMAIN Plain THEN {Plain[key]}
  ELSE {}

\* A report: two of its six keys, in any order, and the shift keys.
Reports ==
  LET one == {<<k>> : k \in Key}
      two == {<<p[1], p[2]>> : p \in {q \in Key \X Key : q[1] # q[2]}}
  IN  [keycode : {<<>>} \cup one \cup two, shift : BOOLEAN]

Held(r) == {r.keycode[i] : i \in DOMAIN r.keycode}

\* Faulty: the previous report is not looked at.
LockEveryReport(r, i) ==
  CAPS_LOCK # (\E j \in 1..i : r.keycode[j] = "caps")

\* Caps lock takes effect for the keys after it in the report.
LockAt(r, i) ==
  CAPS_LOCK # (\E j \in 1..i : r.keycode[j] = "caps" /\ "caps" \notin prev)

KeyBits(r) ==
  UNION {keycode2xinput(r.keycode[i], r.shift \/ LockAt(r, i)) :
           i \in {j \in DOMAIN r.keycode : r.keycode[j] # "caps"}}

\* new_report_fun adds the mouse button to the keys it is given.
WithMouse(keys, down) == keys \cup (IF down THEN {"A"} ELSE {})

Sent(d, keys) == [from |-> d, mode |-> HOST, type |-> HID_HOST,
                  layout |-> Nil, keys |-> keys]

-----------------------------------------------------------------------------
(* Reports.                                                                *)

KeyboardReport(d, r) ==
  /\ ~halted
  /\ HOST = "KEYBOARD"
  /\ d \in receiving
  /\ Kind[d] = "KEYBOARD"
  /\ CAPS_LOCK' = LockAt(r, Len(r.keycode))
  /\ prev' = Held(r)
  /\ current_keyboard_report' = KeyBits(r)
  /\ out' = Sent(d, WithMouse(KeyBits(r), buttons))
  /\ pressed' = [pressed EXCEPT ![d] = Held(r)]
  /\ typist' = d
  /\ UNCHANGED <<configured, HOST, HID_HOST, info, led, mounted, receiving, buttons,
                 halted, desk, undisturbed, orphaned>>

\* Faulty: what a mouse report starts from was cleared by the last report.
ClearedReport == {}

\* keyboard_report = current_keyboard_report
KeysUnderMouse == current_keyboard_report

MouseReport(d, down) ==
  /\ ~halted
  /\ HOST = "KEYBOARD"
  /\ d \in receiving
  /\ Kind[d] = "MOUSE"
  /\ buttons' = down
  /\ out' = Sent(d, WithMouse(KeysUnderMouse, down))
  /\ UNCHANGED <<configured, HOST, HID_HOST, info, led, mounted, receiving, prev, CAPS_LOCK,
                 current_keyboard_report, halted, history>>

\* Any other HID device while the host mode is KEYBOARD: its report is not
\* looked at, and what is sent is the keyboard report, which was cleared.
ForeignReport(d) ==
  /\ ~halted
  /\ HOST = "KEYBOARD"
  /\ d \in receiving
  /\ Kind[d] \in HidKind \ Boot
  /\ out' = Sent(d, WithMouse({}, buttons))
  /\ UNCHANGED <<HOST, HID_HOST, info, led, mounted, receiving, halted, history>>
  /\ keyboardUnchanged

\* Otherwise the HID type decides how the report is read, and the type
\* GENERIC reads it with the parsed descriptor (parse_report).
PadReport(d) ==
  /\ ~halted
  /\ HOST # "KEYBOARD"
  /\ d \in receiving
  /\ Kind[d] \in HidKind
  /\ out' = [Sent(d, {}) EXCEPT !.layout = IF HID_HOST = "GENERIC" THEN info ELSE Nil]
  /\ UNCHANGED <<HOST, HID_HOST, info, led, mounted, receiving, halted, history>>
  /\ keyboardUnchanged

XinputReport(d) ==
  /\ ~halted
  /\ d \in receiving
  /\ Kind[d] = "XINPUT"
  /\ out' = Sent(d, {})
  /\ UNCHANGED <<HOST, HID_HOST, info, led, mounted, receiving, halted, history>>
  /\ keyboardUnchanged

Next ==
  \E d \in Device :
    \/ MountBoot(d) \/ MountKnown(d) \/ MountOther(d) \/ MountXinput(d)
    \/ Unplug(d)
    \/ \E r \in Reports : KeyboardReport(d, r)
    \/ \E down \in BOOLEAN : MouseReport(d, down)
    \/ ForeignReport(d) \/ PadReport(d) \/ XinputReport(d)

Spec == Init /\ [][Next]_vars

-----------------------------------------------------------------------------
(* Properties.                                                             *)

\* The bits of a report that keys and buttons set.
Bits == {Stick[key][i] : key \in DOMAIN Stick, i \in {1, 2}}
          \cup {Plain[key] : key \in DOMAIN Plain}

Out == [from : Device, mode : Mode, type : HidKind, layout : Device \cup {Nil},
        keys : SUBSET Bits]

\* Type invariant.
TypeOK ==
  /\ configured \in {"XINPUT", "DINPUT"}
  /\ HOST \in Mode
  /\ HID_HOST \in Known \cup {"GENERIC"}
  /\ info \in Device \cup {Nil}
  /\ led \in BOOLEAN
  /\ mounted \in SUBSET Device
  /\ receiving \in SUBSET mounted
  /\ prev \in SUBSET Key
  /\ current_keyboard_report \in SUBSET Bits
  /\ CAPS_LOCK \in BOOLEAN
  /\ buttons \in BOOLEAN
  /\ halted \in BOOLEAN
  /\ out \in Out \cup {Nil}
  /\ pressed \in [Device -> SUBSET Key]
  /\ typist \in mounted \cup {Nil}
  /\ desk \in BOOLEAN
  /\ undisturbed \in SUBSET mounted
  /\ orphaned \in SUBSET mounted

\* The mode and, for a pad, the HID type a device's report is to be read with.
ReadsRight(o) ==
  LET kind == Kind[o.from]
  IN  CASE kind \in Boot     -> o.mode = "KEYBOARD"
        [] kind = "XINPUT"   -> o.mode = "XINPUT"
        [] OTHER             -> o.mode = "DINPUT" /\ o.type = kind

\* A device is read in its own mode, and as its own type, from the moment it is
\* mounted, whatever was there before it, until a device that is read in
\* another way is mounted.  A pad other than an Xbox pad needs the host mode
\* DINPUT (README.md:153), which the first keyboard or mouse takes away for good
\* (main.c:615).
ReadAsItself ==
  (/\ out # Nil
   /\ out.from \in undisturbed
   /\ Kind[out.from] \in HidKind \ Boot => configured = "DINPUT" /\ ~desk) =>
    ReadsRight(out)

\* A pad that is the only device plugged in, and was plugged in last, is read as
\* what it is when the host mode is DINPUT ("Support generic gamepads, PS4, PS3 and 8BITDO
\* controllers", README.md:153).
OnlyPadIsRead ==
  (/\ out # Nil
   /\ configured = "DINPUT"
   /\ mounted = {out.from} /\ out.from \in undisturbed
   /\ Kind[out.from] \in HidKind \ Boot) =>
    ReadsRight(out)

\* A report read with a parsed descriptor is read with the sender's own
\* (parse_report uses the global info), unless the sender is overruled by
\* another pad or lost its descriptor when some other HID device went
\* (main.c:649).
OwnDescriptor ==
  (/\ out # Nil
   /\ out.mode = "DINPUT"
   /\ out.type = "GENERIC"
   /\ out.from \in undisturbed \ orphaned) =>
    out.layout = out.from

\* The slot for a parsed descriptor is taken only by a device that is still
\* there, and a null pointer is written only when a device to parse comes while
\* a generic pad is there (generate_HID_report_info, tuh_hid_umount_cb).
SlotAvailable ==
  /\ info # Nil => info \in mounted
  /\ halted => \E d, e \in mounted : /\ d # e
                                    /\ Kind[d] = "GENERIC"
                                    /\ Kind[e] \in {"GENERIC", "UNREADABLE"}

\* A report of a mouse that no Xbox pad has overruled leaves the keys that are
\* down on the keyboard that reported last in what is sent (main.c:668).
KeysSurviveMouse ==
  (out # Nil /\ Kind[out.from] = "MOUSE" /\ out.from \in undisturbed /\ typist # Nil) =>
    \A k \in pressed[typist] : \E shift \in BOOLEAN :
      keycode2xinput(k, shift) \subseteq out.keys

\* Between two reports of a keyboard with none of another between them, caps
\* lock changes when the key has gone down and never else; the first report of
\* a keyboard changes it only with the key down (process_keyboard.c:88-101).
CapsOncePerPress ==
  [][/\ \A d \in Device : (typist = d /\ typist' = d) =>
          (CAPS_LOCK' # CAPS_LOCK <=> "caps" \in pressed'[d] \ pressed[d])
     /\ CAPS_LOCK' # CAPS_LOCK => typist' # Nil /\ "caps" \in pressed'[typist']]_vars
=============================================================================
