--------------------------- MODULE HidHostProofs ---------------------------
(***************************************************************************)
(* Proofs about HidHost, for any devices and any hub: as long as no device *)
(* mounted later overrules it, a device is read with the host mode, HID    *)
(* type and parsed descriptor that it set itself, and the keyboard state   *)
(* belongs to the keyboard that reported last.                             *)
(***************************************************************************)
EXTENDS HidHost, TLAPS

\* Only a device that is there is read, and never one without a descriptor.
PortInv ==
  /\ receiving \subseteq mounted
  /\ \A d \in receiving : Kind[d] # "UNREADABLE"

\* The slot is taken by a generic pad that is plugged in; a null pointer is
\* written for a second descriptor only.
SlotInv ==
  /\ info # Nil => info \in mounted /\ Kind[info] = "GENERIC"
  /\ halted => \E d, e \in mounted : /\ d # e
                                    /\ Kind[d] = "GENERIC"
                                    /\ Kind[e] \in {"GENERIC", "UNREADABLE"}

\* A keyboard, a mouse or an Xbox pad that nobody overrules has set the host
\* mode; no other device ever does.
HostInv ==
  /\ \A d \in undisturbed : /\ Kind[d] \in Boot => HOST = "KEYBOARD"
                            /\ Kind[d] = "XINPUT" => HOST = "XINPUT"
  /\ configured = "DINPUT" /\ ~desk => HOST = "DINPUT"

\* A pad that is read and that nobody overrules has set the HID type; a generic
\* one owns the slot until another device goes.
TypeInv ==
  \A d \in receiving :
    /\ d \in undisturbed => /\ Kind[d] \in Known => HID_HOST = Kind[d]
                            /\ Kind[d] = "GENERIC" => HID_HOST = "GENERIC"
    /\ d \notin orphaned => (Kind[d] = "GENERIC" => info = d)

\* What a key makes of a report, with or without shift.
Covered(k, keys) == \E shift \in BOOLEAN : keycode2xinput(k, shift) \subseteq keys

\* The statics of process_kbd_report know what is down on the keyboard that
\* reported last.
KeyInv ==
  typist # Nil => /\ prev = pressed[typist]
                  /\ \A k \in prev : Covered(k, current_keyboard_report)

\* The last report was read as it should be, and if it came from a mouse, with
\* the keys that are down.
OutInv == ReadAsItself /\ OwnDescriptor /\ KeysSurviveMouse

Inv == TypeOK /\ PortInv /\ SlotInv /\ HostInv /\ TypeInv /\ KeyInv /\ OutInv

-----------------------------------------------------------------------------
(* The operators.                                                          *)

\* Every key has at most one bit in the report; caps lock has none.
LEMMA KeyNames ==
  /\ \A k, shift : keycode2xinput(k, shift) \subseteq Bits
  /\ \A shift : keycode2xinput("caps", shift) = {}
  /\ "A" \in Bits
<1>1. \A k, shift : keycode2xinput(k, shift) \subseteq Bits
  BY DEF keycode2xinput, Bits
<1>2. \A shift : keycode2xinput("caps", shift) = {}
  <2>1. "caps" \notin DOMAIN Stick /\ "caps" \notin DOMAIN Plain
    BY DEF Stick, Plain
  <2> QED
    BY <2>1 DEF keycode2xinput
<1>3. "A" \in Bits
  <2>1. "j" \in DOMAIN Plain /\ Plain["j"] = "A"
    BY DEF Plain
  <2> QED
    BY <2>1 DEF Bits
<1> QED
  BY <1>1, <1>2, <1>3

\* A report is a sequence of keys.
LEMMA ReportFacts ==
  ASSUME NEW r \in Reports
  PROVE  /\ r.keycode \in Seq(Key) /\ r.shift \in BOOLEAN
         /\ Held(r) \in SUBSET Key
<1>1. r.shift \in BOOLEAN
  BY DEF Reports
<1>2. \/ r.keycode = <<>> \/ \E k \in Key : r.keycode = <<k>>
      \/ \E k, j \in Key : r.keycode = <<k, j>>
  BY DEF Reports
<1>3. <<>> \in Seq(Key) /\ \A k, j \in Key : <<k>> \in Seq(Key) /\ <<k, j>> \in Seq(Key)
  OBVIOUS
<1>4. r.keycode \in Seq(Key)
  BY <1>2, <1>3
<1> QED
  BY <1>1, <1>4 DEF Held

\* Every key of a report is in what is made of it, as its plain name or the one
\* with shift.
LEMMA BitsCover ==
  ASSUME NEW r \in Reports, NEW k \in Held(r)
  PROVE  Covered(k, KeyBits(r))
<1>1. PICK i \in DOMAIN r.keycode : k = r.keycode[i]
  BY DEF Held
<1>2. CASE k = "caps"
  BY <1>2, KeyNames DEF Covered
<1>3. CASE k # "caps"
  <2> DEFINE shift == r.shift \/ LockAt(r, i)
  <2>1. shift \in BOOLEAN
    BY ReportFacts
  <2>2. keycode2xinput(k, shift) \subseteq KeyBits(r)
    BY <1>1, <1>3 DEF KeyBits
  <2> QED
    BY <2>1, <2>2 DEF Covered
<1> QED
  BY <1>2, <1>3

\* What keys and the mouse set are bits of the report.
LEMMA BitsAreBits ==
  /\ \A r \in Reports : KeyBits(r) \subseteq Bits
  /\ \A keys \in SUBSET Bits, down \in BOOLEAN : WithMouse(keys, down) \in SUBSET Bits
<1>1. \A r \in Reports : KeyBits(r) \subseteq Bits
  BY KeyNames, ZenonT(60) DEF KeyBits
<1> QED
  BY <1>1, KeyNames DEF WithMouse

\* Caps lock changes exactly with a report that has it down while the one
\* before had not.
LEMMA LockFacts ==
  ASSUME NEW r \in Reports, CAPS_LOCK \in BOOLEAN
  PROVE  /\ LockAt(r, Len(r.keycode)) \in BOOLEAN
         /\ LockAt(r, Len(r.keycode)) # CAPS_LOCK <=> "caps" \in Held(r) /\ "caps" \notin prev
<1>1. r.keycode \in Seq(Key)
  BY ReportFacts
<1>2. DOMAIN r.keycode = 1..Len(r.keycode)
  BY <1>1
<1>3. LockAt(r, Len(r.keycode)) \in BOOLEAN
  BY DEF LockAt
<1>4. LockAt(r, Len(r.keycode)) # CAPS_LOCK
        <=> \E j \in 1..Len(r.keycode) : r.keycode[j] = "caps" /\ "caps" \notin prev
  BY Zenon DEF LockAt
<1> QED
  BY <1>2, <1>3, <1>4 DEF Held

\* A device belongs to one of the kinds.
LEMMA KindFacts ==
  ASSUME NEW d \in Device
  PROVE  Kind[d] \in Known \cup Boot \cup {"GENERIC", "UNREADABLE", "XINPUT"}
BY KindAssumption DEF Kinds, HidKind

-----------------------------------------------------------------------------
(* The steps.                                                              *)

LEMMA Initial == Init => Inv
<1> SUFFICES ASSUME Init PROVE Inv
  OBVIOUS
<1>1. TypeOK
  BY DEF Init, TypeOK, Known, Mode
<1>2. PortInv /\ SlotInv /\ HostInv /\ TypeInv
  BY DEF Init, PortInv, SlotInv, HostInv, TypeInv
<1>3. KeyInv /\ OutInv
  BY DEF Init, KeyInv, OutInv, ReadAsItself, OwnDescriptor, KeysSurviveMouse
<1> QED
  BY <1>1, <1>2, <1>3 DEF Inv

\* The history of a mount: what stays undisturbed, and nothing handed on.
LEMMA MountFacts ==
  ASSUME TypeOK, PortInv, NEW d \in Device, CanMount(d), Arrived(d), keyboardUnchanged,
         mounted' = mounted \cup {d}
  PROVE  /\ ~halted /\ d \notin mounted /\ d \notin receiving
         /\ \A e \in undisturbed' : e = d \/ (e \in undisturbed /\ ~Overrules(d, e))
         /\ undisturbed' \in SUBSET mounted' /\ orphaned' \in SUBSET mounted'
         /\ typist' \in mounted' \cup {Nil}
         /\ desk' \in BOOLEAN /\ (~desk' => ~desk /\ Kind[d] \notin Boot)
         /\ d \notin orphaned'
         /\ UNCHANGED <<orphaned, configured, prev, CAPS_LOCK, buttons, pressed>>
         /\ KeyInv => KeyInv'
         /\ OutInv'
<1>1. /\ ~halted /\ d \notin mounted /\ out' = Nil
      /\ undisturbed' = {e \in undisturbed : ~Overrules(d, e)} \cup {d}
      /\ UNCHANGED <<pressed, typist, orphaned, configured, prev, CAPS_LOCK,
                     current_keyboard_report, buttons>>
  BY DEF CanMount, Arrived, keyboardUnchanged
<1>2. desk' \in BOOLEAN /\ (~desk' => ~desk /\ Kind[d] \notin Boot)
  BY DEF Arrived, TypeOK
<1>3. KeyInv => KeyInv'
  BY <1>1 DEF KeyInv, Covered
<1>4. OutInv'
  BY <1>1 DEF OutInv, ReadAsItself, OwnDescriptor, KeysSurviveMouse
<1>5. /\ d \notin receiving /\ d \notin orphaned'
      /\ \A e \in undisturbed' : e = d \/ (e \in undisturbed /\ ~Overrules(d, e))
      /\ undisturbed' \in SUBSET mounted' /\ orphaned' \in SUBSET mounted'
  BY <1>1 DEF TypeOK, PortInv
<1>6. typist' \in mounted' \cup {Nil}
  BY <1>1 DEF TypeOK
<1> QED
  BY <1>1, <1>2, <1>3, <1>4, <1>5, <1>6

\* A keyboard or a mouse.
LEMMA BootStep ==
  ASSUME Inv, NEW d \in Device, MountBoot(d)
  PROVE  Inv'
<1> USE DEF Inv
<1>1. /\ Kind[d] \in Boot /\ HOST' = "KEYBOARD"
      /\ mounted' = mounted \cup {d} /\ receiving' = receiving \cup {d}
      /\ UNCHANGED <<HID_HOST, info, halted>>
      /\ CanMount(d) /\ keyboardUnchanged /\ Arrived(d)
      /\ led' = TRUE
  BY DEF MountBoot, HostFor
<1>2. TypeOK'
  BY <1>1, MountFacts DEF TypeOK, Mode, Arrived, keyboardUnchanged
<1>3. PortInv' /\ SlotInv'
  BY <1>1 DEF PortInv, SlotInv, Boot
<1>4. HostInv'
  BY <1>1, MountFacts DEF HostInv, Boot, Overrules
<1>5. TypeInv'
  BY <1>1, MountFacts DEF TypeInv, Boot, Known
<1> QED
  BY <1>1, <1>2, <1>3, <1>4, <1>5, MountFacts

\* A pad known by its vendor and product: the HID type becomes its own.
LEMMA KnownStep ==
  ASSUME Inv, NEW d \in Device, MountKnown(d)
  PROVE  Inv'
<1> USE DEF Inv
<1>1. /\ Kind[d] \in Known /\ HID_HOST' = Kind[d]
      /\ mounted' = mounted \cup {d} /\ receiving' = receiving \cup {d}
      /\ UNCHANGED <<HOST, info, halted>>
      /\ CanMount(d) /\ keyboardUnchanged /\ Arrived(d)
      /\ led' = TRUE
  BY DEF MountKnown, TypeFor
<1>2. TypeOK'
  BY <1>1, MountFacts DEF TypeOK, Arrived, keyboardUnchanged
<1>3. PortInv' /\ SlotInv'
  BY <1>1 DEF PortInv, SlotInv, Known
<1>4. HostInv'
  BY <1>1, MountFacts DEF HostInv, Boot, Known
<1>5. TypeInv'
  <2>1. ASSUME NEW e \in undisturbed', Kind[e] \in Known \cup {"GENERIC"}
        PROVE  Kind[e] = Kind[d]
    BY <1>1, <2>1, MountFacts DEF Overrules, HidKind, Known, Boot
  <2> QED
    BY <1>1, <2>1, MountFacts DEF TypeInv, Known
<1> QED
  BY <1>1, <1>2, <1>3, <1>4, <1>5, MountFacts

\* A device whose descriptor is parsed: if it is, the slot was free, and every
\* generic pad that is still there has been orphaned.
LEMMA OtherStep ==
  ASSUME Inv, NEW d \in Device, MountOther(d)
  PROVE  Inv'
<1> USE DEF Inv
<1>1. /\ Kind[d] \in {"GENERIC", "UNREADABLE"}
      /\ mounted' = mounted \cup {d} /\ led' = TRUE /\ HOST' = HOST
      /\ halted' = (info # Nil)
      /\ CanMount(d) /\ keyboardUnchanged /\ Arrived(d)
  BY DEF MountOther
<1>2. CASE info = Nil /\ Kind[d] = "GENERIC"
  <2>1. info' = d /\ HID_HOST' = "GENERIC" /\ receiving' = receiving \cup {d}
    BY <1>2 DEF MountOther, Parsed, Listened
  <2>2. ASSUME NEW e \in undisturbed' PROVE Kind[e] \notin Known
    BY <1>2, <2>2, <1>1, MountFacts DEF Overrules, HidKind, Known, Boot
  <2>3. TypeInv'
    BY <1>1, <1>2, <2>1, <2>2, MountFacts, DeviceAssumption DEF TypeInv, PortInv, TypeOK, Known
  <2>4. PortInv' /\ SlotInv'
    BY <1>1, <1>2, <2>1 DEF PortInv, SlotInv
  <2>5. TypeOK'
    <3>1. halted' \in BOOLEAN
      BY <1>1, Zenon
    <3> QED
      BY <1>1, <2>1, <3>1, MountFacts DEF TypeOK, Arrived, keyboardUnchanged
  <2> QED
    BY <1>1, <2>3, <2>4, <2>5, MountFacts DEF HostInv, Boot
<1>3. CASE ~(info = Nil /\ Kind[d] = "GENERIC")
  <2>1. UNCHANGED <<info, HID_HOST, receiving>>
    BY <1>3 DEF MountOther, Parsed, Listened
  <2>2. TypeInv'
    BY <1>1, <2>1, MountFacts DEF TypeInv
  <2>3. SlotInv'
    <3>1. info # Nil => info # d
      BY <1>1, MountFacts DEF SlotInv
    <3> QED
      BY <1>1, <2>1, <3>1 DEF SlotInv
  <2>4. PortInv'
    BY <1>1, <2>1 DEF PortInv
  <2>5. TypeOK'
    <3>1. halted' \in BOOLEAN
      BY <1>1, Zenon
    <3> QED
      BY <1>1, <2>1, <3>1, MountFacts DEF TypeOK, Arrived, keyboardUnchanged
  <2> QED
    BY <1>1, <2>2, <2>3, <2>4, <2>5, MountFacts DEF HostInv, Boot
<1> QED
  BY <1>2, <1>3

\* An Xbox pad.
LEMMA XinputStep ==
  ASSUME Inv, NEW d \in Device, MountXinput(d)
  PROVE  Inv'
<1> USE DEF Inv
<1>1. /\ Kind[d] = "XINPUT" /\ HOST' = "XINPUT" /\ configured = "XINPUT"
      /\ mounted' = mounted \cup {d} /\ receiving' = receiving \cup {d}
      /\ UNCHANGED <<HID_HOST, info, halted>>
      /\ CanMount(d) /\ keyboardUnchanged /\ Arrived(d)
      /\ led' = TRUE
  BY DEF MountXinput, HostFor, Boot
<1>2. TypeOK'
  BY <1>1, MountFacts DEF TypeOK, Mode, Arrived, keyboardUnchanged
<1>3. PortInv' /\ SlotInv'
  BY <1>1 DEF PortInv, SlotInv
<1>4. HostInv'
  BY <1>1, MountFacts DEF HostInv, Boot, Overrules
<1>5. TypeInv'
  BY <1>1, MountFacts DEF TypeInv, Known
<1> QED
  BY <1>1, <1>2, <1>3, <1>4, <1>5, MountFacts

\* All interfaces of a unit go at once, and with a HID device the descriptor.
LEMMA UnplugStep ==
  ASSUME Inv, NEW d \in Device, Unplug(d)
  PROVE  Inv'
<1> USE DEF Inv
<1> DEFINE gone == {e \in mounted : Unit[e] = Unit[d]}
<1> HIDE DEF gone
<1>1. /\ ~halted /\ led' = FALSE /\ info' = Freed(gone) /\ mounted' = mounted \ gone
      /\ receiving' = receiving \ gone
      /\ Left(gone)
      /\ UNCHANGED <<configured, HOST, HID_HOST, prev, CAPS_LOCK, current_keyboard_report,
                     buttons, halted>>
  BY DEF Unplug, StillReceiving, gone
<1>2. /\ out' = Nil
      /\ pressed' = [e \in Device |-> IF e \in gone THEN {} ELSE pressed[e]]
      /\ typist' = IF typist \in gone THEN Nil ELSE typist
      /\ undisturbed' = undisturbed \ gone
      /\ desk' = desk
      /\ orphaned' = (IF \E e \in gone : Kind[e] # "XINPUT" THEN mounted ELSE orphaned) \ gone
  BY <1>1 DEF Left
<1>3. /\ info' \in {info, Nil}
      /\ info' # Nil => (info \notin gone /\ orphaned' = orphaned \ gone)
      /\ info' # info => orphaned' = mounted'
  BY <1>1, <1>2 DEF Freed, SlotInv
<1>4. TypeOK'
  BY <1>1, <1>2, <1>3 DEF TypeOK
<1>5. PortInv' /\ SlotInv' /\ HostInv'
  BY <1>1, <1>2, <1>3 DEF PortInv, SlotInv, HostInv
<1>6. TypeInv'
  <2>1. \A e \in receiving' : e \in receiving /\ e \notin gone /\ e \in mounted'
    BY <1>1 DEF PortInv
  <2>2. \A e \in mounted' : e \notin orphaned' => e \notin orphaned /\ info' = info
    BY <1>1, <1>2, <1>3 DEF Freed
  <2> QED
    BY <1>1, <1>2, <2>1, <2>2 DEF TypeInv
<1>7. KeyInv'
  BY <1>1, <1>2 DEF KeyInv, TypeOK, Covered
<1>8. OutInv'
  BY <1>2 DEF OutInv, ReadAsItself, OwnDescriptor, KeysSurviveMouse
<1> QED
  BY <1>4, <1>5, <1>6, <1>7, <1>8

\* What is sent on carries the mode and the type that are current.
LEMMA SentFacts ==
  ASSUME TypeOK, NEW d \in receiving, NEW keys \in SUBSET Bits
  PROVE  /\ Sent(d, keys) \in Out \cup {Nil} /\ Sent(d, keys).from = d
         /\ Sent(d, keys).mode = HOST /\ Sent(d, keys).type = HID_HOST
         /\ Sent(d, keys).keys = keys
BY DEF TypeOK, Sent, Out, Known, HidKind

\* A keyboard: the statics take over what is down on it.
LEMMA KeyboardStep ==
  ASSUME Inv, NEW d \in Device, NEW r \in Reports, KeyboardReport(d, r)
  PROVE  Inv'
<1> USE DEF Inv
<1>1. /\ HOST = "KEYBOARD" /\ d \in receiving /\ d \in mounted /\ Kind[d] = "KEYBOARD"
      /\ CAPS_LOCK' = LockAt(r, Len(r.keycode))
      /\ prev' = Held(r) /\ current_keyboard_report' = KeyBits(r)
      /\ out' = Sent(d, WithMouse(KeyBits(r), buttons))
      /\ pressed' = [pressed EXCEPT ![d] = Held(r)] /\ typist' = d
      /\ UNCHANGED <<configured, HOST, HID_HOST, info, led, mounted, receiving, buttons,
                     halted, desk, undisturbed, orphaned>>
  BY DEF KeyboardReport, PortInv
<1>2. /\ KeyBits(r) \in SUBSET Bits /\ WithMouse(KeyBits(r), buttons) \in SUBSET Bits
      /\ Held(r) \in SUBSET Key
  BY BitsAreBits, ReportFacts DEF TypeOK
<1>3. /\ out' \in Out \cup {Nil} /\ out'.from = d /\ out'.mode = "KEYBOARD"
  BY <1>1, <1>2, SentFacts
<1>4. TypeOK'
  <2>1. CAPS_LOCK' \in BOOLEAN
    BY <1>1, LockFacts DEF TypeOK
  <2>2. pressed' \in [Device -> SUBSET Key]
    BY <1>1, <1>2 DEF TypeOK
  <2> QED
    BY <1>1, <1>2, <1>3, <2>1, <2>2 DEF TypeOK
<1>5. PortInv' /\ SlotInv' /\ HostInv' /\ TypeInv'
  BY <1>1 DEF PortInv, SlotInv, HostInv, TypeInv
<1>6. KeyInv'
  <2>1. pressed'[d] = Held(r)
    BY <1>1 DEF TypeOK
  <2>2. \A k \in Held(r) : Covered(k, KeyBits(r))
    BY BitsCover
  <2> QED
    BY <1>1, <2>1, <2>2 DEF KeyInv, Covered
<1>7. OutInv'
  BY <1>1, <1>3 DEF OutInv, ReadAsItself, ReadsRight, OwnDescriptor, KeysSurviveMouse, Boot,
                    HidKind, Known
<1> QED
  BY <1>4, <1>5, <1>6, <1>7

\* A mouse: what the last keyboard report left is sent again.
LEMMA MouseStep ==
  ASSUME Inv, NEW d \in Device, NEW down \in BOOLEAN, MouseReport(d, down)
  PROVE  Inv'
<1> USE DEF Inv
<1>1. /\ HOST = "KEYBOARD" /\ d \in receiving /\ Kind[d] = "MOUSE" /\ buttons' = down
      /\ out' = Sent(d, WithMouse(current_keyboard_report, down))
      /\ UNCHANGED <<configured, HOST, HID_HOST, info, led, mounted, receiving, prev, CAPS_LOCK,
                     current_keyboard_report, halted, pressed, typist, desk, undisturbed,
                     orphaned>>
  BY DEF MouseReport, KeysUnderMouse, history
<1>2. /\ WithMouse(current_keyboard_report, down) \in SUBSET Bits
      /\ current_keyboard_report \subseteq WithMouse(current_keyboard_report, down)
  BY BitsAreBits DEF TypeOK, WithMouse
<1>3. /\ out' \in Out \cup {Nil} /\ out'.from = d /\ out'.mode = "KEYBOARD"
      /\ out'.keys = WithMouse(current_keyboard_report, down)
  BY <1>1, <1>2, SentFacts
<1>4. TypeOK'
  BY <1>1, <1>3 DEF TypeOK
<1>5. PortInv' /\ SlotInv' /\ HostInv' /\ TypeInv' /\ KeyInv'
  BY <1>1 DEF PortInv, SlotInv, HostInv, TypeInv, KeyInv, Covered
<1>6. KeysSurviveMouse'
  <2>1. typist # Nil => \A k \in pressed[typist] :
          \E shift \in BOOLEAN : keycode2xinput(k, shift) \subseteq current_keyboard_report
    BY DEF KeyInv, Covered
  <2> QED
    BY <1>1, <1>2, <1>3, <2>1 DEF KeysSurviveMouse, TypeOK
<1>7. ReadAsItself' /\ OwnDescriptor'
  BY <1>1, <1>3 DEF ReadAsItself, ReadsRight, OwnDescriptor, Boot, HidKind, Known
<1> QED
  BY <1>4, <1>5, <1>6, <1>7 DEF OutInv

\* A device that is not looked at, while the host mode is KEYBOARD.
LEMMA ForeignStep ==
  ASSUME Inv, NEW d \in Device, ForeignReport(d)
  PROVE  Inv'
<1> USE DEF Inv
<1>1. /\ HOST = "KEYBOARD" /\ d \in receiving /\ Kind[d] \in HidKind \ Boot
      /\ out' = Sent(d, WithMouse({}, buttons))
      /\ UNCHANGED <<configured, HOST, HID_HOST, info, led, mounted, receiving, prev, CAPS_LOCK,
                     current_keyboard_report, buttons, halted, pressed, typist, desk,
                     undisturbed, orphaned>>
  BY DEF ForeignReport, keyboardUnchanged, history
<1>2. WithMouse({}, buttons) \in SUBSET Bits
  BY BitsAreBits DEF TypeOK
<1>3. out' \in Out \cup {Nil} /\ out'.from = d /\ out'.mode = "KEYBOARD"
  BY <1>1, <1>2, SentFacts
<1>4. TypeOK'
  BY <1>1, <1>3 DEF TypeOK
<1>5. PortInv' /\ SlotInv' /\ HostInv' /\ TypeInv' /\ KeyInv'
  BY <1>1 DEF PortInv, SlotInv, HostInv, TypeInv, KeyInv, Covered
<1>6. ~(configured = "DINPUT" /\ ~desk)
  BY <1>1 DEF HostInv
<1>7. OutInv'
  BY <1>1, <1>3, <1>6 DEF OutInv, ReadAsItself, OwnDescriptor, KeysSurviveMouse, Boot, HidKind
<1> QED
  BY <1>4, <1>5, <1>7

\* A HID device in another host mode: when nobody overrules it, the HID type is
\* its own and it is no keyboard and no mouse.
LEMMA PadStep ==
  ASSUME Inv, NEW d \in Device, PadReport(d)
  PROVE  Inv'
<1> USE DEF Inv
<1>1. /\ HOST # "KEYBOARD" /\ d \in receiving /\ d \in mounted /\ Kind[d] \in HidKind
      /\ out' = [Sent(d, {}) EXCEPT !.layout = IF HID_HOST = "GENERIC" THEN info ELSE Nil]
      /\ UNCHANGED <<configured, HOST, HID_HOST, info, led, mounted, receiving, prev, CAPS_LOCK,
                     current_keyboard_report, buttons, halted, pressed, typist, desk,
                     undisturbed, orphaned>>
  BY DEF PadReport, keyboardUnchanged, PortInv, history
<1>2. /\ out' \in Out /\ out'.from = d /\ out'.mode = HOST /\ out'.type = HID_HOST
      /\ out'.layout = IF HID_HOST = "GENERIC" THEN info ELSE Nil
  BY <1>1 DEF TypeOK, Sent, Out, Known, HidKind
<1>3. TypeOK'
  BY <1>1, <1>2 DEF TypeOK
<1>4. PortInv' /\ SlotInv' /\ HostInv' /\ TypeInv' /\ KeyInv'
  BY <1>1 DEF PortInv, SlotInv, HostInv, TypeInv, KeyInv, Covered
<1>5. d \in undisturbed => Kind[d] \in Known \cup {"GENERIC"} /\ HID_HOST = Kind[d]
  BY <1>1, KindFacts DEF TypeInv, PortInv, HostInv, HidKind, Boot, TypeOK
<1>6. d \notin orphaned => (Kind[d] = "GENERIC" => info = d)
  BY <1>1 DEF TypeInv
<1>7. ReadAsItself' /\ OwnDescriptor'
  BY <1>1, <1>2, <1>5, <1>6
  DEF ReadAsItself, ReadsRight, OwnDescriptor, HostInv, Boot, Known, HidKind
<1>8. KeysSurviveMouse'
  BY <1>1, <1>2, <1>5 DEF KeysSurviveMouse, Known
<1> QED
  BY <1>3, <1>4, <1>7, <1>8 DEF OutInv

LEMMA XboxStep ==
  ASSUME Inv, NEW d \in Device, XinputReport(d)
  PROVE  Inv'
<1> USE DEF Inv
<1>1. /\ d \in receiving /\ Kind[d] = "XINPUT"
      /\ out' = Sent(d, {})
      /\ UNCHANGED <<configured, HOST, HID_HOST, info, led, mounted, receiving, prev, CAPS_LOCK,
                     current_keyboard_report, buttons, halted, pressed, typist, desk,
                     undisturbed, orphaned>>
  BY DEF XinputReport, keyboardUnchanged, history
<1>2. out' \in Out \cup {Nil} /\ out'.from = d /\ out'.mode = HOST
  BY <1>1, SentFacts
<1>3. TypeOK'
  BY <1>1, <1>2 DEF TypeOK
<1>4. PortInv' /\ SlotInv' /\ HostInv' /\ TypeInv' /\ KeyInv'
  BY <1>1 DEF PortInv, SlotInv, HostInv, TypeInv, KeyInv, Covered
<1>5. OutInv'
  <2>1. ReadAsItself' /\ KeysSurviveMouse'
    BY <1>1, <1>2 DEF ReadAsItself, ReadsRight, KeysSurviveMouse, HostInv, Boot, Known, HidKind
  <2>2. OwnDescriptor'
    BY <1>1, <1>2 DEF OwnDescriptor, HostInv
  <2> QED
    BY <2>1, <2>2 DEF OutInv
<1> QED
  BY <1>3, <1>4, <1>5

LEMMA InvStep ==
  ASSUME Inv, [Next]_vars
  PROVE  Inv'
<1>1. ASSUME NEW d \in Device,
             MountBoot(d) \/ MountKnown(d) \/ MountOther(d) \/ MountXinput(d) \/ Unplug(d)
      PROVE  Inv'
  BY <1>1, BootStep, KnownStep, OtherStep, XinputStep, UnplugStep
<1>2. ASSUME NEW d \in Device, NEW r \in Reports, KeyboardReport(d, r) PROVE Inv'
  BY <1>2, KeyboardStep
<1>3. ASSUME NEW d \in Device, NEW down \in BOOLEAN, MouseReport(d, down) PROVE Inv'
  BY <1>3, MouseStep
<1>4. ASSUME NEW d \in Device, ForeignReport(d) \/ PadReport(d) \/ XinputReport(d) PROVE Inv'
  BY <1>4, ForeignStep, PadStep, XboxStep
<1>5. CASE UNCHANGED vars
  BY <1>5 DEF vars, history, Inv, TypeOK, PortInv, SlotInv, HostInv, TypeInv, KeyInv, Covered,
              OutInv, ReadAsItself, ReadsRight, OwnDescriptor, KeysSurviveMouse
<1> QED
  BY <1>1, <1>2, <1>3, <1>4, <1>5 DEF Next

-----------------------------------------------------------------------------
(* The theorems.                                                           *)

LEMMA Invariance == Spec => []Inv
<1>1. Init => Inv
  BY Initial
<1>2. Inv /\ [Next]_vars => Inv'
  BY InvStep
<1> QED
  BY <1>1, <1>2, PTL DEF Spec

\* Every variable keeps its type, whatever devices the hub brings in.
THEOREM TypeCorrect == Spec => []TypeOK
<1>1. Inv => TypeOK
  BY DEF Inv
<1> QED
  BY <1>1, Invariance, PTL

\* A device that no later one overrules is read in its own mode and as its own
\* type, whatever was plugged in before, on any hub (tuh_hid_mount_cb,
\* tuh_xinput_mount_cb).
THEOREM ReadingCorrect == Spec => []ReadAsItself
<1>1. Inv => ReadAsItself
  BY DEF Inv, OutInv
<1> QED
  BY <1>1, Invariance, PTL

\* A generic pad is read with its own descriptor as long as no pad overrules it
\* and no HID device goes (parse_report, free_HID_report_info).
THEOREM DescriptorCorrect == Spec => []OwnDescriptor
<1>1. Inv => OwnDescriptor
  BY DEF Inv, OutInv
<1> QED
  BY <1>1, Invariance, PTL

\* The one slot for a descriptor is lost to no device that has gone, and only a
\* second device to parse finds it taken (generate_HID_report_info,
\* tuh_hid_umount_cb).
THEOREM SlotCorrect == Spec => []SlotAvailable
<1>1. Inv => SlotAvailable
  BY DEF Inv, SlotInv, SlotAvailable
<1> QED
  BY <1>1, Invariance, PTL

\* A mouse report keeps every key that is down on the keyboard that reported
\* last (tuh_hid_report_received_cb), whatever the keys are.
THEOREM KeysCorrect == Spec => []KeysSurviveMouse
<1>1. Inv => KeysSurviveMouse
  BY DEF Inv, OutInv
<1> QED
  BY <1>1, Invariance, PTL

\* Caps lock changes with a report that has it down while the one before had
\* not; for the keyboard that reported last the statics say what it had down.
LEMMA CapsStep ==
  ASSUME Inv, [Next]_vars
  PROVE  /\ \A d \in Device : (typist = d /\ typist' = d) =>
              (CAPS_LOCK' # CAPS_LOCK <=> "caps" \in pressed'[d] \ pressed[d])
         /\ CAPS_LOCK' # CAPS_LOCK => typist' # Nil /\ "caps" \in pressed'[typist']
<1>1. ASSUME NEW e \in Device, NEW r \in Reports, KeyboardReport(e, r)
      PROVE  /\ CAPS_LOCK' # CAPS_LOCK <=> "caps" \in Held(r) /\ "caps" \notin prev
             /\ pressed'[e] = Held(r) /\ typist' = e
             /\ typist = e => prev = pressed[e]
  BY <1>1, LockFacts, DeviceAssumption DEF KeyboardReport, Inv, TypeOK, KeyInv
<1>2. CASE \E e \in Device : \E r \in Reports : KeyboardReport(e, r)
  BY <1>1, <1>2, DeviceAssumption
<1>3. CASE ~\E e \in Device : \E r \in Reports : KeyboardReport(e, r)
  <2>1. CAPS_LOCK' = CAPS_LOCK
    BY <1>3 DEF Next, vars, MountBoot, MountKnown, MountOther, MountXinput, Unplug,
                MouseReport, ForeignReport, PadReport, XinputReport, keyboardUnchanged
  <2>2. pressed' = pressed \/ \E d \in Device : Unplug(d)
    BY <1>3 DEF Next, vars, history, MountBoot, MountKnown, MountOther, MountXinput, Arrived,
                MouseReport, ForeignReport, PadReport, XinputReport
  <2>3. ASSUME NEW d \in Device PROVE "caps" \notin pressed'[d] \ pressed[d]
    BY <2>2 DEF Unplug, Left
  <2> QED
    BY <2>1, <2>3
<1> QED
  BY <1>2, <1>3

\* Caps lock changes with the key, once each time it goes down, however long it
\* is held and whatever devices come and go meanwhile (process_kbd_report), for
\* the reports of one keyboard in a row.
THEOREM CapsCorrect == Spec => CapsOncePerPress
<1>1. Inv /\ [Next]_vars
        => [/\ \A d \in Device : (typist = d /\ typist' = d) =>
                 (CAPS_LOCK' # CAPS_LOCK <=> "caps" \in pressed'[d] \ pressed[d])
            /\ CAPS_LOCK' # CAPS_LOCK => typist' # Nil /\ "caps" \in pressed'[typist']]_vars
  BY CapsStep
<1> QED
  BY <1>1, Invariance, PTL DEF Spec, CapsOncePerPress
=============================================================================
