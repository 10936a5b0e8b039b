----------------------------- MODULE Conversion -----------------------------
(***************************************************************************)
(* new_report_fun (convert_data.c): what a pad sends is read into one      *)
(* common report, changed by the features, and written out as the pad that *)
(* is emulated.                                                            *)
(*                                                                         *)
(* A packet is the set of the bits that are set, <<byte, bit>>, a hat, two *)
(* analog triggers and a stick.  A table gives for each byte of a packet   *)
(* the inputs of its bits 0 to 7 ("no" where a bit is not looked at).  The *)
(* shoulders are L1 and R1, the triggers L2 and R2, the thumbs L3 and R3.  *)
(***************************************************************************)
EXTENDS Integers, Sequences, FiniteSets

CONSTANTS
  MaxHeld,   \* bound: inputs held down at once
  StickEnds, \* the stick positions features are tried on
  Zones,     \* the dead zones tried, in percent
  Garbage    \* what is read beyond the end of a table

INT16_MIN == -32768
INT16_MAX == 32767

\* An axis of the common report.
Axis == INT16_MIN..INT16_MAX

ASSUME StickAssumption == StickEnds \subseteq Axis

ASSUME ZonesAssumption == Zones \subseteq 0..127

VARIABLES
  host,      \* the pad, as a row of Hosts
  held,      \* bits set in its packet
  hat,       \* its hat, of 0..8
  trigger,   \* what its analog triggers read
  stick      \* the position of each axis of a stick

vars == <<host, held, hat, trigger, stick>>

Directions == {"UP", "DOWN", "LEFT", "RIGHT"}

Triggers == {"L2", "R2"}

-----------------------------------------------------------------------------
(* The packets of the pads: cases of new_report_fun and xinputh_xfer_cb.    *)

LOGITECH ==
  [byte \in 5..6 |->
    CASE byte = 5 -> <<"no", "no", "no", "no", "X", "A", "B", "Y">>
      [] byte = 6 -> <<"L1", "R1", "L2", "R2", "BACK", "START", "L3", "R3">>]

PS3 ==
  [byte \in 2..4 |->
    CASE byte = 2 -> <<"BACK", "L3", "R3", "START", "UP", "RIGHT", "DOWN", "LEFT">>
      [] byte = 3 -> <<"L2", "R2", "L1", "R1", "A", "B", "A", "X">>
      [] byte = 4 -> <<"GUIDE", "no", "no", "no", "no", "no", "no", "no">>]

EIGHT_BITDO ==
  [byte \in 1..2 |->
    CASE byte = 1 -> <<"A", "B", "no", "X", "Y", "no", "L1", "R1">>
      [] byte = 2 -> <<"no", "no", "BACK", "START", "no", "L3", "R3", "no">>]

PS4 ==
  [byte \in {1, 6, 7} |->
    CASE byte = 1 -> <<"no", "no", "no", "no", "X", "A", "B", "Y">>
      [] byte = 6 -> <<"L1", "R1", "no", "no", "BACK", "START", "L3", "R3">>
      [] byte = 7 -> <<"GUIDE", "no", "no", "no", "no", "no", "no", "no">>]

KBD ==
  [byte \in {0, 1, 3} |->
    CASE byte = 0 -> <<"UP", "DOWN", "LEFT", "RIGHT", "START", "BACK", "L3", "R3">>
      [] byte = 1 -> <<"L1", "R1", "GUIDE", "no", "A", "B", "X", "Y">>
      [] byte = 3 -> <<"L2", "R2", "no", "no", "no", "no", "no", "no">>]

\* A bit of this pad is cleared while its button is down.  It is in analog or in
\* digital mode (PSX_DIGITAL); psx.c never asks it to change.
PSX ==
  [byte \in 3..4 |->
    CASE byte = 3 -> <<"BACK", "R3", "L3", "START", "UP", "RIGHT", "DOWN", "LEFT">>
      [] byte = 4 -> <<"L2", "R2", "L1", "R1", "Y", "B", "A", "X">>]

\* Faulty: the line of the left shoulder was copied and not changed.
N64_PASTED ==
  [byte \in 0..1 |->
    CASE byte = 0 -> <<"RIGHT", "LEFT", "DOWN", "UP", "START", "R2", "B", "A">>
      [] byte = 1 -> <<"L2", "Y", "X", "BACK", "R1", "R1", "no", "GUIDE">>]

N64 ==
  [byte \in 0..1 |->
    CASE byte = 0 -> <<"RIGHT", "LEFT", "DOWN", "UP", "START", "R2", "B", "A">>
      [] byte = 1 -> <<"L2", "Y", "X", "BACK", "R1", "L1", "no", "GUIDE">>]

WIRED ==
  [byte \in 2..3 |->
    CASE byte = 2 -> <<"UP", "DOWN", "LEFT", "RIGHT", "START", "BACK", "L3", "R3">>
      [] byte = 3 -> <<"L1", "R1", "GUIDE", "no", "A", "B", "X", "Y">>]

WIRELESS ==
  [byte \in 6..7 |->
    CASE byte = 6 -> <<"UP", "DOWN", "LEFT", "RIGHT", "START", "BACK", "L3", "R3">>
      [] byte = 7 -> <<"L1", "R1", "no", "no", "A", "B", "X", "Y">>]

XBOXONE ==
  [byte \in 4..5 |->
    CASE byte = 4 -> <<"no", "no", "START", "BACK", "A", "B", "X", "Y">>
      [] byte = 5 -> <<"UP", "DOWN", "LEFT", "RIGHT", "L1", "R1", "L3", "R3">>]

\* Bit 0 stands for a pressure above 0x20.
XBOXOG ==
  LET pressure(b) == <<b, "no", "no", "no", "no", "no", "no", "no">>
  IN  [byte \in {2} \cup 4..9 |->
         CASE byte = 2 -> <<"UP", "DOWN", "LEFT", "RIGHT", "START", "BACK", "L3", "R3">>
           [] byte = 4 -> pressure("A") [] byte = 5 -> pressure("B")
           [] byte = 6 -> pressure("X") [] byte = 7 -> pressure("Y")
           [] byte = 8 -> pressure("R1") [] byte = 9 -> pressure("L1")]

Hosts == [LOGITECH |-> LOGITECH, PS3 |-> PS3, EIGHT_BITDO |-> EIGHT_BITDO,
          PS4 |-> PS4, KBD_PS2 |-> KBD, PSX |-> PSX, PSX_DIGITAL |-> PSX, N64 |-> N64,
          WIRED |-> WIRED, WIRELESS |-> WIRELESS, XBOXONE |-> XBOXONE, XBOXOG |-> XBOXOG]

HatHosts == {"LOGITECH", "PS4", "EIGHT_BITDO"}

XboxHosts == {"WIRED", "WIRELESS", "XBOXONE", "XBOXOG"}

Bits(table) == {b \in (DOMAIN table) \X (0..7) : table[b[1]][b[2] + 1] # "no"}

NameOf(table, b) == table[b[1]][b[2] + 1]

\* LOGITECH_DPAD, indexed with four bits.
LOGITECH_DPAD(h) ==
  LET d == <<{"UP"}, {"UP", "RIGHT"}, {"RIGHT"}, {"RIGHT", "DOWN"}, {"DOWN"},
             {"DOWN", "LEFT"}, {"LEFT"}, {"LEFT", "UP"}, {}>>
  IN  IF h \in 0..8 THEN d[h + 1] ELSE Garbage

-----------------------------------------------------------------------------
(* Sticks: 16 bits in the common report, 8 in most packets.                *)

int16(n) == ((n + 32768) % 65536) - 32768

HID_TO_XINPUT_X(a) == int16((a - 128) * 256)
HID_TO_XINPUT_Y(a) == int16(-((a - 127) * 256))

\* Faulty: the centre of the vertical axis, as in the line commented out.
HID_Y_CENTRED(v) == (-((v \div 256) - 128)) % 256

XINPUT_TO_HID_X(v) == ((v \div 256) - 128) % 256
XINPUT_TO_HID_Y(v) == (-((v \div 256) - 127)) % 256

-----------------------------------------------------------------------------
(* Reading a packet.                                                       *)

Mask == <<1, 2, 4, 8, 16, 32, 64, 128>>

\* A digital trigger: its mask times 0xFF, cut to a byte; some pads give 0xFF.
Pulled(table, bits, t) ==
  LET of == {x \in bits \cap Bits(table) : NameOf(table, x) = t}
      b == CHOOSE x \in of : TRUE
  IN  IF of # {} THEN (Mask[b[2] + 1] * 255) % 256 ELSE 0

\* new_report_fun, its first switch; the sticks of a keyboard and of an N64
\* pad, which take floating point, are left out.
Read(h, p) ==
  LET table == Hosts[h]
      names == {NameOf(table, b) : b \in p.bits \cap Bits(table)}
      analog == h \in XboxHosts \cup {"PS4", "EIGHT_BITDO"}
      index == IF h = "EIGHT_BITDO" /\ p.hat > 7 THEN 8 ELSE p.hat
      pull(t) == IF analog THEN p.trigger[t] ELSE Pulled(table, p.bits, t)
  IN  [buttons |-> (names \ Triggers) \cup (IF h \in HatHosts THEN LOGITECH_DPAD(index) ELSE {}),
       trigger |-> [t \in Triggers |-> pull(t)],
       stick   |-> CASE h \in XboxHosts -> p.stick
                     [] h = "PSX_DIGITAL" -> <<0, 0>>
                     [] OTHER -> <<HID_TO_XINPUT_X(p.stick[1]), HID_TO_XINPUT_Y(p.stick[2])>>]

-----------------------------------------------------------------------------
(* Writing a report.                                                       *)

SWITCH ==
  [byte \in 0..1 |->
    CASE byte = 0 -> <<"X", "A", "B", "Y", "L2", "R2", "L1", "R1">>
      [] byte = 1 -> <<"BACK", "START", "L3", "R3", "GUIDE", "no", "no", "no">>]

DINPUT ==
  [byte \in 0..1 |->
    CASE byte = 0 -> <<"X", "A", "B", "Y", "L1", "R1", "L2", "R2">>
      [] byte = 1 -> <<"BACK", "START", "L3", "R3", "GUIDE", "no", "no", "no">>]

\* The bits are inverted on the wire.
PSX_DEVICE ==
  [byte \in 0..1 |->
    CASE byte = 0 -> <<"BACK", "L3", "R3", "START", "UP", "RIGHT", "DOWN", "LEFT">>
      [] byte = 1 -> <<"L2", "R2", "L1", "R1", "Y", "B", "A", "X">>]

GC ==
  [byte \in 0..1 |->
    CASE byte = 0 -> <<"A", "B", "X", "Y", "START", "no", "no", "no">>
      [] byte = 1 -> <<"LEFT", "RIGHT", "DOWN", "UP", "R1", "R2", "L2", "no">>]

BLUETOOTH ==
  [byte \in 0..1 |->
    CASE byte = 0 -> <<"A", "B", "no", "X", "Y", "no", "L1", "R1">>
      [] byte = 1 -> <<"L2", "R2", "BACK", "START", "GUIDE", "L3", "R3", "no">>]

Devices == [XINPUT |-> WIRED, SWITCH |-> SWITCH, DINPUT |-> DINPUT,
            PSX |-> PSX_DEVICE, GC |-> GC, BLUETOOTH |-> BLUETOOTH]

\* SWITCH_DEVICE_HAT: 11 entries, indexed with the four d-pad bits.
SWITCH_DEVICE_HAT(dirs) ==
  LET table == <<8, 0, 4, 8, 6, 7, 5, 8, 2, 1, 3>>
      weight == [UP |-> 1, DOWN |-> 2, LEFT |-> 4, RIGHT |-> 8]
      at(d) == IF d \in dirs THEN weight[d] ELSE 0
      index == at("UP") + at("DOWN") + at("LEFT") + at("RIGHT")
  IN  IF index < Len(table) THEN table[index + 1] ELSE Garbage

\* The second switch; of the vertical axis a GameCube pad keeps the sense.
Write(d, r) ==
  LET table == Devices[d]
      down(n) == IF n \in Triggers THEN r.trigger[n] > 127 ELSE n \in r.buttons
  IN  [bits    |-> {b \in Bits(table) : down(NameOf(table, b))},
       hat     |-> IF d \in {"SWITCH", "DINPUT", "BLUETOOTH"}
                   THEN SWITCH_DEVICE_HAT(r.buttons \cap Directions) ELSE 8,
       trigger |-> r.trigger,
       stick   |-> CASE d = "XINPUT" -> r.stick
                     [] d = "GC" -> <<XINPUT_TO_HID_X(r.stick[1]), XINPUT_TO_HID_X(r.stick[2])>>
                     [] OTHER -> <<XINPUT_TO_HID_X(r.stick[1]), XINPUT_TO_HID_Y(r.stick[2])>>]

-----------------------------------------------------------------------------
(* Features.                                                               *)

\* The directions a stick is pushed in.
Towards(v, low, high) == IF v > 16383 THEN {high} ELSE IF v < -16383 THEN {low} ELSE {}

\* set_swap_dpad
set_swap_dpad(r) ==
  LET pushed(low, high) == IF {low, high} \subseteq r.buttons THEN -1
                           ELSE IF high \in r.buttons THEN 32767
                           ELSE IF low \in r.buttons THEN -32768 ELSE 0
  IN  [r EXCEPT !.buttons = (@ \ Directions) \cup Towards(r.stick[1], "LEFT", "RIGHT")
                                             \cup Towards(r.stick[2], "DOWN", "UP"),
                !.stick = <<pushed("LEFT", "RIGHT"), pushed("DOWN", "UP")>>]

\* set_block_analog of this stick
set_block_analog(r) == [r EXCEPT !.stick = <<0, 0>>]

\* The sum of two squares is an int: in one corner it overflows, its root is
\* not a number and what the stick reads is undefined, centred here.
Overflows(x, y) == x = -32768 /\ y = -32768

Square(v) == v * v

\* How far out a stick is, at most 32767, to the unit.
Magnitude(x, y) ==
  LET s == Square(x) + Square(y)
  IN  IF s >= Square(INT16_MAX) THEN INT16_MAX
      ELSE CHOOSE m \in 0..(INT16_MAX - 1) : Square(m) <= s /\ s < Square(m + 1)

\* Within the zone or at the centre; one of 100% or more holds every stick.
InZone(m, zone) == zone >= 100 \/ 100 * m <= 32768 * zone

\* Faulty: what is left of the range is not stretched.
Unstretched(m, zone) == (100 * m - 32768 * zone) \div 100

\* What is left of the range beyond the zone is stretched to all of it.
Stretched(m, zone) == (100 * m - 32768 * zone) \div (100 - zone)

\* An axis of a stick that far out.
Scaled(v, m, zone) ==
  IF v >= 0 THEN (v * Stretched(m, zone)) \div m ELSE -((-v * Stretched(m, zone)) \div m)

\* set_deadzone of this stick.  The code computes in floating point: here the
\* magnitude and the quotients are rounded towards zero, which leaves a stick
\* up to 101 units shorter.
set_deadzone(r, zone) ==
  LET x == r.stick[1]  y == r.stick[2]
      m == Magnitude(x, y)
  IN  [r EXCEPT !.stick = IF Overflows(x, y) \/ InZone(m, zone) THEN <<0, 0>>
                          ELSE <<Scaled(x, m, zone), Scaled(y, m, zone)>>]

\* set_features: the enabled features in the order they are listed.
set_features(r, enabled, zone) ==
  LET apply(acc, f) == CASE f = "BLOCK_ANALOG" -> set_block_analog(acc)
                         [] f = "SWAP_DPAD" -> set_swap_dpad(acc)
                         [] f = "DEAD_ZONE" -> set_deadzone(acc, zone)
      after[n \in 0..Len(enabled)] == IF n = 0 THEN r ELSE apply(after[n - 1], enabled[n])
  IN  after[Len(enabled)]

-----------------------------------------------------------------------------
(* A pad in use.                                                           *)

\* What the axes and the triggers of a packet may read.
Range8 == {0, 1, 126, 127, 128, 255}
Positions(h) == IF h \in XboxHosts THEN StickEnds ELSE Range8

Centre(h) == IF h \in XboxHosts THEN 0 ELSE 128

Packet == [bits |-> held, hat |-> hat, trigger |-> trigger, stick |-> stick]

Init ==
  /\ host \in DOMAIN Hosts
  /\ held = {} /\ hat = 8
  /\ trigger = [t \in Triggers |-> 0]
  /\ stick = <<Centre(host), Centre(host)>>

\* Bound: buttons are pressed while the sticks and the analog triggers rest,
\* and these move while nothing is held.
Press(b) ==
  /\ trigger = [t \in Triggers |-> 0] /\ stick = <<Centre(host), Centre(host)>>
  /\ b \in Bits(Hosts[host]) \ held
  /\ Cardinality(held) < MaxHeld
  /\ held' = held \cup {b}
  /\ UNCHANGED <<host, hat, trigger, stick>>

Release(b) ==
  /\ b \in held
  /\ held' = held \ {b}
  /\ UNCHANGED <<host, hat, trigger, stick>>

TurnHat(h) ==
  /\ host \in HatHosts
  /\ trigger = [t \in Triggers |-> 0] /\ stick = <<Centre(host), Centre(host)>>
  /\ hat' = h
  /\ UNCHANGED <<host, held, trigger, stick>>

Pull(t, v) ==
  /\ held = {} /\ hat = 8
  /\ host \in XboxHosts \cup {"PS4", "EIGHT_BITDO"}
  /\ trigger' = [trigger EXCEPT ![t] = v]
  /\ UNCHANGED <<host, held, hat, stick>>

Move(a, v) ==
  /\ held = {} /\ hat = 8
  /\ stick' = [stick EXCEPT ![a] = v]
  /\ UNCHANGED <<host, held, hat, trigger>>

Next ==
  \/ \E b \in Bits(Hosts[host]) : Press(b) \/ Release(b)
  \/ \E h \in 0..8 : TurnHat(h)
  \/ \E t \in Triggers, v \in Range8 : Pull(t, v)
  \/ \E a \in {1, 2}, v \in Positions(host) : Move(a, v)

Spec == Init /\ [][Next]_vars

-----------------------------------------------------------------------------
(* Properties.                                                             *)

\* What is held are inputs of the pad, and its axes have their width.
TypeOK ==
  /\ host \in DOMAIN Hosts
  /\ held \subseteq Bits(Hosts[host])
  /\ hat \in 0..8
  /\ trigger \in [Triggers -> 0..255]
  /\ IF host \in XboxHosts THEN stick \in Axis \X Axis
     ELSE stick \in (0..255) \X (0..255)

Report == Read(host, Packet)

Opposed(r) == {"LEFT", "RIGHT"} \subseteq r.buttons \/ {"UP", "DOWN"} \subseteq r.buttons

\* The pad another converter sees where this one emulates d; its packet is
\* relaid by parse_report and hid_host_handle_interrupt_report.  An emulated
\* PlayStation pad starts in digital mode, and psx.c leaves it there.
Seen == [XINPUT |-> "WIRED", DINPUT |-> "LOGITECH", PSX |-> "PSX_DIGITAL",
         BLUETOOTH |-> "EIGHT_BITDO"]

\* parse_report: buttons in the order of the descriptor, the first four in
\* byte 5 and the next eight in byte 6.
parse_report(w) ==
  LET numbers == {8 * b[1] + b[2] : b \in w.bits}
  IN  [w EXCEPT !.bits = {<<5, 4 + k>> : k \in numbers \cap (0..3)}
                         \cup {<<6, k - 4>> : k \in numbers \cap (4..11)}]

Relaid(d, w) ==
  CASE d = "XINPUT" -> w
    [] d = "DINPUT" -> parse_report(w)
    [] d = "PSX" -> [w EXCEPT !.bits = {<<b[1] + 3, b[2]>> : b \in w.bits}]
    [] d = "BLUETOOTH" -> [w EXCEPT !.bits = {<<b[1] + 1, b[2]>> : b \in w.bits}]

\* What the tables of d and of the pad it is seen as do not agree about: a
\* Logitech and an 8BitDo pad have no guide button, and the PlayStation host
\* reads L3 and R3 in each other's place.
Lost(d, buttons) ==
  IF d \in {"DINPUT", "BLUETOOTH"} THEN buttons \ {"GUIDE"}
  ELSE IF d = "PSX"
  THEN (buttons \ {"L3", "R3", "GUIDE"}) \cup (IF "L3" \in buttons THEN {"R3"} ELSE {})
                                         \cup (IF "R3" \in buttons THEN {"L3"} ELSE {})
  ELSE buttons

\* An emulated pad plugged into a second converter is read there as the pad
\* in the user's hands is read here: every input arrives, at the resolution
\* of the packets, but for the sticks of the digital PlayStation pad, which
\* rest.  Opposite directions have no hat and are left out.
Chained ==
  \A d \in DOMAIN Seen : ~Opposed(Report) =>
    LET again == Read(Seen[d], Relaid(d, Write(d, Report)))
    IN  /\ again.buttons = Lost(d, Report.buttons)
        /\ \A t \in Triggers : (again.trigger[t] > 127) = (Report.trigger[t] > 127)
        /\ \A a \in {1, 2} :
             again.stick[a] \div 256 = IF d = "PSX" THEN 0 ELSE Report.stick[a] \div 256

\* Two inputs of a pad that read alike: triangle of a PS3 pad as cross.
Alike(h) == IF h = "PS3" THEN {<<3, 4>>, <<3, 6>>} ELSE {}

\* Whatever else is held, pressing or releasing a button changes the report
\* of every emulated pad that has it.
EveryButtonCounts ==
  [][\A b \in (held' \ held) \cup (held \ held'), d \in DOMAIN Devices :
       /\ b \notin Alike(host)
       /\ NameOf(Hosts[host], b) \in {NameOf(Devices[d], c) : c \in Bits(Devices[d])}
       => Write(d, Report').bits # Write(d, Report).bits]_vars

\* A stick pushed to its rim moves the d-pad it is exchanged with, whatever the
\* dead zone below 100%, except in the corner where the sum overflows.  The rim
\* of an 8-bit pad to the right and upwards is 32512: it is felt up to 98%.
RimIsFelt ==
  \A zone \in Zones :
    LET x == Report.stick[1]  y == Report.stick[2]
        rim == IF zone < 99 THEN {-32768, 32512, 32767} ELSE {-32768, 32767}
    IN  (x \in rim \/ y \in rim) /\ zone < 100 /\ ~Overflows(x, y)
        => set_features(Report, <<"DEAD_ZONE", "SWAP_DPAD">>, zone).buttons \cap Directions # {}
=============================================================================
