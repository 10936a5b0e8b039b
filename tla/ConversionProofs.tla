-------------------------- MODULE ConversionProofs --------------------------
(***************************************************************************)
(* Proofs about Conversion, for any number of inputs held down, any        *)
(* position of the sticks and triggers and any dead zone: what one         *)
(* converter writes another one reads back, every button changes the       *)
(* reports, and the features keep what they should.                        *)
(***************************************************************************)
EXTENDS Conversion, WellFoundedInduction, TLAPS

\* The buttons of the common report.
Buttons == Directions \cup {"START", "BACK", "L3", "R3", "L1", "R1", "GUIDE", "A", "B", "X", "Y"}

Reports == [buttons : SUBSET Buttons, trigger : [Triggers -> 0..255], stick : Axis \X Axis]

\* The axes are used by their bounds: the provers would enumerate a range whose
\* ends are numerals.
LEMMA AxisBounds ==
  \A v : v \in Axis <=> v \in Int /\ -32768 <= v /\ v <= 32767
<1>1. INT16_MIN = -32768 /\ INT16_MAX = 32767
  BY DEF INT16_MIN, INT16_MAX
<1>2. INT16_MIN \in Int /\ INT16_MAX \in Int
  BY <1>1
<1>3. \A v \in Int : v \in Axis <=> INT16_MIN <= v /\ v <= INT16_MAX
  BY <1>2 DEF Axis
<1>4. \A v \in Axis : v \in Int
  BY <1>2 DEF Axis
<1> QED
  BY <1>1, <1>3, <1>4

-----------------------------------------------------------------------------
(* The features.                                                           *)

\* One step of the loop over the enabled features.
Applied(r, f, zone) ==
  CASE f = "BLOCK_ANALOG" -> set_block_analog(r)
    [] f = "SWAP_DPAD" -> set_swap_dpad(r)
    [] f = "DEAD_ZONE" -> set_deadzone(r, zone)

\* Two features are applied one after the other.
LEMMA TwoFeatures ==
  ASSUME NEW r, NEW f, NEW g, NEW zone
  PROVE  set_features(r, <<f, g>>, zone) = Applied(Applied(r, f, zone), g, zone)
<1> DEFINE Loop(h) == [n \in 0..2 |-> IF n = 0 THEN r
                                     ELSE Applied(h[n - 1], <<f, g>>[n], zone)]
           done == [n \in 0..2 |-> IF n = 0 THEN r ELSE IF n = 1 THEN Applied(r, f, zone)
                                   ELSE Applied(Applied(r, f, zone), g, zone)]
<1>1. done = Loop(done)
  <2>1. \A n \in 0..2 : done[n] = IF n = 0 THEN r ELSE Applied(done[n - 1], <<f, g>>[n], zone)
    OBVIOUS
  <2> QED
    BY <2>1
<1>2. PICK h : h = Loop(h) /\ h = CHOOSE x : x = Loop(x)
  BY <1>1
<1>3. h[2] = Applied(Applied(r, f, zone), g, zone)
  <2>1. h[0] = r
    BY <1>2
  <2>2. h[1] = Applied(h[0], f, zone)
    BY <1>2
  <2>3. h[2] = Applied(h[1], g, zone)
    BY <1>2
  <2> QED
    BY <2>1, <2>2, <2>3
<1>4. set_features(r, <<f, g>>, zone) = h[2]
  BY <1>2 DEF set_features, Applied
<1> QED
  BY <1>3, <1>4

\* Exchanging stick and d-pad turns the position of a stick into directions.
LEMMA SwapPoints ==
  ASSUME NEW r \in Reports, NEW x, NEW y
  PROVE  Towards(x, "LEFT", "RIGHT") \cup Towards(y, "DOWN", "UP")
           \subseteq set_swap_dpad([r EXCEPT !.stick = <<x, y>>]).buttons
BY DEF set_swap_dpad, Reports

\* A quotient is at least what fits.
LEMMA AtLeast ==
  ASSUME NEW n \in Int, NEW d \in Nat, d > 0, NEW k \in Int, n >= k * d
  PROVE  n \div d >= k
<1>1. n \div d \in Int /\ n < d * (n \div d) + d
  BY SMT
<1>2. ASSUME n \div d <= k - 1 PROVE FALSE
  <2> DEFINE q == n \div d
  <2>1. q \in Int /\ q <= k - 1
    BY <1>1, <1>2
  <2> HIDE DEF q
  <2>2. d * q <= d * (k - 1)
    BY <2>1
  <2>3. d * (k - 1) = k * d - d
    OBVIOUS
  <2> QED
    BY <1>1, <2>1, <2>2, <2>3 DEF q
<1> QED
  BY <1>1, <1>2

\* Squares grow.
LEMMA SquareGrows ==
  ASSUME NEW m \in Nat, NEW n \in Nat
  PROVE  /\ Square(m) \in Nat
         /\ m <= n => Square(m) <= Square(n)
         /\ m < n => Square(m) < Square(n)
BY DEF Square

\* Every square root has a whole part: the least number whose successor is
\* beyond the root.
LEMMA RootExists ==
  ASSUME NEW s \in Nat
  PROVE  \E m \in Nat : Square(m) <= s /\ s < Square(m + 1)
<1> DEFINE beyond == {n \in Nat : s < Square(n + 1)}
<1>1. s \in beyond
  BY DEF Square
<1>2. \E m \in beyond : \A n \in beyond : ~(<<n, m>> \in OpToRel(<, Nat))
  BY <1>1, NatLessThanWellFounded, WFMin
<1>3. PICK m \in beyond : \A n \in beyond : ~(<<n, m>> \in OpToRel(<, Nat))
  BY <1>2
<1>4. m \in Nat /\ s < Square(m + 1)
  OBVIOUS
<1>5. CASE m = 0
  BY <1>4, <1>5 DEF Square
<1>6. CASE m # 0
  <2>1. m - 1 \in Nat /\ <<m - 1, m>> \in OpToRel(<, Nat)
    BY <1>4, <1>6 DEF OpToRel
  <2>2. ~(s < Square((m - 1) + 1))
    BY <1>3, <2>1
  <2>3. Square((m - 1) + 1) = Square(m) /\ Square(m) \in Nat
    BY <1>4, SquareGrows
  <2> QED
    BY <1>4, <2>2, <2>3
<1> QED
  BY <1>5, <1>6

\* A stick is as far out as either of its axes.
LEMMA MagnitudeFacts ==
  ASSUME NEW x \in Axis, NEW y \in Axis
  PROVE  /\ Magnitude(x, y) \in Nat /\ Magnitude(x, y) <= 32767
         /\ \A k \in Nat : (k <= 32767 /\ (x >= k \/ -x >= k \/ y >= k \/ -y >= k))
                              => k <= Magnitude(x, y)
<1> DEFINE s == Square(x) + Square(y)
<1>1. x \in Int /\ y \in Int
  BY AxisBounds
<1>2. ASSUME NEW v \in Int
      PROVE  /\ Square(v) \in Nat
             /\ \A k \in Nat : (v >= k \/ -v >= k) => Square(k) <= Square(v)
  <2>1. Square(v) = Square(-v)
    BY DEF Square
  <2>2. CASE v >= 0
    BY <2>2, SquareGrows
  <2>3. CASE -v >= 0
    BY <2>1, <2>3, SquareGrows
  <2> QED
    BY <2>2, <2>3
<1>3. /\ s \in Nat
      /\ \A k \in Nat : (x >= k \/ -x >= k \/ y >= k \/ -y >= k) => Square(k) <= s
  BY <1>1, <1>2, SquareGrows
<1>4. Magnitude(x, y) = IF s >= Square(INT16_MAX) THEN INT16_MAX
                        ELSE CHOOSE m \in 0..(INT16_MAX - 1) : Square(m) <= s /\ s < Square(m + 1)
  BY DEF Magnitude
<1>5. INT16_MAX \in Nat /\ INT16_MAX = 32767
  BY DEF INT16_MAX
<1> HIDE DEF s
<1>6. CASE s >= Square(INT16_MAX)
  BY <1>4, <1>5, <1>6
<1>7. CASE ~(s >= Square(INT16_MAX))
  <2>1. Square(INT16_MAX) \in Nat /\ s < Square(INT16_MAX)
    BY <1>3, <1>5, <1>7, SquareGrows
  <2>2. PICK n \in Nat : Square(n) <= s /\ s < Square(n + 1)
    BY <1>3, RootExists
  <2>3. n < INT16_MAX
    BY <1>3, <1>5, <2>1, <2>2, SquareGrows
  <2>4. n \in 0..(INT16_MAX - 1)
    <3>1. INT16_MAX \in Int
      BY <1>5
    <3> QED
      BY <2>3, <3>1
  <2>5. PICK m \in 0..(INT16_MAX - 1) :
          m = Magnitude(x, y) /\ Square(m) <= s /\ s < Square(m + 1)
    BY <1>4, <1>7, <2>2, <2>4
  <2>6. m \in Nat /\ m + 1 \in Nat /\ m <= INT16_MAX
    BY <1>5
  <2>7. ASSUME NEW k \in Nat, Square(k) <= s PROVE k <= m
    <3>1. Square(k) \in Nat /\ Square(m + 1) \in Nat
      BY <2>6, SquareGrows
    <3>2. m + 1 <= k => Square(m + 1) <= Square(k)
      BY <2>6, SquareGrows
    <3> QED
      BY <1>3, <2>5, <2>6, <2>7, <3>1, <3>2
  <2>8. \A k \in Nat : (x >= k \/ -x >= k \/ y >= k \/ -y >= k) => k <= m
    BY <1>3, <2>7
  <2> QED
    BY <1>5, <2>5, <2>6, <2>8
<1> QED
  BY <1>6, <1>7

\* The rim for a dead zone, of 16 or of 8 bits.
Rim(zone) == IF zone < 99 THEN {-32768, 32512, 32767} ELSE {-32768, 32767}

\* A stick at its rim is beyond the zone, and what is left of the range is
\* stretched to more than half of it.
LEMMA RimStretches ==
  ASSUME NEW zone \in 0..99, NEW m \in Nat, m <= 32767, zone < 99 => m >= 32512,
         zone = 99 => m = 32767
  PROVE  ~InZone(m, zone) /\ Stretched(m, zone) \in Int /\ Stretched(m, zone) >= 17000
<1> DEFINE n == 100 * m - 32768 * zone
           d == 100 - zone
<1>1. n \in Int /\ d \in Nat /\ d > 0 /\ n >= 17000 * d
  OBVIOUS
<1>2. n > 0 /\ zone < 100
  BY <1>1
<1> HIDE DEF n, d
<1>3. n \div d \in Int /\ n \div d >= 17000
  BY <1>1, AtLeast
<1> QED
  BY <1>2, <1>3 DEF InZone, Stretched, n, d

\* So that it still points beyond the threshold.
LEMMA ScaledPoints ==
  ASSUME NEW zone \in 0..99, NEW v \in Rim(zone), NEW m \in Nat, m > 0, m <= 32767,
         Stretched(m, zone) \in Int, Stretched(m, zone) >= 17000, NEW low, NEW high
  PROVE  Towards(Scaled(v, m, zone), low, high) # {}
<1> DEFINE k == Stretched(m, zone)
<1> HIDE DEF k
<1>1. k \in Int /\ k >= 17000
  BY DEF k
<1>2. ASSUME NEW w \in {32512, 32767, 32768}
      PROVE  (w * k) \div m \in Int /\ (w * k) \div m >= 16384
  <2>1. w * k \in Int /\ w * k >= 16384 * m
    BY <1>1
  <2> QED
    BY <2>1, AtLeast
<1>3. CASE v = -32768
  <2>1. Scaled(v, m, zone) = -((32768 * k) \div m)
    BY <1>3 DEF Scaled, k
  <2>2. PICK q \in Int : q = (32768 * k) \div m /\ q >= 16384
    BY <1>2
  <2>3. Scaled(v, m, zone) < -16383 /\ ~(Scaled(v, m, zone) > 16383)
    BY <2>1, <2>2
  <2> QED
    BY <2>3 DEF Towards
<1>4. CASE v \in {32512, 32767}
  <2>1. Scaled(v, m, zone) = (v * k) \div m
    BY <1>4 DEF Scaled, k
  <2> QED
    BY <1>2, <1>4, <2>1 DEF Towards
<1> QED
  BY <1>3, <1>4 DEF Rim

\* A stick at its rim moves the d-pad.
LEMMA RimMoves ==
  ASSUME NEW r \in Reports, NEW zone \in 0..99,
         r.stick[1] \in Rim(zone) \/ r.stick[2] \in Rim(zone),
         ~Overflows(r.stick[1], r.stick[2])
  PROVE  set_swap_dpad(set_deadzone(r, zone)).buttons \cap Directions # {}
<1> DEFINE x == r.stick[1]
           y == r.stick[2]
           m == Magnitude(x, y)
<1>1. x \in Axis /\ y \in Axis
  BY DEF Reports
<1>2. m \in Nat /\ m <= 32767 /\ (zone < 99 => m >= 32512) /\ (zone = 99 => m = 32767)
  <2>1. zone < 99 => \E v \in {x, y} : v >= 32512 \/ -v >= 32512
    BY DEF Rim
  <2>2. zone = 99 => \E v \in {x, y} : v >= 32767 \/ -v >= 32767
    BY DEF Rim
  <2> HIDE DEF x, y
  <2> QED
    BY <1>1, <2>1, <2>2, MagnitudeFacts
<1> HIDE DEF m
<1>3. ~InZone(m, zone) /\ Stretched(m, zone) \in Int /\ Stretched(m, zone) >= 17000
  BY <1>2, RimStretches
<1>4. set_deadzone(r, zone) = [r EXCEPT !.stick = <<Scaled(x, m, zone), Scaled(y, m, zone)>>]
  BY <1>3 DEF set_deadzone, m
<1>5. Towards(Scaled(x, m, zone), "LEFT", "RIGHT") \cup Towards(Scaled(y, m, zone), "DOWN", "UP")
        \subseteq set_swap_dpad(set_deadzone(r, zone)).buttons
  BY <1>4, SwapPoints
<1>6. /\ Towards(Scaled(x, m, zone), "LEFT", "RIGHT") \subseteq Directions
      /\ Towards(Scaled(y, m, zone), "DOWN", "UP") \subseteq Directions
  BY DEF Towards, Directions
<1>7. m > 0 /\ m <= 32767
  BY <1>2
<1>8. \/ Towards(Scaled(x, m, zone), "LEFT", "RIGHT") # {}
      \/ Towards(Scaled(y, m, zone), "DOWN", "UP") # {}
  BY <1>2, <1>3, <1>7, ScaledPoints
<1> QED
  BY <1>5, <1>6, <1>8

-----------------------------------------------------------------------------
(* What the tables say.                                                    *)

Pads == {"LOGITECH", "PS3", "EIGHT_BITDO", "PS4", "KBD_PS2", "PSX", "PSX_DIGITAL", "N64",
         "WIRED", "WIRELESS", "XBOXONE", "XBOXOG"}

\* The pads whose triggers have an axis of their own.
Analog == XboxHosts \cup {"PS4", "EIGHT_BITDO"}

LEMMA PadsAreHosts == DOMAIN Hosts = Pads
  BY DEF Hosts, Pads

\* Every bit that is looked at is a button or a trigger; a pad with a hat has
\* no bits for the directions, one with analog triggers none for these.
LEMMA HostNames ==
  ASSUME NEW h \in Pads, NEW b \in Bits(Hosts[h])
  PROVE  /\ b[2] \in 0..7
         /\ NameOf(Hosts[h], b) \in Buttons \cup Triggers
         /\ h \in HatHosts => NameOf(Hosts[h], b) \notin Directions
         /\ h \in Analog => NameOf(Hosts[h], b) \notin Triggers
<1> USE DEF HatHosts, Analog, XboxHosts, Buttons, Directions, Triggers, Bits, NameOf
<1>1. CASE h = "LOGITECH"
  BY <1>1 DEF Hosts, LOGITECH
<1>2. CASE h = "PS3"
  BY <1>2 DEF Hosts, PS3
<1>3. CASE h = "EIGHT_BITDO"
  BY <1>3 DEF Hosts, EIGHT_BITDO
<1>4. CASE h = "PS4"
  BY <1>4 DEF Hosts, PS4
<1>5. CASE h = "KBD_PS2"
  BY <1>5 DEF Hosts, KBD
<1>6. CASE h \in {"PSX", "PSX_DIGITAL"}
  BY <1>6 DEF Hosts, PSX
<1>7. CASE h = "N64"
  BY <1>7 DEF Hosts, N64
<1>8. CASE h = "WIRED"
  BY <1>8 DEF Hosts, WIRED
<1>9. CASE h = "WIRELESS"
  BY <1>9 DEF Hosts, WIRELESS
<1>10. CASE h = "XBOXONE"
  BY <1>10 DEF Hosts, XBOXONE
<1>11. CASE h = "XBOXOG"
  <2>1. Hosts[h] = XBOXOG
    BY <1>11 DEF Hosts
  <2>2. NameOf(XBOXOG, b) \in Buttons \ Triggers
    BY <2>1 DEF XBOXOG
  <2>3. b[2] \in 0..7
    OBVIOUS
  <2> QED
    BY <1>11, <2>1, <2>2, <2>3
<1> QED
  BY <1>1, <1>2, <1>3, <1>4, <1>5, <1>6, <1>7, <1>8, <1>9, <1>10, <1>11 DEF Pads

\* No two inputs of a pad read alike, but for the triangle of a PS3 pad.
LEMMA HostsTellApart ==
  ASSUME NEW h \in Pads, NEW b \in Bits(Hosts[h]), NEW c \in Bits(Hosts[h]),
         NameOf(Hosts[h], b) = NameOf(Hosts[h], c), b \notin Alike(h)
  PROVE  b = c
<1> USE DEF Alike, Bits, NameOf
<1>1. CASE h = "LOGITECH"
  BY <1>1 DEF Hosts, LOGITECH
<1>2. CASE h = "PS3"
  BY <1>2 DEF Hosts, PS3
<1>3. CASE h = "EIGHT_BITDO"
  BY <1>3 DEF Hosts, EIGHT_BITDO
<1>4. CASE h = "PS4"
  BY <1>4 DEF Hosts, PS4
<1>5. CASE h = "KBD_PS2"
  BY <1>5 DEF Hosts, KBD
<1>6. CASE h \in {"PSX", "PSX_DIGITAL"}
  BY <1>6 DEF Hosts, PSX
<1>7. CASE h = "N64"
  BY <1>7 DEF Hosts, N64
<1>8. CASE h = "WIRED"
  BY <1>8 DEF Hosts, WIRED
<1>9. CASE h = "WIRELESS"
  BY <1>9 DEF Hosts, WIRELESS
<1>10. CASE h = "XBOXONE"
  BY <1>10 DEF Hosts, XBOXONE
<1>11. CASE h = "XBOXOG"
  BY <1>11 DEF Hosts, XBOXOG
<1> QED
  BY <1>1, <1>2, <1>3, <1>4, <1>5, <1>6, <1>7, <1>8, <1>9, <1>10, <1>11 DEF Pads

\* What a hat points to are directions.
LEMMA HatPoints ==
  ASSUME NEW h \in 0..8
  PROVE  LOGITECH_DPAD(h) \subseteq Directions
  BY DEF LOGITECH_DPAD, Directions

\* A digital trigger reads beyond half of the range, whatever its mask.
LEMMA MaskPulls ==
  ASSUME NEW k \in 0..7
  PROVE  (Mask[k + 1] * 255) % 256 \in 128..255
<1>1. Mask[k + 1] \in {1, 2, 4, 8, 16, 32, 64, 128}
  BY DEF Mask
<1> DEFINE m == Mask[k + 1]
<1> HIDE DEF m
<1>2. m \in {1, 2, 4, 8, 16, 32, 64, 128}
  BY <1>1 DEF m
<1>3. (m * 255) % 256 \in 128..255
  BY <1>2
<1> QED
  BY <1>3 DEF m

-----------------------------------------------------------------------------
(* The common report.                                                      *)

LEMMA Int16IsAxis ==
  ASSUME NEW n \in Int
  PROVE  int16(n) \in Axis
<1> DEFINE m == (n + 32768) % 65536
<1>1. m \in Int /\ 0 <= m /\ m < 65536
  OBVIOUS
<1>2. int16(n) = m - 32768
  BY DEF int16
<1> HIDE DEF m
<1> QED
  BY <1>1, <1>2, AxisBounds

\* The names of the bits that are set.
Names(h, bits) == {NameOf(Hosts[h], b) : b \in bits \cap Bits(Hosts[h])}

\* The axes and the hat of a packet have their width.
PacketOf(h, p) ==
  /\ p.hat \in 0..8
  /\ p.trigger \in [Triggers -> 0..255]
  /\ IF h \in XboxHosts THEN p.stick \in Axis \X Axis ELSE p.stick \in (0..255) \X (0..255)

\* A digital trigger reads beyond half of the range while it is held, else zero.
LEMMA PulledFacts ==
  ASSUME NEW h \in Pads, NEW bits, NEW t \in Triggers
  PROVE  /\ Pulled(Hosts[h], bits, t) \in 0..255
         /\ (Pulled(Hosts[h], bits, t) > 127) = (t \in Names(h, bits))
<1> DEFINE of == {x \in bits \cap Bits(Hosts[h]) : NameOf(Hosts[h], x) = t}
           b == CHOOSE x \in of : TRUE
<1>1. CASE of = {}
  <2>1. Pulled(Hosts[h], bits, t) = 0
    BY <1>1 DEF Pulled
  <2>2. t \notin Names(h, bits)
    BY <1>1 DEF Names
  <2> QED
    BY <2>1, <2>2
<1>2. CASE of # {}
  <2>1. b \in of
    BY <1>2
  <2>2. b[2] \in 0..7
    BY <2>1, HostNames
  <2>3. t \in Names(h, bits)
    BY <2>1 DEF Names
  <2>4. Pulled(Hosts[h], bits, t) = (Mask[b[2] + 1] * 255) % 256
    BY <1>2 DEF Pulled
  <2> HIDE DEF b
  <2>5. Pulled(Hosts[h], bits, t) \in 128..255
    BY <2>2, <2>4, MaskPulls
  <2> QED
    BY <2>3, <2>5
<1> QED
  BY <1>1, <1>2

\* What a packet is read as.
LEMMA ReadFacts ==
  ASSUME NEW h \in Pads, NEW p, PacketOf(h, p)
  PROVE  /\ Read(h, p) \in Reports
         /\ Read(h, p).buttons = (Names(h, p.bits) \ Triggers)
                                   \cup (IF h \in HatHosts THEN LOGITECH_DPAD(p.hat) ELSE {})
         /\ \A t \in Triggers :
              /\ h \in Analog => Read(h, p).trigger[t] = p.trigger[t]
              /\ h \notin Analog => (Read(h, p).trigger[t] > 127) = (t \in Names(h, p.bits))
         /\ Read(h, p).stick =
              CASE h \in XboxHosts -> p.stick
                [] h = "PSX_DIGITAL" -> <<0, 0>>
                [] OTHER -> <<HID_TO_XINPUT_X(p.stick[1]), HID_TO_XINPUT_Y(p.stick[2])>>
<1> DEFINE points == IF h \in HatHosts THEN LOGITECH_DPAD(p.hat) ELSE {}
           buttons == (Names(h, p.bits) \ Triggers) \cup points
           pull(t) == IF h \in Analog THEN p.trigger[t] ELSE Pulled(Hosts[h], p.bits, t)
           moved == CASE h \in XboxHosts -> p.stick
                      [] h = "PSX_DIGITAL" -> <<0, 0>>
                      [] OTHER -> <<HID_TO_XINPUT_X(p.stick[1]), HID_TO_XINPUT_Y(p.stick[2])>>
<1>1. Read(h, p) = [buttons |-> buttons, trigger |-> [t \in Triggers |-> pull(t)],
                    stick |-> moved]
  <2>1. (IF h = "EIGHT_BITDO" /\ p.hat > 7 THEN 8 ELSE p.hat) = p.hat
    BY DEF PacketOf
  <2> QED
    BY <2>1 DEF Read, Names, Analog
<1>2. buttons \subseteq Buttons
  <2>1. Names(h, p.bits) \subseteq Buttons \cup Triggers
    BY HostNames DEF Names
  <2>2. points \subseteq Buttons
    BY HatPoints DEF PacketOf, Buttons
  <2> QED
    BY <2>1, <2>2
<1>3. \A t \in Triggers : pull(t) \in 0..255
  BY PulledFacts DEF PacketOf
<1>4. moved \in Axis \X Axis
  <2>1. CASE h \in XboxHosts
    BY <2>1 DEF PacketOf, XboxHosts
  <2>2. CASE h \notin XboxHosts
    <3>1. p.stick[1] \in 0..255 /\ p.stick[2] \in 0..255
      BY <2>2 DEF PacketOf
    <3>2. HID_TO_XINPUT_X(p.stick[1]) \in Axis /\ HID_TO_XINPUT_Y(p.stick[2]) \in Axis
      BY <3>1, Int16IsAxis DEF HID_TO_XINPUT_X, HID_TO_XINPUT_Y
    <3>3. 0 \in Axis
      BY AxisBounds
    <3> QED
      BY <2>2, <3>2, <3>3
  <2> QED
    BY <2>1, <2>2
<1>5. \A t \in Triggers : h \notin Analog => (pull(t) > 127) = (t \in Names(h, p.bits))
  BY PulledFacts
<1> HIDE DEF buttons, pull, moved
<1>6. Read(h, p) \in Reports
  BY <1>1, <1>2, <1>3, <1>4 DEF Reports
<1>7. Read(h, p).buttons = buttons /\ Read(h, p).stick = moved
      /\ \A t \in Triggers : Read(h, p).trigger[t] = pull(t)
  BY <1>1
<1> QED
  BY <1>5, <1>6, <1>7 DEF buttons, pull, moved

-----------------------------------------------------------------------------
(* The types.                                                              *)

\* What is held are inputs of the pad, and its axes have their width: what
\* the packets that new_report_fun reads are made of.
THEOREM TypeCorrect == Spec => []TypeOK
<1>1. Init => TypeOK
  <2> SUFFICES ASSUME Init
               PROVE  TypeOK
    OBVIOUS
  <2>1. IF host \in XboxHosts THEN stick \in Axis \X Axis ELSE stick \in (0..255) \X (0..255)
    <3>1. (host \in XboxHosts => Centre(host) \in Axis)
          /\ (host \notin XboxHosts => Centre(host) \in 0..255)
      BY AxisBounds DEF Centre
    <3> QED
      BY <3>1 DEF Init
  <2>2. held \subseteq Bits(Hosts[host])
    BY DEF Init
  <2> QED
    BY <2>1, <2>2 DEF Init, TypeOK
<1>2. TypeOK /\ [Next]_vars => TypeOK'
  <2> SUFFICES ASSUME TypeOK, [Next]_vars
               PROVE  TypeOK'
    OBVIOUS
  <2> USE DEF TypeOK
  <2>1. ASSUME NEW b \in Bits(Hosts[host]), Press(b)
        PROVE  TypeOK'
    BY <2>1 DEF Press
  <2>2. ASSUME NEW b \in Bits(Hosts[host]), Release(b)
        PROVE  TypeOK'
    BY <2>2 DEF Release
  <2>3. ASSUME NEW h \in 0..8, TurnHat(h)
        PROVE  TypeOK'
    BY <2>3 DEF TurnHat
  <2>4. ASSUME NEW t \in Triggers, NEW v \in Range8, Pull(t, v)
        PROVE  TypeOK'
    BY <2>4 DEF Pull, Range8
  <2>5. ASSUME NEW a \in {1, 2}, NEW v \in Positions(host), Move(a, v)
        PROVE  TypeOK'
    BY <2>5, StickAssumption DEF Move, Positions, Range8
  <2>6. CASE UNCHANGED vars
    BY <2>6 DEF vars
  <2> QED
    BY <2>1, <2>2, <2>3, <2>4, <2>5, <2>6 DEF Next
<1> QED
  BY <1>1, <1>2, PTL DEF Spec

\* In every state of a pad the report is one.
LEMMA ReportFacts ==
  ASSUME TypeOK
  PROVE  host \in Pads /\ PacketOf(host, Packet) /\ Packet.bits = held
         /\ held \subseteq Bits(Hosts[host]) /\ Report \in Reports
<1>1. host \in Pads /\ PacketOf(host, Packet) /\ Packet.bits = held
  BY PadsAreHosts DEF TypeOK, PacketOf, Packet
<1>2. held \subseteq Bits(Hosts[host])
  BY DEF TypeOK
<1> QED
  BY <1>1, <1>2, ReadFacts DEF Report

\* A stick pushed to its rim leaves the dead zone (set_deadzone) and moves the
\* d-pad it is exchanged with, for any zone below 100% and any position of the
\* other axis, except where the sum overflows; the rim of an 8-bit pad to the
\* right and upwards up to 98%.
THEOREM RimCorrect == Spec => []RimIsFelt
<1>1. TypeOK => RimIsFelt
  <2> SUFFICES ASSUME TypeOK, NEW zone \in Zones,
                      Report.stick[1] \in Rim(zone) \/ Report.stick[2] \in Rim(zone),
                      zone < 100, ~Overflows(Report.stick[1], Report.stick[2])
               PROVE  set_features(Report, <<"DEAD_ZONE", "SWAP_DPAD">>, zone).buttons
                        \cap Directions # {}
    BY DEF RimIsFelt, Rim
  <2>1. zone \in 0..99
    BY ZonesAssumption
  <2>2. Report \in Reports
    BY ReportFacts
  <2>3. set_features(Report, <<"DEAD_ZONE", "SWAP_DPAD">>, zone)
          = set_swap_dpad(set_deadzone(Report, zone))
    BY TwoFeatures DEF Applied
  <2> QED
    BY <2>1, <2>2, <2>3, RimMoves
<1> QED
  BY <1>1, TypeCorrect, PTL

-----------------------------------------------------------------------------
(* Buttons that count.                                                     *)

\* Whether an input of the common report is down, as new_report_fun asks it.
Down(r, n) == IF n \in Triggers THEN r.trigger[n] > 127 ELSE n \in r.buttons

LEMMA Written ==
  ASSUME NEW d, NEW r
  PROVE  Write(d, r).bits = {c \in Bits(Devices[d]) : Down(r, NameOf(Devices[d], c))}
<1> DEFINE down(n) == IF n \in Triggers THEN r.trigger[n] > 127 ELSE n \in r.buttons
<1>1. Write(d, r).bits = {c \in Bits(Devices[d]) : down(NameOf(Devices[d], c))}
  BY DEF Write
<1> QED
  BY <1>1 DEF Down

\* A report says of every input of the pad, but for the triangle of a PS3 pad,
\* whether it is held.
LEMMA ReportTells ==
  ASSUME NEW h \in Pads, NEW p, PacketOf(h, p),
         NEW b \in Bits(Hosts[h]), b \notin Alike(h)
  PROVE  Down(Read(h, p), NameOf(Hosts[h], b)) = (b \in p.bits)
<1> DEFINE n == NameOf(Hosts[h], b)
<1>1. (n \in Names(h, p.bits)) = (b \in p.bits)
  BY HostsTellApart DEF Names
<1>2. /\ h \in HatHosts => n \notin Directions
      /\ h \in Analog => n \notin Triggers
  BY HostNames
<1> HIDE DEF n
<1>3. CASE n \in Triggers
  <2>1. (Read(h, p).trigger[n] > 127) = (n \in Names(h, p.bits))
    BY <1>2, <1>3, ReadFacts
  <2> QED
    BY <1>1, <1>3, <2>1 DEF Down, n
<1>4. CASE n \notin Triggers
  <2>1. h \in HatHosts => n \notin LOGITECH_DPAD(p.hat)
    BY <1>2, HatPoints DEF PacketOf
  <2>2. Read(h, p).buttons = (Names(h, p.bits) \ Triggers)
                                   \cup (IF h \in HatHosts THEN LOGITECH_DPAD(p.hat) ELSE {})
    BY ReadFacts
  <2>3. (n \in Read(h, p).buttons) = (n \in Names(h, p.bits))
    BY <1>4, <2>1, <2>2
  <2> QED
    BY <1>1, <1>4, <2>3 DEF Down, n
<1> QED
  BY <1>3, <1>4

\* Whatever else is held, pressing or releasing a button changes the report
\* that new_report_fun writes for every emulated pad that has the button.
THEOREM ButtonsCorrect == Spec => EveryButtonCounts
<1>1. TypeOK /\ TypeOK' /\ host' = host =>
        \A b \in (held' \ held) \cup (held \ held'), d \in DOMAIN Devices :
          /\ b \notin Alike(host)
          /\ NameOf(Hosts[host], b) \in {NameOf(Devices[d], c) : c \in Bits(Devices[d])}
          => Write(d, Report').bits # Write(d, Report).bits
  <2> SUFFICES ASSUME TypeOK, TypeOK', host' = host,
                      NEW b \in (held' \ held) \cup (held \ held'),
                      NEW d \in DOMAIN Devices, b \notin Alike(host),
                      NEW c \in Bits(Devices[d]),
                      NameOf(Hosts[host], b) = NameOf(Devices[d], c)
               PROVE  Write(d, Report').bits # Write(d, Report).bits
    OBVIOUS
  <2> DEFINE n == NameOf(Hosts[host], b)
  <2>1. /\ host \in Pads /\ PacketOf(host, Packet) /\ Packet.bits = held
        /\ held \subseteq Bits(Hosts[host])
    BY ReportFacts
  <2>2. PacketOf(host, Packet') /\ Packet'.bits = held' /\ held' \subseteq Bits(Hosts[host])
    BY DEF TypeOK, PacketOf, Packet
  <2>3. b \in Bits(Hosts[host])
    BY <2>1, <2>2
  <2>4. Down(Report, n) = (b \in held)
    BY <2>1, <2>3, ReportTells DEF Report
  <2>5. Report' = Read(host, Packet')
    BY DEF Report
  <2>6. Down(Report', n) = (b \in held')
    BY <2>1, <2>2, <2>3, <2>5, ReportTells
  <2>7. c \in Write(d, Report).bits <=> Down(Report, n)
    BY Written, Zenon
  <2>8. c \in Write(d, Report').bits <=> Down(Report', n)
    BY Written, Zenon
  <2> QED
    BY <2>4, <2>6, <2>7, <2>8
<1>2. [Next]_vars => host' = host
  BY DEF Next, vars, Press, Release, TurnHat, Pull, Move
<1>3. TypeOK /\ TypeOK' /\ [Next]_vars =>
        [\A b \in (held' \ held) \cup (held \ held'), d \in DOMAIN Devices :
          /\ b \notin Alike(host)
          /\ NameOf(Hosts[host], b) \in {NameOf(Devices[d], c) : c \in Bits(Devices[d])}
          => Write(d, Report').bits # Write(d, Report).bits]_vars
  BY <1>1, <1>2
<1> QED
  BY <1>3, TypeCorrect, PTL DEF Spec, EveryButtonCounts

-----------------------------------------------------------------------------
(* Two converters in a row.                                                *)

\* Where a bit that d sends arrives in the packet of the pad it is seen as.
Moved(d, b) ==
  LET k == 8 * b[1] + b[2]
  IN  CASE d = "XINPUT" -> b
        [] d = "DINPUT" -> IF k < 4 THEN <<5, 4 + k>> ELSE <<6, k - 4>>
        [] d = "PSX" -> <<b[1] + 3, b[2]>>
        [] d = "BLUETOOTH" -> <<b[1] + 1, b[2]>>

\* parse_report reads twelve buttons.
Relays(d, b) == d = "DINPUT" => 8 * b[1] + b[2] < 12

\* What d has no bit for, and what it sends in vain.
Absent(d) == CASE d = "XINPUT" -> Triggers
               [] d = "PSX" -> {"GUIDE"}
               [] OTHER -> Directions

Missed(d) == CASE d = "DINPUT" -> {"GUIDE"}
               [] d = "BLUETOOTH" -> {"GUIDE", "L2", "R2"}
               [] OTHER -> {}

\* The PlayStation host reads L3 and R3 in each other's place.
As(d, n) == IF d = "PSX" /\ n = "L3" THEN "R3" ELSE IF d = "PSX" /\ n = "R3" THEN "L3" ELSE n

\* Each bit that d sends arrives where the pad it is seen as has that input.
LEMMA BitsArrive ==
  ASSUME NEW d \in {"XINPUT", "DINPUT", "PSX", "BLUETOOTH"}, NEW b \in Bits(Devices[d])
  PROVE  /\ b[1] \in Nat /\ b[2] \in 0..7
         /\ NameOf(Devices[d], b) \in (Buttons \cup Triggers) \ Absent(d)
         /\ IF NameOf(Devices[d], b) \in Missed(d)
            THEN ~Relays(d, b) \/ Moved(d, b) \notin Bits(Hosts[Seen[d]])
            ELSE /\ Relays(d, b)
                 /\ Moved(d, b) \in Bits(Hosts[Seen[d]])
                 /\ NameOf(Hosts[Seen[d]], Moved(d, b)) = As(d, NameOf(Devices[d], b))
<1> USE DEF Absent, Missed, As, Moved, Relays, Bits, NameOf, Buttons, Directions, Triggers
<1>1. CASE d = "XINPUT"
  <2>1. Devices[d] = WIRED /\ Hosts[Seen[d]] = WIRED
    BY <1>1 DEF Devices, Hosts, Seen
  <2> QED
    BY <1>1, <2>1 DEF WIRED
<1>2. CASE d = "DINPUT"
  <2>1. Devices[d] = DINPUT /\ Hosts[Seen[d]] = LOGITECH
    BY <1>2 DEF Devices, Hosts, Seen
  <2>2. /\ b[1] \in Nat /\ b[2] \in 0..7
        /\ NameOf(DINPUT, b) \in (Buttons \cup Triggers) \ Directions
    BY <2>1 DEF DINPUT
  <2>3. NameOf(DINPUT, b) = "GUIDE" <=> ~(8 * b[1] + b[2] < 12)
    BY <2>1 DEF DINPUT
  <2>4. ASSUME 8 * b[1] + b[2] < 12
        PROVE  /\ Moved(d, b) \in Bits(LOGITECH)
               /\ NameOf(LOGITECH, Moved(d, b)) = NameOf(DINPUT, b)
    BY <1>2, <2>1, <2>4 DEF DINPUT, LOGITECH
  <2> QED
    BY <1>2, <2>1, <2>2, <2>3, <2>4
<1>3. CASE d = "PSX"
  <2>1. Devices[d] = PSX_DEVICE /\ Hosts[Seen[d]] = PSX
    BY <1>3 DEF Devices, Hosts, Seen
  <2> QED
    BY <1>3, <2>1 DEF PSX_DEVICE, PSX
<1>4. CASE d = "BLUETOOTH"
  <2>1. Devices[d] = BLUETOOTH /\ Hosts[Seen[d]] = EIGHT_BITDO
    BY <1>4 DEF Devices, Hosts, Seen
  <2> QED
    BY <1>4, <2>1 DEF BLUETOOTH, EIGHT_BITDO
<1> QED
  BY <1>1, <1>2, <1>3, <1>4

\* A name in a row of a table is on a bit.
LEMMA OnRow ==
  ASSUME NEW T, NEW x \in DOMAIN T, NEW n, n # "no",
         n \in {T[x][1], T[x][2], T[x][3], T[x][4], T[x][5], T[x][6], T[x][7], T[x][8]}
  PROVE  \E b \in Bits(T) : NameOf(T, b) = n
<1>1. PICK m \in 1..8 : T[x][m] = n
  <2>1. {1, 2, 3, 4, 5, 6, 7, 8} \subseteq 1..8
    BY SMT
  <2> QED
    BY <2>1, Zenon
<1>2. m - 1 \in 0..7 /\ (m - 1) + 1 = m
  OBVIOUS
<1>3. <<x, m - 1>> \in Bits(T) /\ NameOf(T, <<x, m - 1>>) = n
  BY <1>1, <1>2 DEF Bits, NameOf
<1> QED
  BY <1>3

\* Every input that d has is on a bit.
LEMMA BitsSuffice ==
  ASSUME NEW d \in {"XINPUT", "DINPUT", "PSX", "BLUETOOTH"},
         NEW n \in (Buttons \cup Triggers) \ Absent(d)
  PROVE  \E b \in Bits(Devices[d]) : NameOf(Devices[d], b) = n
<1> DEFINE row(T, x) ==
             {T[x][1], T[x][2], T[x][3], T[x][4], T[x][5], T[x][6], T[x][7], T[x][8]}
<1>1. n # "no"
  BY DEF Buttons, Directions, Triggers
<1>2. CASE d = "XINPUT"
  <2>1. 2 \in DOMAIN WIRED /\ 3 \in DOMAIN WIRED /\ n \in row(WIRED, 2) \cup row(WIRED, 3)
    BY <1>2 DEF WIRED, Absent, Buttons, Directions, Triggers
  <2> QED
    BY <1>1, <1>2, <2>1, OnRow DEF Devices
<1>3. CASE d = "DINPUT"
  <2>1. 0 \in DOMAIN DINPUT /\ 1 \in DOMAIN DINPUT /\ n \in row(DINPUT, 0) \cup row(DINPUT, 1)
    BY <1>3 DEF DINPUT, Absent, Buttons, Directions, Triggers
  <2> QED
    BY <1>1, <1>3, <2>1, OnRow DEF Devices
<1>4. CASE d = "PSX"
  <2>1. 0 \in DOMAIN PSX_DEVICE /\ 1 \in DOMAIN PSX_DEVICE
        /\ n \in row(PSX_DEVICE, 0) \cup row(PSX_DEVICE, 1)
    BY <1>4 DEF PSX_DEVICE, Absent, Buttons, Directions, Triggers
  <2> QED
    BY <1>1, <1>4, <2>1, OnRow DEF Devices
<1>5. CASE d = "BLUETOOTH"
  <2>1. 0 \in DOMAIN BLUETOOTH /\ 1 \in DOMAIN BLUETOOTH
        /\ n \in row(BLUETOOTH, 0) \cup row(BLUETOOTH, 1)
    BY <1>5 DEF BLUETOOTH, Absent, Buttons, Directions, Triggers
  <2> QED
    BY <1>1, <1>5, <2>1, OnRow DEF Devices
<1> QED
  BY <1>2, <1>3, <1>4, <1>5

\* What arrives is what was sent, bit by bit.
LEMMA RelaidFacts ==
  ASSUME NEW d \in {"XINPUT", "DINPUT", "PSX", "BLUETOOTH"}, NEW r
  PROVE  LET w == Write(d, r)
             v == Relaid(d, w)
         IN  /\ v.bits = {Moved(d, b) : b \in {x \in w.bits : Relays(d, x)}}
             /\ v.hat = w.hat /\ v.trigger = r.trigger /\ v.stick = w.stick
<1> DEFINE w == Write(d, r)
<1>1. PICK bits, hats, sticks :
        /\ w = [bits |-> bits, hat |-> hats, trigger |-> r.trigger, stick |-> sticks]
        /\ bits \subseteq Bits(Devices[d])
  BY Written, Zenon DEF Write
<1> HIDE DEF w
<1>2. w.bits = bits
  BY <1>1
<1>3. CASE d = "XINPUT"
  <2>1. Relaid(d, w) = w
    BY <1>3 DEF Relaid
  <2> QED
    BY <1>1, <1>3, <2>1 DEF Moved, Relays, w
<1>4. CASE d = "PSX"
  <2>1. Relaid(d, w) = [w EXCEPT !.bits = {<<b[1] + 3, b[2]>> : b \in w.bits}]
    BY <1>4 DEF Relaid
  <2> QED
    BY <1>1, <1>4, <2>1 DEF Moved, Relays, w
<1>5. CASE d = "BLUETOOTH"
  <2>1. Relaid(d, w) = [w EXCEPT !.bits = {<<b[1] + 1, b[2]>> : b \in w.bits}]
    BY <1>5 DEF Relaid
  <2> QED
    BY <1>1, <1>5, <2>1 DEF Moved, Relays, w
<1>6. CASE d = "DINPUT"
  <2> DEFINE numbers == {8 * b[1] + b[2] : b \in w.bits}
             read == {<<5, 4 + k>> : k \in numbers \cap (0..3)}
                       \cup {<<6, k - 4>> : k \in numbers \cap (4..11)}
  <2>1. Relaid(d, w) = [w EXCEPT !.bits = read]
    BY <1>6 DEF Relaid, parse_report
  <2>2. \A b \in w.bits : 8 * b[1] + b[2] \in Nat
    BY <1>1, <1>2, BitsArrive
  <2>3. read = {Moved(d, b) : b \in {x \in w.bits : Relays(d, x)}}
    BY <1>6, <2>2 DEF Moved, Relays
  <2> HIDE DEF read
  <2> QED
    BY <1>1, <2>1, <2>3 DEF w
<1> QED
  BY <1>3, <1>4, <1>5, <1>6

\* The names that are read are those that were written.
LEMMA NamesArrive ==
  ASSUME NEW d \in {"XINPUT", "DINPUT", "PSX", "BLUETOOTH"}, NEW r
  PROVE  Names(Seen[d], Relaid(d, Write(d, r)).bits)
           = {As(d, n) : n \in {m \in (Buttons \cup Triggers) \ (Absent(d) \cup Missed(d)) :
                                  Down(r, m)}}
<1> DEFINE there == Hosts[Seen[d]]
           sent == {b \in Bits(Devices[d]) : Down(r, NameOf(Devices[d], b))}
           kept == {m \in (Buttons \cup Triggers) \ (Absent(d) \cup Missed(d)) : Down(r, m)}
           arrived == {Moved(d, b) : b \in {x \in sent : Relays(d, x)}}
<1>1. Relaid(d, Write(d, r)).bits = arrived
  BY RelaidFacts, Written
<1>2. ASSUME NEW b \in sent, Relays(d, b), Moved(d, b) \in Bits(there)
      PROVE  /\ NameOf(Devices[d], b) \in kept
             /\ NameOf(there, Moved(d, b)) = As(d, NameOf(Devices[d], b))
  BY <1>2, BitsArrive
<1>3. ASSUME NEW n \in kept
      PROVE  \E b \in sent : /\ Relays(d, b) /\ Moved(d, b) \in Bits(there)
                             /\ NameOf(there, Moved(d, b)) = As(d, n)
  <2>1. PICK b \in Bits(Devices[d]) : NameOf(Devices[d], b) = n
    BY BitsSuffice
  <2>2. b \in sent
    BY <2>1
  <2>3. Relays(d, b) /\ Moved(d, b) \in Bits(there) /\ NameOf(there, Moved(d, b)) = As(d, n)
    BY <2>1, BitsArrive
  <2> QED
    BY <2>2, <2>3
<1> HIDE DEF there, sent, kept
<1>4. {NameOf(there, c) : c \in arrived \cap Bits(there)} = {As(d, n) : n \in kept}
  BY <1>2, <1>3
<1> QED
  BY <1>1, <1>4 DEF Names, there, kept

\* The two tables of the hat undo each other, for directions a hat can show.
LEMMA HatArrives ==
  ASSUME NEW dirs, dirs \subseteq Directions,
         ~({"LEFT", "RIGHT"} \subseteq dirs), ~({"UP", "DOWN"} \subseteq dirs)
  PROVE  /\ SWITCH_DEVICE_HAT(dirs) \in 0..8
         /\ LOGITECH_DPAD(SWITCH_DEVICE_HAT(dirs)) = dirs
<1> DEFINE way == SWITCH_DEVICE_HAT(dirs)
           up == IF "UP" \in dirs THEN 1 ELSE 0
           down == IF "DOWN" \in dirs THEN 2 ELSE 0
           left == IF "LEFT" \in dirs THEN 4 ELSE 0
           right == IF "RIGHT" \in dirs THEN 8 ELSE 0
<1>1. way = <<8, 0, 4, 8, 6, 7, 5, 8, 2, 1, 3>>[up + down + left + right + 1]
  BY DEF SWITCH_DEVICE_HAT
<1> HIDE DEF way
<1>2. CASE "LEFT" \in dirs
  <2>1. CASE "UP" \in dirs
    <3>1. dirs = {"LEFT", "UP"}
      BY <1>2, <2>1 DEF Directions
    <3>2. way = 7
      BY <1>1, <1>2, <2>1
    <3> QED
      BY <3>1, <3>2 DEF LOGITECH_DPAD, way
  <2>2. CASE "DOWN" \in dirs
    <3>1. dirs = {"DOWN", "LEFT"}
      BY <1>2, <2>2 DEF Directions
    <3>2. way = 5
      BY <1>1, <1>2, <2>2
    <3> QED
      BY <3>1, <3>2 DEF LOGITECH_DPAD, way
  <2>3. CASE "UP" \notin dirs /\ "DOWN" \notin dirs
    <3>1. dirs = {"LEFT"}
      BY <1>2, <2>3 DEF Directions
    <3>2. way = 6
      BY <1>1, <1>2, <2>3
    <3> QED
      BY <3>1, <3>2 DEF LOGITECH_DPAD, way
  <2> QED
    BY <2>1, <2>2, <2>3
<1>3. CASE "RIGHT" \in dirs
  <2>1. CASE "UP" \in dirs
    <3>1. dirs = {"UP", "RIGHT"}
      BY <1>3, <2>1 DEF Directions
    <3>2. way = 1
      BY <1>1, <1>3, <2>1
    <3> QED
      BY <3>1, <3>2 DEF LOGITECH_DPAD, way
  <2>2. CASE "DOWN" \in dirs
    <3>1. dirs = {"RIGHT", "DOWN"}
      BY <1>3, <2>2 DEF Directions
    <3>2. way = 3
      BY <1>1, <1>3, <2>2
    <3> QED
      BY <3>1, <3>2 DEF LOGITECH_DPAD, way
  <2>3. CASE "UP" \notin dirs /\ "DOWN" \notin dirs
    <3>1. dirs = {"RIGHT"}
      BY <1>3, <2>3 DEF Directions
    <3>2. way = 2
      BY <1>1, <1>3, <2>3
    <3> QED
      BY <3>1, <3>2 DEF LOGITECH_DPAD, way
  <2> QED
    BY <2>1, <2>2, <2>3
<1>4. CASE "LEFT" \notin dirs /\ "RIGHT" \notin dirs
  <2>1. CASE "UP" \in dirs
    <3>1. dirs = {"UP"}
      BY <1>4, <2>1 DEF Directions
    <3>2. way = 0
      BY <1>1, <1>4, <2>1
    <3> QED
      BY <3>1, <3>2 DEF LOGITECH_DPAD, way
  <2>2. CASE "DOWN" \in dirs
    <3>1. dirs = {"DOWN"}
      BY <1>4, <2>2 DEF Directions
    <3>2. way = 4
      BY <1>1, <1>4, <2>2
    <3> QED
      BY <3>1, <3>2 DEF LOGITECH_DPAD, way
  <2>3. CASE "UP" \notin dirs /\ "DOWN" \notin dirs
    <3>1. dirs = {}
      BY <1>4, <2>3 DEF Directions
    <3>2. way = 8
      BY <1>1, <1>4, <2>3
    <3> QED
      BY <3>1, <3>2 DEF LOGITECH_DPAD, way
  <2> QED
    BY <2>1, <2>2, <2>3
<1> QED
  BY <1>2, <1>3, <1>4

\* An axis of 16 bits keeps its upper half in a packet of 8 bits.
LEMMA AxisArrives ==
  ASSUME NEW v \in Axis
  PROVE  /\ XINPUT_TO_HID_X(v) \in 0..255 /\ XINPUT_TO_HID_Y(v) \in 0..255
         /\ HID_TO_XINPUT_X(XINPUT_TO_HID_X(v)) \div 256 = v \div 256
         /\ HID_TO_XINPUT_Y(XINPUT_TO_HID_Y(v)) \div 256 = v \div 256
<1> DEFINE q == v \div 256
<1>1. q \in -128..127
  BY AxisBounds
<1> HIDE DEF q
<1>2. (q - 128) % 256 = q + 128 /\ (-(q - 127)) % 256 = 127 - q
  BY <1>1
<1>3. XINPUT_TO_HID_X(v) = q + 128 /\ XINPUT_TO_HID_Y(v) = 127 - q
  BY <1>2 DEF XINPUT_TO_HID_X, XINPUT_TO_HID_Y, q
<1>4. HID_TO_XINPUT_X(q + 128) = q * 256 /\ HID_TO_XINPUT_Y(127 - q) = q * 256
  BY <1>1 DEF HID_TO_XINPUT_X, HID_TO_XINPUT_Y, int16
<1>5. (q * 256) \div 256 = q
  BY <1>1
<1> QED
  BY <1>1, <1>3, <1>4, <1>5 DEF q

\* A report is read back from what an emulated pad sends.
LEMMA ReadBack ==
  ASSUME NEW d \in {"XINPUT", "DINPUT", "PSX", "BLUETOOTH"}, NEW r \in Reports, ~Opposed(r)
  PROVE  LET again == Read(Seen[d], Relaid(d, Write(d, r)))
         IN  /\ again.buttons = Lost(d, r.buttons)
             /\ \A t \in Triggers : (again.trigger[t] > 127) = (r.trigger[t] > 127)
             /\ \A a \in {1, 2} :
                  again.stick[a] \div 256 = IF d = "PSX" THEN 0 ELSE r.stick[a] \div 256
<1> DEFINE h == Seen[d]
           w == Write(d, r)
           p == Relaid(d, w)
           again == Read(h, p)
           dirs == r.buttons \cap Directions
           names == {As(d, n) : n \in {m \in (Buttons \cup Triggers) \ (Absent(d) \cup Missed(d)) :
                                         Down(r, m)}}
<1>1. h \in Pads
  BY DEF Seen, Pads
<1>2. /\ p.hat = w.hat /\ p.trigger = r.trigger /\ p.stick = w.stick
      /\ Names(h, p.bits) = names
  BY RelaidFacts, NamesArrive
<1>3. r.buttons \subseteq Buttons /\ r.trigger \in [Triggers -> 0..255]
      /\ r.stick[1] \in Axis /\ r.stick[2] \in Axis /\ r.stick \in Axis \X Axis
  BY DEF Reports
<1>4. SWITCH_DEVICE_HAT(dirs) \in 0..8 /\ LOGITECH_DPAD(SWITCH_DEVICE_HAT(dirs)) = dirs
  BY HatArrives DEF Opposed
<1>5. w.hat = IF d \in {"SWITCH", "DINPUT", "BLUETOOTH"} THEN SWITCH_DEVICE_HAT(dirs) ELSE 8
  BY DEF Write
<1>6. w.stick = IF d = "XINPUT" THEN r.stick
                ELSE <<XINPUT_TO_HID_X(r.stick[1]), XINPUT_TO_HID_Y(r.stick[2])>>
  BY DEF Write
<1>7. (h \in XboxHosts <=> d = "XINPUT") /\ (h = "PSX_DIGITAL" <=> d = "PSX")
  BY DEF Seen, XboxHosts
<1>8. h \in HatHosts <=> d \in {"DINPUT", "BLUETOOTH"}
  BY DEF Seen, HatHosts
<1>9. h \in Analog <=> d \in {"XINPUT", "BLUETOOTH"}
  BY DEF Seen, Analog, XboxHosts
<1> HIDE DEF h, w, p, names, dirs
<1>10. PacketOf(h, p)
  <2>1. p.hat \in 0..8
    BY <1>2, <1>4, <1>5
  <2>2. CASE d = "XINPUT"
    BY <1>2, <1>3, <1>6, <1>7, <2>1, <2>2 DEF PacketOf
  <2>3. CASE d # "XINPUT"
    <3>1. p.stick \in (0..255) \X (0..255)
      BY <1>2, <1>3, <1>6, <2>3, AxisArrives
    <3> QED
      BY <1>2, <1>3, <1>7, <2>1, <2>3, <3>1 DEF PacketOf
  <2> QED
    BY <2>2, <2>3
<1>11. /\ again.buttons = (names \ Triggers) \cup (IF h \in HatHosts THEN LOGITECH_DPAD(p.hat) ELSE {})
       /\ \A t \in Triggers :
            /\ h \in Analog => again.trigger[t] = p.trigger[t]
            /\ h \notin Analog => (again.trigger[t] > 127) = (t \in names)
       /\ again.stick = CASE h \in XboxHosts -> p.stick
                          [] h = "PSX_DIGITAL" -> <<0, 0>>
                          [] OTHER -> <<HID_TO_XINPUT_X(p.stick[1]), HID_TO_XINPUT_Y(p.stick[2])>>
  BY <1>1, <1>2, <1>10, ReadFacts
<1> HIDE DEF again
<1>12. again.buttons = Lost(d, r.buttons)
  <2> USE DEF names, dirs, As, Absent, Missed, Down, Lost, Buttons, Directions, Triggers
  <2>1. CASE d = "XINPUT"
    BY <1>3, <1>8, <1>11, <2>1
  <2>2. CASE d = "DINPUT"
    BY <1>2, <1>3, <1>4, <1>5, <1>8, <1>11, <2>2
  <2>3. CASE d = "PSX"
    BY <1>3, <1>8, <1>11, <2>3
  <2>4. CASE d = "BLUETOOTH"
    BY <1>2, <1>3, <1>4, <1>5, <1>8, <1>11, <2>4
  <2> QED
    BY <2>1, <2>2, <2>3, <2>4
<1>13. ASSUME NEW t \in Triggers
       PROVE  (again.trigger[t] > 127) = (r.trigger[t] > 127)
  <2>1. CASE d \in {"XINPUT", "BLUETOOTH"}
    BY <1>2, <1>9, <1>11, <2>1
  <2>2. CASE d \in {"DINPUT", "PSX"}
    <3>1. (t \in names) = (r.trigger[t] > 127)
      BY <2>2 DEF names, As, Absent, Missed, Down, Buttons, Directions, Triggers
    <3> QED
      BY <1>9, <1>11, <2>2, <3>1
  <2> QED
    BY <2>1, <2>2
<1>14. ASSUME NEW a \in {1, 2}
       PROVE  again.stick[a] \div 256 = IF d = "PSX" THEN 0 ELSE r.stick[a] \div 256
  <2>1. CASE d = "XINPUT"
    BY <1>2, <1>6, <1>7, <1>11, <2>1
  <2>2. CASE d = "PSX"
    <3>1. again.stick[a] = 0 /\ 0 \div 256 = 0
      BY <1>7, <1>11, <2>2
    <3> QED
      BY <2>2, <3>1
  <2>3. CASE d \in {"DINPUT", "BLUETOOTH"}
    BY <1>2, <1>3, <1>6, <1>7, <1>11, <2>3, AxisArrives
  <2> QED
    BY <2>1, <2>2, <2>3
<1> QED
  BY <1>12, <1>13, <1>14 DEF again, h, p, w

\* What the emulated pad sends (the second switch of new_report_fun), read by
\* another converter as the pad it shows itself as (the first switch, after
\* parse_report), is the report it was made from, but for the sticks of the
\* digital PlayStation pad.
THEOREM ChainedCorrect == Spec => []Chained
<1>1. DOMAIN Seen = {"XINPUT", "DINPUT", "PSX", "BLUETOOTH"}
  BY DEF Seen
<1>2. TypeOK => Chained
  BY <1>1, ReportFacts, ReadBack DEF Chained
<1> QED
  BY <1>2, TypeCorrect, PTL

=============================================================================
