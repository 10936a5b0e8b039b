---------------------------- MODULE Ps2Keyboard ----------------------------
(***************************************************************************)
(* A PS/2 keyboard and the interrupt handler that reads it, kbd_irq        *)
(* (ps2kbd.c).  A key sends its code when it goes down and again while it  *)
(* is held, and 0xF0 and its code when it goes up; some send 0xE0 before   *)
(* the code.  The keys are one of each kind the two tables tell apart.     *)
(***************************************************************************)
EXTENDS Integers, Sequences

CONSTANTS
  MaxWire,      \* bound: codes on the line
  BeyondLower,  \* what is read beyond the end of lower
  BeyondUpper   \* what is read beyond the end of upper

VARIABLES
  keyboard_t,  \* bits set in the report
  release,     \* flag: the next code is of a key that went up
  shift,       \* flag: Shift is down
  down,        \* keys held
  repeating,   \* the key whose code is sent again, "none" if none
  wire,        \* codes not yet read
  crossed      \* history: bits that were set when Shift changed

vars == <<keyboard_t, release, shift, down, repeating, wire, crossed>>

Keys == {"W", "Left", "Q", "Esc", "F7", "Shift"}

\* Left is an extended key and shares its code with one on the keypad.
Prefix(k) == IF k = "Left" THEN <<"E0">> ELSE <<>>

\* The bit of a code: 31 in lower means a key without one.  The characters of
\* upper are taken as bit numbers too: a letter is beyond the 32 bits and sets
\* nothing, 0, no character, is the bit of W, and a control character the bit of
\* another key or of none.  The tables end before the code of F7.
lower == [W |-> 0, Left |-> 16, Q |-> 31, Esc |-> 31, F7 |-> BeyondLower]
upper == [W |-> 87, Left |-> 0, Q |-> 81, Esc |-> 27, F7 |-> BeyondUpper]

\* Faulty: the table is the one of lower-case once a key goes up.
BitsPressed(k, up) ==
  LET ascii == IF shift /\ ~up THEN upper[k] ELSE lower[k] IN {ascii} \cap (0..31)

Bits(k, up) == LET ascii == IF shift THEN upper[k] ELSE lower[k] IN {ascii} \cap (0..31)

-----------------------------------------------------------------------------
Init ==
  /\ keyboard_t = {} /\ release = FALSE /\ shift = FALSE
  /\ down = {} /\ repeating = "none" /\ wire = <<>> /\ crossed = {}

Sends(codes) == Len(wire \o codes) <= MaxWire /\ wire' = wire \o codes

Press(k) ==
  /\ k \notin down
  /\ Sends(Append(Prefix(k), k))
  /\ down' = down \cup {k} /\ repeating' = k
  /\ UNCHANGED <<keyboard_t, release, shift, crossed>>

Repeat ==
  /\ repeating # "none"
  /\ Sends(Append(Prefix(repeating), repeating))
  /\ UNCHANGED <<keyboard_t, release, shift, down, repeating, crossed>>

Lift(k) ==
  /\ k \in down
  /\ Sends(Prefix(k) \o <<"F0", k>>)
  /\ down' = down \ {k} /\ repeating' = IF repeating = k THEN "none" ELSE repeating
  /\ UNCHANGED <<keyboard_t, release, shift, crossed>>

\* cases 0x12 and 0x59
ShiftCode ==
  /\ shift' = ~release
  /\ release' = FALSE
  /\ crossed' = IF shift' # shift THEN keyboard_t ELSE crossed
  /\ UNCHANGED keyboard_t

\* The default case.  The code of a key that is not mapped leaves the flag
\* set: the next key that goes down is taken to go up.
KeyCode(k) ==
  /\ IF 31 \in Bits(k, release) THEN UNCHANGED <<keyboard_t, release, crossed>>
     ELSE /\ keyboard_t' = IF release THEN keyboard_t \ Bits(k, release)
                           ELSE keyboard_t \cup Bits(k, release)
          /\ crossed' = crossed \ Bits(k, release)
          /\ release' = FALSE
  /\ UNCHANGED shift

\* kbd_irq
kbd_irq ==
  /\ wire # <<>>
  /\ wire' = Tail(wire)
  /\ CASE Head(wire) = "F0" -> release' = TRUE /\ UNCHANGED <<keyboard_t, shift, crossed>>
       [] Head(wire) = "E0" -> UNCHANGED <<keyboard_t, release, shift, crossed>>
       [] Head(wire) = "Shift" -> ShiftCode
       [] OTHER -> KeyCode(Head(wire))
  /\ UNCHANGED <<down, repeating>>

Next == kbd_irq \/ Repeat \/ \E k \in Keys : Press(k) \/ Lift(k)

-----------------------------------------------------------------------------
\* No key is stuck: once the line is quiet every bit of the report is the bit
\* of a key that is held, but for those that were set when Shift changed and
\* that no key has set or cleared since.
NothingStuck ==
  wire = <<>> =>
    \A b \in keyboard_t \ crossed : \E k \in down \ {"Shift"} : b \in Bits(k, FALSE)
=============================================================================
