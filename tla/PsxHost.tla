------------------------------ MODULE PsxHost ------------------------------
(***************************************************************************)
(* A PlayStation pad as input (psx.c, clock.pio).  A command word starts an *)
(* exchange of nine bytes, which the DMA stores; at the ninth its interrupt *)
(* runs dma_handler, which arms the DMA again, converts the words and only  *)
(* then sends the next command.  psx_init calls the handler itself to start *)
(* the chain.  A button is pressed when its bit is 0, and the line is       *)
(* pulled up when there is no pad.                                         *)
(***************************************************************************)
EXTENDS Integers, Sequences

CONSTANT Words  \* N_BYTES

VARIABLES
  handler,   \* next step of dma_handler, "idle" outside it
  data_psx,  \* each word by the exchange it comes from, with the hotkeys in it
  stored,    \* words the DMA has stored
  clocking,  \* does the PIO run an exchange?
  exchange,  \* of what exchange, 1 or 2; 0 is the array as it is at boot
  keys,      \* does the user hold both hotkeys?
  seen,      \* words dma_handler has given to the callback
  pressed_hotkeys, held, swaps  \* set_fast_switch_mode; history: keys were held, swaps made

psxVars ==
  <<handler, data_psx, stored, clocking, exchange, keys, seen, pressed_hotkeys, held, swaps>>

-----------------------------------------------------------------------------
\* psx_init, up to its own call of dma_handler
Init ==
  /\ handler = "arm" /\ clocking = FALSE /\ exchange = 0 /\ stored = Words
  /\ data_psx = [k \in 1..Words |-> [of |-> 0, pressed |-> TRUE]]
  /\ keys = FALSE /\ seen = <<>>
  /\ pressed_hotkeys = FALSE /\ held = FALSE /\ swaps = FALSE

\* The next word from the pad, or from the pulled-up line.
Store ==
  /\ clocking /\ stored < Words
  /\ data_psx' = [data_psx EXCEPT ![stored + 1] = [of |-> exchange, pressed |-> keys]]
  /\ stored' = stored + 1 /\ clocking' = (stored' < Words)
  /\ UNCHANGED <<handler, exchange, keys, seen, pressed_hotkeys, held, swaps>>

Interrupt ==
  /\ handler = "idle" /\ stored = Words
  /\ handler' = "arm"
  /\ UNCHANGED <<data_psx, stored, clocking, exchange, keys, seen, pressed_hotkeys, held, swaps>>

\* Faulty: the command goes out first.
ArmAndSend ==
  /\ handler = "arm"
  /\ stored' = 0 /\ seen' = <<>> /\ handler' = "convert"
  /\ clocking' = TRUE /\ exchange' = (exchange % 2) + 1
  /\ UNCHANGED <<data_psx, keys, pressed_hotkeys, held, swaps>>

\* dma_channel_start
Arm ==
  /\ handler = "arm"
  /\ stored' = 0 /\ seen' = <<>> /\ handler' = "convert"
  /\ UNCHANGED <<data_psx, clocking, exchange, keys, pressed_hotkeys, held, swaps>>

\* The callback reads the words one after the other.
Convert ==
  /\ handler = "convert" /\ Len(seen) < Words
  /\ seen' = Append(seen, data_psx[Len(seen) + 1])
  /\ UNCHANGED <<handler, data_psx, stored, clocking, exchange, keys, pressed_hotkeys, held, swaps>>

\* set_fast_switch_mode: the modes are swapped when the keys are let go.
set_fast_switch_mode ==
  /\ handler = "convert" /\ Len(seen) = Words
  /\ pressed_hotkeys' = seen[1].pressed
  /\ swaps' = (swaps \/ (pressed_hotkeys /\ ~seen[1].pressed))
  /\ handler' = "send"
  /\ UNCHANGED <<data_psx, stored, clocking, exchange, keys, seen, held>>

SendCommand ==
  /\ handler = "send" /\ handler' = "idle"
  /\ clocking' = TRUE /\ exchange' = (exchange % 2) + 1
  /\ UNCHANGED <<data_psx, stored, keys, seen, pressed_hotkeys, held, swaps>>

User ==
  /\ keys' = ~keys /\ held' = (held \/ keys')
  /\ UNCHANGED <<handler, data_psx, stored, clocking, exchange, seen, pressed_hotkeys, swaps>>

Next == Store \/ Interrupt \/ Arm \/ Convert \/ set_fast_switch_mode \/ SendCommand \/ User

Spec == Init /\ [][Next]_psxVars

-----------------------------------------------------------------------------
\* What is converted is one exchange: the DMA that is already armed again does
\* not write under the callback that reads the same array.
OneExchange == \A i, j \in DOMAIN seen : seen[i].of = seen[j].of

\* "Change between two modes using only the gamepad": the modes are swapped
\* only after the user has held the hotkeys.  The handler called by psx_init
\* converts an array of zeros, all buttons pressed, and the first exchange
\* lets them go.
SwapsAreAsked == swaps => held
=============================================================================
