----------------------------- MODULE JoybusHost -----------------------------
(***************************************************************************)
(* A Nintendo 64 pad and the core that polls it for ever: n64_controller.c, *)
(* joybus_controller.c and the PIO program of controller.pio.  A request    *)
(* is a word in the transmit FIFO; the program sends its command and then   *)
(* waits for as many bytes as the word asks for, however long that takes.   *)
(* The core gives each byte 600 us and then reads the FIFO all the same.    *)
(* A pad needs far less, so that the core runs out of patience only with a  *)
(* line that has gone quiet.                                               *)
(***************************************************************************)
EXTENDS Integers, Sequences

CONSTANT TxDepth  \* words that fit in the FIFO and the output register

VARIABLES
  core,      \* what the core is about to do
  command,   \* of the request it is at: 0 identifies the pad, 1 reads it
  count,     \* bytes it has taken of the answer
  response,  \* controllerState
  tx, rx,    \* the FIFOs: commands to send, bytes received
  pio,       \* bytes the program still waits for, 0 when it waits for a word
  sending,   \* bytes the pad has yet to send
  plugged    \* is there a pad?

vars == <<core, command, count, response, tx, rx, pio, sending, plugged>>

Answer == [c \in {0, 1} |-> IF c = 0 THEN <<"id1", "id2", "id3">>
                                     ELSE <<"buttons1", "buttons2", "x", "y">>]

\* The length n64_controller.c asks for: the identity has two bytes more.
Expected == [c \in {0, 1} |-> IF c = 0 THEN 1 ELSE 4]

Quiet == rx = <<>> /\ sending = <<>> /\ ~(pio = 0 /\ tx # <<>>)

-----------------------------------------------------------------------------
\* n64_controller_init
Init ==
  /\ core = "send" /\ command = 0 /\ count = 0
  /\ response = <<"none", "none", "none", "none">>
  /\ tx = <<>> /\ rx = <<>> /\ pio = 0
  /\ plugged \in BOOLEAN /\ sending = <<>>

\* The first half of joybus_send_data blocks while the FIFO is full.
Put ==
  /\ core = "send" /\ Len(tx) < TxDepth
  /\ tx' = Append(tx, command)
  /\ core' = "receive" /\ count' = 0
  /\ UNCHANGED <<command, response, rx, pio, sending, plugged>>

\* A pad hears a command only when it is silent itself.
SendData ==
  /\ pio = 0 /\ tx # <<>>
  /\ pio' = Expected[Head(tx)] /\ tx' = Tail(tx)
  /\ sending' = IF plugged /\ sending = <<>> THEN Answer[Head(tx)] ELSE sending
  /\ UNCHANGED <<core, command, count, response, rx, plugged>>

\* A byte on the line is read if the program waits for one.
ReceiveByte ==
  /\ sending # <<>>
  /\ sending' = Tail(sending)
  /\ IF pio = 0 THEN UNCHANGED <<pio, rx>>
     ELSE pio' = pio - 1 /\ rx' = Append(rx, Head(sending))
  /\ UNCHANGED <<core, command, count, response, tx, plugged>>

Store(byte) ==
  /\ response' = [response EXCEPT ![count + 1] = byte]
  /\ count' = count + 1
  /\ core' = IF count' < Expected[command] THEN "receive"
             ELSE IF command = 0 THEN "settle" ELSE "report"

Take ==
  /\ core = "receive" /\ rx # <<>>
  /\ Store(Head(rx)) /\ rx' = Tail(rx)
  /\ UNCHANGED <<command, tx, pio, sending, plugged>>

\* The FIFO is read although it is empty.
TimedOut ==
  /\ core = "receive" /\ Quiet
  /\ Store("stale")
  /\ UNCHANGED <<command, tx, rx, pio, sending, plugged>>

\* Faulty: the pad is read at once.
SettleAtOnce == core = "settle"

\* sleep_us(200): the rest of the identity goes by.
Settled == core = "settle" /\ sending = <<>>

StartReading ==
  /\ Settled
  /\ command' = 1 /\ core' = "send"
  /\ UNCHANGED <<count, response, tx, rx, pio, sending, plugged>>

\* sendReportData and the next n64_controller_update_state
Report ==
  /\ core = "report" /\ sending = <<>>
  /\ core' = "send"
  /\ UNCHANGED <<command, count, response, tx, rx, pio, sending, plugged>>

Plug == plugged' = ~plugged /\ sending' = <<>> /\ UNCHANGED <<core, command, count, response, tx, rx, pio>>

Run == Put \/ SendData \/ ReceiveByte \/ Take \/ TimedOut \/ StartReading \/ Report

Next == Run \/ Plug

-----------------------------------------------------------------------------
\* A pad that is there from power-up on is read for ever, and never again are
\* all its bytes late or in each other's place: the program and the core stay
\* in step although they count the bytes apart.  (A pad that is unplugged
\* leaves the program waiting and the core, once the FIFO is full, blocked.)
PadIsRead == []plugged => <>[](core = "report" => response = Answer[1]) /\ []<>(core = "report")
=============================================================================
