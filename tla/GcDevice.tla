------------------------------ MODULE GcDevice ------------------------------
(***************************************************************************)
(* The emulated GameCube pad (gamecube_device.c, joybus.pio): core 1 takes  *)
(* the bytes of a command from the FIFO and answers by restarting the PIO   *)
(* program at its output part, which falls back to the input part when its  *)
(* words are sent.  The console sends a command byte by byte, waits for the *)
(* answer and pauses for longer than the pad is busy; it may break off a    *)
(* command, within a byte too.  Core 1 takes a byte before the next one has *)
(* passed.                                                                 *)
(***************************************************************************)
EXTENDS Integers, Sequences

CONSTANT MaxCuts  \* bound: commands broken off

VARIABLES
  core1,     \* byte it waits for: "first", "second", "third"; or "deaf"
  part,      \* of the program: "in", "off", or the answer it sends
  fifo,      \* bytes received and not yet taken
  stray,     \* are there bits of a broken byte in the shift register?
  line,      \* bytes of the command the console has yet to send
  awaiting,  \* the answer it will wait for, or waits for
  missed,    \* polls without an answer
  cuts       \* commands broken off

gcVars == <<core1, part, fifo, stray, line, awaiting, missed, cuts>>

\* Probe, origin, poll, and a command the pad does not know.
Commands == {<<0>>, <<65>>, <<64, 3, 0>>, <<66, 3, 64>>}

AnswerTo(c) == CASE c = 0 -> "id" [] c = 65 -> "origin" [] c = 64 -> "state" [] OTHER -> "none"

\* Bytes of a shifted stream are any bytes.
Received(b) == IF stray THEN {0, 65, 64, 66} ELSE {b}

-----------------------------------------------------------------------------
\* Faulty: the FIFOs only.
RestartKeepingBits(m) == part' = m /\ fifo' = <<>> /\ UNCHANGED stray

\* pio_sm_init: both FIFOs and the shift registers are cleared.
Restart(m) == part' = m /\ fifo' = <<>> /\ stray' = FALSE

Init ==
  /\ core1 = "first" /\ part = "in" /\ fifo = <<>> /\ stray = FALSE
  /\ line = <<>> /\ awaiting = "none" /\ missed = 0 /\ cuts = 0

Command(c) ==
  /\ line = <<>> /\ awaiting = "none" /\ part = "in" /\ fifo = <<>>
  /\ line' = c /\ awaiting' = AnswerTo(c[1])
  /\ UNCHANGED <<core1, part, fifo, stray, missed, cuts>>

SendByte ==
  /\ line # <<>> /\ fifo = <<>>
  /\ line' = Tail(line)
  /\ IF part = "in" THEN \E b \in Received(Head(line)) : fifo' = <<b>>
     ELSE UNCHANGED fifo
  /\ UNCHANGED <<core1, part, stray, awaiting, missed, cuts>>

Cut ==
  /\ line # <<>> /\ fifo = <<>> /\ cuts < MaxCuts
  /\ cuts' = cuts + 1
  /\ line' = <<>> /\ awaiting' = "none"
  /\ stray' \in IF part = "in" THEN {stray, TRUE} ELSE {stray}
  /\ UNCHANGED <<core1, part, fifo, missed>>

-----------------------------------------------------------------------------
TakeFirst ==
  /\ core1 = "first" /\ fifo # <<>>
  /\ \/ /\ Head(fifo) \in {0, 65}
        /\ Restart(AnswerTo(Head(fifo))) /\ UNCHANGED core1
     \/ /\ Head(fifo) = 64
        /\ core1' = "second" /\ fifo' = Tail(fifo) /\ UNCHANGED <<part, stray>>
     \/ /\ Head(fifo) \notin {0, 64, 65}
        /\ core1' = "deaf" /\ part' = "off" /\ fifo' = Tail(fifo) /\ UNCHANGED stray
  /\ UNCHANGED <<line, awaiting, missed, cuts>>

TakeSecond ==
  /\ core1 = "second" /\ fifo # <<>>
  /\ core1' = "third" /\ fifo' = Tail(fifo)
  /\ UNCHANGED <<part, stray, line, awaiting, missed, cuts>>

TakeThird ==
  /\ core1 = "third" /\ fifo # <<>>
  /\ core1' = "first" /\ Restart("state")
  /\ UNCHANGED <<line, awaiting, missed, cuts>>

\* sleep_us(400): the rest of an unknown command has passed.
Rested == core1 = "deaf" /\ line = <<>>

ListenAgain ==
  /\ Rested
  /\ core1' = "first" /\ Restart("in")
  /\ UNCHANGED <<line, awaiting, missed, cuts>>

\* The program has sent its words.  The console takes the answer if it has
\* finished the command and waits for this one.
OutputDone ==
  /\ part \notin {"in", "off"}
  /\ part' = "in"
  /\ awaiting' = IF line = <<>> /\ awaiting = part THEN "none" ELSE awaiting
  /\ UNCHANGED <<core1, fifo, stray, line, missed, cuts>>

\* Nobody answers: core 1 waits for bytes and the program for a bit.
GiveUp ==
  /\ line = <<>> /\ awaiting # "none" /\ fifo = <<>> /\ part = "in"
  /\ awaiting' = "none"
  /\ missed' = IF awaiting = "state" THEN missed + 1 ELSE missed
  /\ UNCHANGED <<core1, part, fifo, stray, line, cuts>>

Next ==
  \/ \E c \in Commands : Command(c)
  \/ SendByte \/ Cut \/ TakeFirst \/ TakeSecond \/ TakeThird \/ ListenAgain \/ OutputDone \/ GiveUp

-----------------------------------------------------------------------------
\* The pad finds its way back: each command that is broken off, wherever, costs
\* at most one poll, whatever commands come in between.
CutsCostOnePoll == missed <= cuts
=============================================================================
