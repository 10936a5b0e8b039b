----------------------------- MODULE PsxDevice -----------------------------
(***************************************************************************)
(* The emulated PlayStation pad (controller_simulator.c, psxSPI.pio).      *)
(*                                                                         *)
(* Core 1 serves the console one byte at a time: it blocks in RECV_CMD,    *)
(* acts on the byte, and offers its next byte with SEND.  The dat_writer   *)
(* state machine raises ACK when it has a byte to shift out, and the       *)
(* console clocks the next byte of a pad transaction only after that ACK.  *)
(* When the console releases SEL, an interrupt on core 0 stops the state   *)
(* machines and clears the bytes received, then drains the bytes offered,  *)
(* then resets and relaunches core 1 and starts the state machines again.  *)
(* Core 1 runs on until it is reset.  The statics of the module (mode,     *)
(* config, analogLock, motorBytes, pollConfig) survive that reset,         *)
(* whatever core 1 was doing.                                              *)
(*                                                                         *)
(* A RECV_CMD and the writes that follow it are one action, since nobody   *)
(* but core 1 reads the statics; the SEND that comes next is another,      *)
(* since core 0 may act in between.                                        *)
(*                                                                         *)
(* The button and stick bytes of a reply carry no control: a reply is the  *)
(* number of bytes it has.  Of a pollConfig byte only "non-zero" is ever   *)
(* tested, and a motorBytes byte is 0xFF or maps a motor: both are kept as *)
(* Booleans.                                                               *)
(***************************************************************************)
EXTENDS Integers, Sequences

CONSTANTS
  Consoles,  \* the consoles the pad may be plugged into
  RxDepth    \* entries of cmd_reader's joined FIFO (8 in the PIO)

\* What a console may send: the command bytes to the pad, the bytes after the
\* command, the bytes to a memory card on the same bus.  A hasty one may let
\* SEL fall again before core 0 is done with the exchange before.
ASSUME ConsolesAssumption ==
  \A c \in Consoles :
    /\ c.command \subseteq 0..255
    /\ c.arg \subseteq 0..255
    /\ c.card \subseteq 0..255
    /\ c.hasty \in BOOLEAN

ASSUME RxAssumption == RxDepth \in Nat \ {0}

MODE_DIGITAL         == 65   \* 0x41
MODE_ANALOG          == 115  \* 0x73
MODE_ANALOG_PRESSURE == 121  \* 0x79
MODE_CONFIG          == 243  \* 0xF3

CMD_PRES_CONFIG        == 64
CMD_POLL_CONFIG_STATUS == 65
CMD_POLL               == 66
CMD_CONFIG             == 67
CMD_ANALOG_SWITCH      == 68
CMD_STATUS             == 69
CMD_CONST_46           == 70
CMD_CONST_47           == 71
CMD_CONST_4C           == 76
CMD_ENABLE_RUMBLE      == 77
CMD_POLL_CONFIG        == 79

\* Handlers that answer only in config mode and change no static.
ConstantReply == {CMD_PRES_CONFIG, CMD_POLL_CONFIG_STATUS, CMD_STATUS,
                  CMD_CONST_46, CMD_CONST_47, CMD_CONST_4C}

\* Handlers that begin with "if (!config) return".
ConfigOnly ==
  ConstantReply \cup {CMD_ANALOG_SWITCH, CMD_ENABLE_RUMBLE, CMD_POLL_CONFIG}

Mode   == {MODE_DIGITAL, MODE_ANALOG, MODE_ANALOG_PRESSURE}
Target == {"pad", "card"}

PadAddress  == 1    \* 0x01
CardAddress == 129  \* 0x81

VARIABLES
  \* statics of controller_simulator.c
  mode, config, analogLock, motorBytes, pollConfig,
  \* core 1: where it blocks ("Addr": psx_device_main, "Cmd":
  \* process_joy_req, "Data": a handler), the handler's command, the index
  \* and number of the bytes of its reply, the ID byte it announced, and
  \* whether it has yet to SEND before it blocks there
  pc, cmd, i, len, id, owes,
  \* the two PIO FIFOs: bytes received, and number of bytes offered
  rx, tx,
  \* the console, and its end of the bus: SEL low, whom it addresses, bytes clocked since SEL fell
  \* (counted up to 2), and whether SEL fell before core 0 was done with
  \* the end of the exchange before
  console, sel, target, clocked, late,
  \* core 0: the pending SEL interrupt, and how far restart_pio_sm has come
  irq, core0,
  \* history: a poll-config command was cut short since pollConfig and mode
  \* were last made to agree; a 0x01 was among the bytes of this exchange
  \* with a memory card
  torn, woken

statics == <<mode, config, analogLock, motorBytes, pollConfig>>
core1   == <<pc, cmd, i, len, id, owes>>
bus     == <<sel, target, clocked, late, woken>>
vars    == <<statics, core1, rx, tx, bus, irq, core0, torn, console>>

Init ==
  /\ mode = MODE_DIGITAL
  /\ config = FALSE
  /\ analogLock = FALSE
  /\ motorBytes = [k \in 0..5 |-> FALSE]
  /\ pollConfig = [k \in 0..3 |-> FALSE]
  /\ pc = "Addr" /\ cmd = 0 /\ i = 0 /\ len = 0 /\ id = 0 /\ owes = FALSE
  /\ rx = <<>>
  /\ tx = 0
  /\ console \in Consoles
  /\ sel = FALSE /\ target = "pad" /\ clocked = 0 /\ late = FALSE
  /\ irq = FALSE /\ core0 = "idle"
  /\ torn = FALSE /\ woken = FALSE

-----------------------------------------------------------------------------
(* The console.                                                            *)

\* No SEL interrupt is pending or being served.
Served == ~irq /\ core0 = "idle"

Select(t) ==
  /\ ~sel
  /\ Served \/ console.hasty
  /\ sel' = TRUE
  /\ target' = t
  /\ clocked' = 0
  /\ late' = ~Served
  /\ woken' = FALSE
  /\ UNCHANGED <<statics, core1, rx, tx, irq, core0, torn, console>>

Bytes(c) == {PadAddress, CardAddress} \cup c.command \cup c.arg \cup c.card

Byte == UNION {Bytes(c) : c \in Consoles}

\* The byte cmd_reader makes of the next eight clocks: what the console
\* sends at its place in the exchange, or any byte when the state machines
\* were started in the middle of the exchange, with the bit count off.
NextByte(b) ==
  \/ clocked = 0 /\ target = "pad" /\ b = PadAddress
  \/ clocked = 0 /\ target = "card" /\ b = CardAddress
  \/ clocked = 1 /\ target = "pad" /\ b \in console.command
  \/ clocked = 2 /\ target = "pad" /\ b \in console.arg
  \/ clocked > 0 /\ target = "card" /\ b \in console.card
  \/ late /\ Served /\ b \in Bytes(console)

\* Eight clocks: cmd_reader pushes the byte, dat_writer shifts out the one
\* offered; nothing happens while core 0 has stopped both.  The address
\* needs no ACK; a memory card gives its own.
Clock(b) ==
  /\ sel
  /\ NextByte(b)
  /\ clocked > 0 /\ target = "pad" => tx > 0 /\ core0 = "idle"
  /\ IF core0 = "idle"
       THEN /\ Len(rx) < RxDepth
            /\ rx' = Append(rx, b)
            /\ tx' = IF tx > 0 THEN tx - 1 ELSE 0
       ELSE UNCHANGED <<rx, tx>>
  /\ clocked' = IF clocked < 2 THEN clocked + 1 ELSE 2
  /\ woken' = (woken \/ (target = "card" /\ b = PadAddress))
  /\ UNCHANGED <<statics, core1, sel, target, late, irq, core0, torn, console>>

\* SEL may rise at any byte: a finished exchange, a missing ACK, an abort.
Deselect ==
  /\ sel
  /\ sel' = FALSE
  /\ irq' = TRUE
  /\ UNCHANGED <<statics, core1, rx, tx, target, clocked, late, woken, core0, torn, console>>

-----------------------------------------------------------------------------
(* Core 0: sel_isr_callback and restart_pio_sm.  Core 1 may act between    *)
(* any two of these steps.                                                 *)

\* The interrupt acknowledged, the state machines stopped and restarted, the
\* FIFO of cmd_reader cleared.
StopStateMachines ==
  /\ irq
  /\ core0 = "idle"
  /\ irq' = FALSE
  /\ core0' = "stopped"
  /\ rx' = <<>>
  /\ UNCHANGED <<statics, core1, tx, bus, torn, console>>

\* Faulty: the bytes offered stay where they are.
DrainNothing ==
  /\ core0 = "stopped"
  /\ core0' = "drained"
  /\ UNCHANGED <<statics, core1, rx, tx, bus, irq, torn, console>>

\* pio_sm_drain_tx_fifo.
DrainTx ==
  /\ core0 = "stopped"
  /\ core0' = "drained"
  /\ tx' = 0
  /\ UNCHANGED <<statics, core1, rx, bus, irq, torn, console>>

\* Core 1 in the address loop of psx_device_main; the locals are dead there.
Return == pc' = "Addr" /\ cmd' = 0 /\ i' = 0 /\ len' = 0 /\ id' = 0

\* Faulty: the state machines are started again, core 1 is not.
RelaunchNothing ==
  /\ core0 = "drained"
  /\ core0' = "idle"
  /\ UNCHANGED <<statics, core1, torn, rx, tx, bus, irq, console>>

\* multicore_reset_core1 and multicore_launch_core1; the state machines run.
RelaunchCore1 ==
  /\ core0 = "drained"
  /\ core0' = "idle"
  /\ Return
  /\ owes' = FALSE
  /\ torn' = (torn \/ (pc = "Data" /\ cmd = CMD_POLL_CONFIG))
  /\ UNCHANGED <<statics, rx, tx, bus, irq, console>>

restart_pio_sm == StopStateMachines \/ DrainTx \/ RelaunchCore1

-----------------------------------------------------------------------------
(* Core 1.  Each action is one RECV_CMD with the code up to the next SEND  *)
(* or RECV_CMD, or a SEND.                                                 *)

SEND ==
  /\ owes
  /\ owes' = FALSE
  /\ tx' = tx + 1
  /\ UNCHANGED <<statics, pc, cmd, i, len, id, rx, bus, irq, core0, torn, console>>

Recv(b) ==
  /\ ~owes
  /\ rx # <<>>
  /\ b = Head(rx)
  /\ rx' = Tail(rx)

\* psx_device_main: only 0x01 starts a request, answered by the ID byte.
psx_device_main(b) ==
  /\ pc = "Addr"
  /\ Recv(b)
  /\ IF b = PadAddress
       THEN /\ pc' = "Cmd"
            /\ id' = IF config THEN MODE_CONFIG ELSE mode
            /\ owes' = TRUE
       ELSE UNCHANGED <<pc, id, owes>>
  /\ UNCHANGED <<statics, cmd, i, len, tx, bus, irq, core0, torn, console>>

\* Faulty: the pressure bytes are left out of the reply.
ReplyLenNoPressure(m) == IF m = MODE_DIGITAL THEN 3 ELSE 7

\* Bytes of the buffer a handler sends in mode m.
ReplyLen(m) ==
  IF m = MODE_DIGITAL THEN 3 ELSE IF m = MODE_ANALOG_PRESSURE THEN 19 ELSE 7

\* Enter a handler: its first SEND (0x5A), then block for the next byte.
Begin(b, n) ==
  /\ pc' = "Data"
  /\ cmd' = b
  /\ i' = 0
  /\ len' = n
  /\ owes' = TRUE
  /\ UNCHANGED id

\* A command that is unknown, or ignored outside config mode: back to the
\* address loop with nothing offered, so that the console sees no ACK.
Ignore == Return /\ UNCHANGED owes

\* Faulty: processAnalogSwitch without "if (!config) return".
AnswersSwitchAlways(b) == b \in ConfigOnly /\ (config \/ b = CMD_ANALOG_SWITCH)

\* The early return of the handlers that need config mode.
Answers(b) == b \in ConfigOnly /\ config

process_joy_req(b) ==
  /\ pc = "Cmd"
  /\ Recv(b)
  /\ \/ b = CMD_POLL /\ Begin(b, ReplyLen(mode)) /\ config' = FALSE
     \/ /\ b = CMD_CONFIG
        /\ Begin(b, ReplyLen(IF config THEN MODE_CONFIG ELSE mode))
        /\ UNCHANGED config
     \/ Answers(b) /\ Begin(b, 7) /\ UNCHANGED config
     \/ b \notin {CMD_POLL, CMD_CONFIG} /\ ~Answers(b) /\ Ignore /\ UNCHANGED config
  /\ UNCHANGED <<mode, analogLock, motorBytes, pollConfig, tx, bus, irq,
                 core0, torn, console>>

\* Faulty: one byte too many.
StepTooFar ==
  IF i < len
    THEN i' = i + 1 /\ owes' = TRUE /\ UNCHANGED <<pc, cmd, len, id>>
    ELSE Return /\ UNCHANGED owes

\* The loop step shared by the handlers: send the next byte, or return.
Step ==
  IF i + 1 < len
    THEN i' = i + 1 /\ owes' = TRUE /\ UNCHANGED <<pc, cmd, len, id>>
    ELSE Return /\ UNCHANGED owes

Handling(c, b) ==
  /\ pc = "Data"
  /\ cmd = c
  /\ Recv(b)
  /\ Step
  /\ UNCHANGED <<tx, bus, irq, core0, console>>

processPoll(b) ==
  /\ Handling(CMD_POLL, b)
  /\ UNCHANGED <<statics, torn>>

processConstant(b) ==
  /\ \E c \in ConstantReply : Handling(c, b)
  /\ UNCHANGED <<statics, torn>>

\* 0x43: the second byte is the new value of config, at once.
processConfig(b) ==
  /\ Handling(CMD_CONFIG, b)
  /\ config' = IF i = 1 THEN b # 0 ELSE config
  /\ UNCHANGED <<mode, analogLock, motorBytes, pollConfig, torn>>

\* Faulty: the last two bytes of the poll configuration are not looked at.
detectAnalogHalf(p) ==
  IF p[0] \/ p[1] THEN MODE_ANALOG_PRESSURE ELSE MODE_ANALOG

\* The sum of the four bytes is positive iff one of them is not zero.
detectAnalog(p) ==
  IF \E k \in 0..3 : p[k] THEN MODE_ANALOG_PRESSURE ELSE MODE_ANALOG

processAnalogSwitch(b) ==
  /\ Handling(CMD_ANALOG_SWITCH, b)
  /\ IF i = 1
       THEN /\ mode' = IF b = 1 THEN detectAnalog(pollConfig) ELSE MODE_DIGITAL
            /\ torn' = FALSE
       ELSE UNCHANGED <<mode, torn>>
  /\ analogLock' = IF i = 2 THEN b = 3 ELSE analogLock
  /\ UNCHANGED <<config, motorBytes, pollConfig>>

processEnableRumble(b) ==
  /\ Handling(CMD_ENABLE_RUMBLE, b)
  /\ motorBytes' = IF i = 0 THEN motorBytes ELSE [motorBytes EXCEPT ![i - 1] = (b # 255)]
  /\ UNCHANGED <<mode, config, analogLock, pollConfig, torn>>

\* 0x4F: four bytes stored as they arrive, the mode set after the last one.
processPollConfig(b) ==
  /\ Handling(CMD_POLL_CONFIG, b)
  /\ pollConfig' = IF i \in 1..4 THEN [pollConfig EXCEPT ![i - 1] = (b # 0)] ELSE pollConfig
  /\ IF i = 6
       THEN mode' = detectAnalog(pollConfig) /\ torn' = FALSE
       ELSE UNCHANGED <<mode, torn>>
  /\ UNCHANGED <<config, analogLock, motorBytes>>

-----------------------------------------------------------------------------
Console ==
  \/ \E t \in Target : Select(t)
  \/ \E b \in Byte : Clock(b)
  \/ Deselect

Core1(b) ==
  \/ psx_device_main(b)
  \/ process_joy_req(b)
  \/ processPoll(b)
  \/ processConstant(b)
  \/ processConfig(b)
  \/ processAnalogSwitch(b)
  \/ processEnableRumble(b)
  \/ processPollConfig(b)

Next ==
  \/ Console
  \/ restart_pio_sm
  \/ SEND
  \/ \E b \in Byte : Core1(b)

Spec == Init /\ [][Next]_vars

\* The console does not hold SEL low for ever, core 0 takes its interrupts,
\* and core 1 runs.
FairSpec ==
  /\ Spec
  /\ WF_vars(Deselect)
  /\ WF_vars(restart_pio_sm)
  /\ WF_vars(SEND)
  /\ WF_vars(\E b \in Byte : Core1(b))

-----------------------------------------------------------------------------
TypeOK ==
  /\ mode \in Mode
  /\ config \in BOOLEAN
  /\ analogLock \in BOOLEAN
  /\ motorBytes \in [0..5 -> BOOLEAN]
  /\ pollConfig \in [0..3 -> BOOLEAN]
  /\ pc \in {"Addr", "Cmd", "Data"}
  /\ cmd \in {0, CMD_POLL, CMD_CONFIG} \cup ConfigOnly
  /\ i \in 0..18
  /\ len \in {0, 3, 7, 19}
  /\ id \in {0, MODE_CONFIG} \cup Mode
  /\ owes \in BOOLEAN
  /\ rx \in Seq(Byte)
  /\ tx \in Nat
  /\ sel \in BOOLEAN
  /\ target \in Target
  /\ clocked \in 0..2
  /\ late \in BOOLEAN
  /\ irq \in BOOLEAN
  /\ core0 \in {"idle", "stopped", "drained"}
  /\ torn \in BOOLEAN
  /\ woken \in BOOLEAN

\* The low four bits of the ID byte announce how many 16-bit words follow the
\* 0x5A (protocol of the real pad, which the constants of the header follow).
\* The ID is chosen from config and mode when the address arrives, the length
\* of the reply from config and mode when the command arrives: every handler
\* must send what was announced.  The one that does not is a poll received
\* in config mode: processPoll clears config first and answers with the
\* length of the mode under it, after announcing 0xF3.
ReplyLengthMatchesId ==
  pc = "Data" /\ ~(cmd = CMD_POLL /\ id = MODE_CONFIG)
    => len = 1 + 2 * (id % 16)

\* Pressure mode is the analog mode with some pollConfig bit set: mode and
\* pollConfig are two statics written at different bytes, by two commands,
\* and a SEL interrupt may fall between the writes.  They agree outside
\* processPollConfig unless one of its runs was cut short (torn).
ModeMatchesPollConfig ==
  ~torn /\ ~(pc = "Data" /\ cmd = CMD_POLL_CONFIG) /\ mode # MODE_DIGITAL
    => (mode = MODE_ANALOG_PRESSURE <=> \E k \in 0..3 : pollConfig[k])

\* What a game set up in config mode can change only in config mode: the
\* mode, the analog lock, the motor mapping and the poll configuration are
\* written at the earliest three bytes after the handler tested config, and
\* core 1 may have been reset and the bus reused in between.
SetupChangesOnlyInConfig ==
  [][<<mode, analogLock, motorBytes, pollConfig>>'
       # <<mode, analogLock, motorBytes, pollConfig>> => config /\ config']_vars

\* "resetting and launching core1 here allows to perform the reset of the
\* transaction": core 1 may still SEND the answer to a byte it had taken
\* before, after the drain and before its reset, so that an exchange may begin
\* with a byte in the FIFO.  It is never more than one, it goes out with the
\* address byte, and it never shifts the reply: from the address on, whatever
\* was broken off before, core 1 has one byte to take, to offer or on offer
\* for the one the console clocks next, and none once it has given up.  An
\* exchange that began before core 0 was done (late) is another matter.
RepliesInStep ==
  sel /\ ~late =>
    /\ clocked = 0 => pc = "Addr" /\ rx = <<>> /\ ~owes /\ tx <= 1
    /\ clocked > 0 /\ target = "pad" =>
         IF pc = "Addr"
           THEN tx = 0 /\ ~owes /\ Len(rx) <= 1
           ELSE tx + Len(rx) + (IF owes THEN 1 ELSE 0) = 1

\* Whatever the console was doing to the pad before, the bytes of a memory
\* card exchange are never taken as the rest of a pad transaction: the pad
\* neither changes its statics nor offers a byte, until a 0x01 is among them
\* (which psx_device_main takes for an address in any position).  The one
\* byte that may be left from before can only go out.
CardTrafficIgnored ==
  [][sel /\ ~late /\ target = "card" /\ ~woken
       => UNCHANGED statics /\ tx' <= tx]_vars

\* An abandoned transaction never leaves core 1 waiting for ever: it gets
\* back to the address loop.
TransactionEnds == pc # "Addr" ~> pc = "Addr"
=============================================================================
