-------------------------- MODULE PsxDeviceProofs --------------------------
(***************************************************************************)
(* Proofs about PsxDevice, for every set of consoles, hasty ones included, *)
(* and every FIFO depth.                                                   *)
(*                                                                         *)
(* Typed is inductive by itself; HandlerInv, AnnounceInv, BusInv and       *)
(* CardInv are the strengthenings of the safety properties, each inductive *)
(* under it.                                                               *)
(***************************************************************************)
EXTENDS PsxDevice, TLAPS

-----------------------------------------------------------------------------
(* Type correctness.                                                       *)

\* The reply index stays below the length of the reply while a handler runs.
Typed == TypeOK /\ (pc = "Data" => i < len)

\* Typed in parts: what the handlers write, where core 1 is, the FIFOs, and
\* the bus with core 0.
StaticsTyped ==
  /\ mode \in Mode
  /\ config \in BOOLEAN
  /\ analogLock \in BOOLEAN
  /\ motorBytes \in [0..5 -> BOOLEAN]
  /\ pollConfig \in [0..3 -> BOOLEAN]
  /\ torn \in BOOLEAN

CoreTyped ==
  /\ pc \in {"Addr", "Cmd", "Data"}
  /\ cmd \in {0, CMD_POLL, CMD_CONFIG} \cup ConfigOnly
  /\ i \in 0..18
  /\ len \in {0, 3, 7, 19}
  /\ id \in {0, MODE_CONFIG} \cup Mode
  /\ owes \in BOOLEAN
  /\ pc = "Data" => i < len

FifosTyped == rx \in Seq(Byte) /\ tx \in Nat

BusTyped ==
  /\ sel \in BOOLEAN
  /\ target \in Target
  /\ clocked \in 0..2
  /\ late \in BOOLEAN
  /\ woken \in BOOLEAN
  /\ irq \in BOOLEAN
  /\ core0 \in {"idle", "stopped", "drained"}

LEMMA Parts ==
  /\ Typed => StaticsTyped /\ CoreTyped /\ FifosTyped /\ BusTyped
  /\ StaticsTyped' /\ CoreTyped' /\ FifosTyped' /\ BusTyped' => Typed'
<1>1. Typed => StaticsTyped /\ CoreTyped /\ FifosTyped /\ BusTyped
  BY Zenon DEF Typed, TypeOK, StaticsTyped, CoreTyped, FifosTyped, BusTyped
<1>2. StaticsTyped' /\ CoreTyped' /\ FifosTyped' /\ BusTyped' => Typed'
  BY Zenon DEF Typed, TypeOK, StaticsTyped, CoreTyped, FifosTyped, BusTyped
<1> QED
  BY <1>1, <1>2

\* A step leaves the type of what it leaves alone.
LEMMA PartsKept ==
  /\ StaticsTyped /\ UNCHANGED <<statics, torn>> => StaticsTyped'
  /\ CoreTyped /\ UNCHANGED core1 => CoreTyped'
  /\ FifosTyped /\ UNCHANGED <<rx, tx>> => FifosTyped'
  /\ BusTyped /\ UNCHANGED <<bus, irq, core0>> => BusTyped'
<1>1. StaticsTyped /\ UNCHANGED <<statics, torn>> => StaticsTyped'
  BY DEF StaticsTyped, statics
<1>2. CoreTyped /\ UNCHANGED core1 => CoreTyped'
  BY DEF CoreTyped, core1
<1>3. FifosTyped /\ UNCHANGED <<rx, tx>> => FifosTyped'
  BY DEF FifosTyped
<1>4. BusTyped /\ UNCHANGED <<bus, irq, core0>> => BusTyped'
  BY DEF BusTyped, bus
<1> QED
  BY <1>1, <1>2, <1>3, <1>4

LEMMA RecvTyped ==
  ASSUME NEW b, rx \in Seq(Byte), Recv(b)
  PROVE  rx' \in Seq(Byte) /\ b \in Byte
  BY DEF Recv

LEMMA DetectsMode ==
  ASSUME NEW p
  PROVE  detectAnalog(p) \in Mode
  BY DEF detectAnalog, Mode

\* One byte of any handler.
LEMMA HandlingTyped ==
  ASSUME NEW b, NEW c, Typed, Handling(c, b), StaticsTyped'
  PROVE  Typed'
<1>1. rx' \in Seq(Byte) /\ tx' \in Nat /\ UNCHANGED <<bus, irq, core0>>
  BY RecvTyped DEF Handling, Typed, TypeOK
<1>2. CoreTyped /\ BusTyped
  BY Parts
<1>3. CoreTyped'
  <2>1. CASE i + 1 < len
    BY <1>2, <2>1 DEF Handling, Recv, Step, CoreTyped
  <2>2. CASE ~(i + 1 < len)
    BY <1>2, <2>2 DEF Handling, Recv, Step, Return, CoreTyped
  <2> QED
    BY <2>1, <2>2
<1> QED
  BY <1>1, <1>2, <1>3, Parts, PartsKept DEF FifosTyped

THEOREM TypedStep == Typed /\ [Next]_vars => Typed'
<1> SUFFICES ASSUME Typed, [Next]_vars PROVE Typed'
  OBVIOUS
<1>0. StaticsTyped /\ CoreTyped /\ FifosTyped /\ BusTyped
  BY Parts
<1>1. ASSUME NEW t \in Target, Select(t) PROVE Typed'
  <2>1. BusTyped'
    <3>1. late' \in BOOLEAN
      BY <1>1, Zenon DEF Select
    <3>2. sel' \in BOOLEAN /\ woken' \in BOOLEAN
      BY <1>1, Zenon DEF Select
    <3>3. target' = t /\ clocked' = 0 /\ irq' = irq /\ core0' = core0
      BY <1>1 DEF Select
    <3> QED
      BY <1>0, <3>1, <3>2, <3>3 DEF BusTyped
  <2>2. UNCHANGED <<statics, core1, rx, tx, torn>>
    BY <1>1 DEF Select
  <2> QED
    BY <1>0, <2>1, <2>2, Parts, PartsKept
<1>2. ASSUME NEW b \in Byte, Clock(b) PROVE Typed'
  <2>1. FifosTyped'
    <3>1. rx' \in Seq(Byte)
      BY <1>0, <1>2 DEF Clock, FifosTyped
    <3>2. tx' \in Nat
      BY <1>0, <1>2 DEF Clock, FifosTyped
    <3> QED
      BY <3>1, <3>2 DEF FifosTyped
  <2>2. BusTyped'
    BY <1>0, <1>2 DEF Clock, BusTyped
  <2>3. UNCHANGED <<statics, core1, torn>>
    BY <1>2 DEF Clock
  <2> QED
    BY <1>0, <2>1, <2>2, <2>3, Parts, PartsKept
<1>3. CASE Deselect
  <2>1. BusTyped'
    BY <1>0, <1>3 DEF Deselect, BusTyped
  <2>2. UNCHANGED <<statics, core1, rx, tx, torn>>
    BY <1>3 DEF Deselect
  <2> QED
    BY <1>0, <2>1, <2>2, Parts, PartsKept
<1>4. CASE StopStateMachines
  <2>1. BusTyped'
    BY <1>0, <1>4 DEF StopStateMachines, bus, BusTyped
  <2>3. FifosTyped'
    BY <1>0, <1>4 DEF StopStateMachines, FifosTyped
  <2>2. UNCHANGED <<statics, core1, torn>>
    BY <1>4 DEF StopStateMachines
  <2> QED
    BY <1>0, <2>1, <2>2, <2>3, Parts, PartsKept
<1>5. CASE DrainTx
  <2>1. BusTyped' /\ FifosTyped'
    BY <1>0, <1>5 DEF DrainTx, bus, BusTyped, FifosTyped
  <2>2. UNCHANGED <<statics, core1, torn>>
    BY <1>5 DEF DrainTx
  <2> QED
    BY <1>0, <2>1, <2>2, Parts, PartsKept
<1>6. CASE RelaunchCore1
  <2>1. BusTyped' /\ UNCHANGED <<rx, tx>>
    BY <1>0, <1>6 DEF RelaunchCore1, bus, BusTyped
  <2>2. CoreTyped'
    <3>1. Return /\ owes' \in BOOLEAN
      BY <1>6 DEF RelaunchCore1
    <3> QED
      BY <3>1 DEF Return, CoreTyped
  <2>3. StaticsTyped'
    BY <1>0, <1>6 DEF RelaunchCore1, statics, StaticsTyped
  <2> QED
    BY <1>0, <2>1, <2>2, <2>3, Parts, PartsKept
<1>7. CASE SEND
  <2>1. CoreTyped'
    BY <1>0, <1>7 DEF SEND, CoreTyped
  <2>3. FifosTyped'
    BY <1>0, <1>7 DEF SEND, FifosTyped
  <2>2. UNCHANGED <<statics, torn, bus, irq, core0>>
    BY <1>7 DEF SEND
  <2> QED
    BY <1>0, <2>1, <2>2, <2>3, Parts, PartsKept
<1>8. ASSUME NEW b \in Byte, psx_device_main(b) PROVE Typed'
  <2>1. FifosTyped'
    BY <1>0, <1>8, RecvTyped DEF psx_device_main, FifosTyped
  <2>2. CoreTyped'
    BY <1>0, <1>8 DEF psx_device_main, Recv, CoreTyped, StaticsTyped
  <2>3. UNCHANGED <<statics, torn, bus, irq, core0>>
    BY <1>8 DEF psx_device_main
  <2> QED
    BY <1>0, <2>1, <2>2, <2>3, Parts, PartsKept
<1>9. ASSUME NEW b \in Byte, process_joy_req(b) PROVE Typed'
  <2>1. FifosTyped' /\ UNCHANGED <<bus, irq, core0>>
    BY <1>0, <1>9, RecvTyped DEF process_joy_req, FifosTyped
  <2>2. StaticsTyped'
    BY <1>0, <1>9 DEF process_joy_req, StaticsTyped
  <2>3. CoreTyped'
    <3>1. ASSUME NEW n \in {3, 7, 19}, Begin(b, n), b \in {CMD_POLL, CMD_CONFIG} \cup ConfigOnly
          PROVE  CoreTyped'
      BY <1>0, <3>1 DEF Begin, CoreTyped
    <3>2. ASSUME NEW m, Begin(b, ReplyLen(m)), b \in {CMD_POLL, CMD_CONFIG}
          PROVE  CoreTyped'
      BY <3>1, <3>2 DEF ReplyLen
    <3>3. ASSUME Answers(b), Begin(b, 7) PROVE CoreTyped'
      BY <3>1, <3>3 DEF Answers
    <3>4. CASE Ignore
      BY <1>0, <3>4 DEF Ignore, Return, CoreTyped
    <3> QED
      BY <1>9, <3>2, <3>3, <3>4 DEF process_joy_req
  <2> QED
    BY <1>0, <2>1, <2>2, <2>3, Parts, PartsKept
<1>10. ASSUME NEW b \in Byte, processPoll(b) \/ processConstant(b) PROVE Typed'
  BY <1>0, <1>10, HandlingTyped, PartsKept DEF processPoll, processConstant
<1>11. ASSUME NEW b \in Byte, processConfig(b) PROVE Typed'
  <2>1. StaticsTyped'
    BY <1>0, <1>11 DEF processConfig, StaticsTyped
  <2> QED
    BY <1>11, <2>1, HandlingTyped DEF processConfig
<1>12. ASSUME NEW b \in Byte, processAnalogSwitch(b) PROVE Typed'
  <2>1. mode' \in Mode /\ torn' \in BOOLEAN
    BY <1>0, <1>12, DetectsMode DEF processAnalogSwitch, StaticsTyped, Mode
  <2>2. StaticsTyped'
    BY <1>0, <1>12, <2>1 DEF processAnalogSwitch, StaticsTyped
  <2> QED
    BY <1>12, <2>2, HandlingTyped DEF processAnalogSwitch
<1>13. ASSUME NEW b \in Byte, processEnableRumble(b) PROVE Typed'
  <2>1. StaticsTyped'
    BY <1>0, <1>13 DEF processEnableRumble, StaticsTyped
  <2> QED
    BY <1>13, <2>1, HandlingTyped DEF processEnableRumble
<1>14. ASSUME NEW b \in Byte, processPollConfig(b) PROVE Typed'
  <2>1. mode' \in Mode /\ torn' \in BOOLEAN
    BY <1>0, <1>14, DetectsMode DEF processPollConfig, StaticsTyped
  <2>2. pollConfig' \in [0..3 -> BOOLEAN]
    BY <1>0, <1>14 DEF processPollConfig, StaticsTyped
  <2>3. StaticsTyped'
    BY <1>0, <1>14, <2>1, <2>2 DEF processPollConfig, StaticsTyped
  <2> QED
    BY <1>14, <2>3, HandlingTyped DEF processPollConfig
<1>15. CASE UNCHANGED vars
  BY <1>0, <1>15, Parts, PartsKept DEF vars
<1> QED
  BY <1>1, <1>2, <1>3, <1>4, <1>5, <1>6, <1>7, <1>8, <1>9, <1>10, <1>11, <1>12, <1>13,
     <1>14, <1>15 DEF Next, Console, restart_pio_sm, Core1

-----------------------------------------------------------------------------
(* What the properties below need to know of the actions.                  *)

LEMMA Codes ==
  /\ CMD_POLL # CMD_CONFIG
  /\ {CMD_POLL, CMD_CONFIG} \cap ConfigOnly = {}
  /\ {CMD_ANALOG_SWITCH, CMD_ENABLE_RUMBLE, CMD_POLL_CONFIG} \subseteq ConfigOnly
  /\ ConstantReply \subseteq ConfigOnly
  /\ CMD_POLL_CONFIG \notin ConstantReply
  /\ CMD_POLL_CONFIG # CMD_ANALOG_SWITCH
  /\ CMD_POLL_CONFIG # CMD_ENABLE_RUMBLE
  /\ CardAddress # PadAddress
  BY DEF ConfigOnly, ConstantReply, CMD_PRES_CONFIG, CMD_POLL_CONFIG_STATUS,
         CMD_POLL, CMD_CONFIG, CMD_ANALOG_SWITCH, CMD_STATUS, CMD_CONST_46,
         CMD_CONST_47, CMD_CONST_4C, CMD_ENABLE_RUMBLE, CMD_POLL_CONFIG,
         CardAddress, PadAddress

\* Core 0 and a SEND leave core 1 where it is, or send it to its address loop.
LEMMA RestartKeeps ==
  ASSUME restart_pio_sm
  PROVE  /\ UNCHANGED statics
         /\ \/ UNCHANGED <<core1, torn>>
            \/ /\ Return /\ ~owes'
               /\ torn' = (torn \/ (pc = "Data" /\ cmd = CMD_POLL_CONFIG))
  BY DEF restart_pio_sm, StopStateMachines, DrainTx, RelaunchCore1

LEMMA SendKeeps ==
  ASSUME SEND
  PROVE  UNCHANGED <<statics, pc, cmd, i, len, id, rx, torn>>
  BY DEF SEND

\* The console touches neither core 1 nor its statics.
LEMMA ConsoleKeeps ==
  ASSUME Console
  PROVE  UNCHANGED <<statics, core1, torn>>
  BY DEF Console, Select, Clock, Deselect, statics, core1

\* A handler goes on with the same reply or is done with it.
LEMMA HandlingKeeps ==
  ASSUME NEW b, NEW c, Handling(c, b)
  PROVE  /\ pc = "Data" /\ cmd = c
         /\ \/ /\ i + 1 < len
               /\ UNCHANGED <<pc, cmd, len, id>>
            \/ ~(i + 1 < len) /\ pc' = "Addr"
  BY DEF Handling, Step, Return

\* The alternatives of process_joy_req.
LEMMA RequestCases ==
  ASSUME NEW b, process_joy_req(b)
  PROVE  /\ pc = "Cmd"
         /\ UNCHANGED <<mode, analogLock, motorBytes, pollConfig, torn>>
         /\ \/ /\ pc' = "Data" /\ cmd' = CMD_POLL /\ id' = id
               /\ len' = ReplyLen(mode) /\ ~config'
            \/ /\ pc' = "Data" /\ cmd' = CMD_CONFIG /\ id' = id
               /\ len' = ReplyLen(IF config THEN MODE_CONFIG ELSE mode)
            \/ /\ pc' = "Data" /\ cmd' \in ConfigOnly /\ id' = id
               /\ len' = 7 /\ config /\ config'
            \/ pc' = "Addr"
  BY DEF process_joy_req, Begin, Answers, Ignore, Return

-----------------------------------------------------------------------------
(* A handler that needs config mode runs in it, over a reply of 7 bytes.   *)

HandlerInv == pc = "Data" /\ cmd \in ConfigOnly => config /\ len = 7

LEMMA HandlerStep == HandlerInv /\ [Next]_vars => HandlerInv'
<1> SUFFICES ASSUME HandlerInv, [Next]_vars PROVE HandlerInv'
  OBVIOUS
<1> USE DEF HandlerInv
<1>1. CASE Console
  BY <1>1, ConsoleKeeps DEF statics, core1
<1>2. CASE restart_pio_sm
  BY <1>2, RestartKeeps DEF Return, statics, core1
<1>3. ASSUME NEW b \in Byte, psx_device_main(b) PROVE HandlerInv'
  BY <1>3 DEF psx_device_main, statics
<1>4. ASSUME NEW b \in Byte, process_joy_req(b) PROVE HandlerInv'
  BY <1>4, RequestCases, Codes
<1>5. ASSUME NEW b \in Byte, processPoll(b) PROVE HandlerInv'
  BY <1>5, HandlingKeeps DEF processPoll, statics
<1>6. ASSUME NEW b \in Byte, processConstant(b) PROVE HandlerInv'
  BY <1>6, HandlingKeeps DEF processConstant, statics
<1>7. ASSUME NEW b \in Byte, processConfig(b) PROVE HandlerInv'
  BY <1>7, HandlingKeeps, Codes DEF processConfig
<1>8. ASSUME NEW b \in Byte, processAnalogSwitch(b) PROVE HandlerInv'
  BY <1>8, HandlingKeeps DEF processAnalogSwitch
<1>9. ASSUME NEW b \in Byte, processEnableRumble(b) PROVE HandlerInv'
  BY <1>9, HandlingKeeps DEF processEnableRumble
<1>10. ASSUME NEW b \in Byte, processPollConfig(b) PROVE HandlerInv'
  BY <1>10, HandlingKeeps DEF processPollConfig
<1>11. CASE SEND
  BY <1>11, SendKeeps DEF statics
<1>12. CASE UNCHANGED vars
  BY <1>12 DEF vars, statics, core1
<1> QED
  BY <1>1, <1>2, <1>3, <1>4, <1>5, <1>6, <1>7, <1>8, <1>9, <1>10, <1>11, <1>12
     DEF Next, Core1

-----------------------------------------------------------------------------
(* What was announced when the address came is what a handler sends.       *)

AnnounceInv ==
  /\ pc = "Cmd" => id = IF config THEN MODE_CONFIG ELSE mode
  /\ ReplyLengthMatchesId

LEMMA ReplyLengths ==
  ASSUME NEW m \in Mode \cup {MODE_CONFIG}
  PROVE  ReplyLen(m) = 1 + 2 * (m % 16)
  BY DEF ReplyLen, Mode, MODE_DIGITAL, MODE_ANALOG, MODE_ANALOG_PRESSURE, MODE_CONFIG

LEMMA AnnounceStep == TypeOK /\ AnnounceInv /\ [Next]_vars => AnnounceInv'
<1> SUFFICES ASSUME TypeOK, AnnounceInv, [Next]_vars PROVE AnnounceInv'
  OBVIOUS
<1> USE DEF AnnounceInv, ReplyLengthMatchesId
<1>1. CASE Console
  BY <1>1, ConsoleKeeps DEF statics, core1
<1>2. CASE restart_pio_sm
  BY <1>2, RestartKeeps DEF Return, statics, core1
<1>3. ASSUME NEW b \in Byte, psx_device_main(b) PROVE AnnounceInv'
  BY <1>3 DEF psx_device_main, statics
<1>4. ASSUME NEW b \in Byte, process_joy_req(b) PROVE AnnounceInv'
  <2>1. /\ ReplyLen(mode) = 1 + 2 * (mode % 16)
        /\ ReplyLen(MODE_CONFIG) = 1 + 2 * (MODE_CONFIG % 16)
        /\ ReplyLen(MODE_CONFIG) = 7
    BY ReplyLengths DEF TypeOK, ReplyLen, Mode, MODE_DIGITAL, MODE_ANALOG,
                        MODE_ANALOG_PRESSURE, MODE_CONFIG
  <2>2. pc = "Cmd" /\ id = IF config THEN MODE_CONFIG ELSE mode
    BY <1>4, RequestCases
  <2>3. CASE config
    BY <1>4, <2>1, <2>2, <2>3, RequestCases, Codes
  <2>4. CASE ~config
    BY <1>4, <2>1, <2>2, <2>4, RequestCases, Codes
  <2> QED
    BY <2>3, <2>4
<1>5. ASSUME NEW b \in Byte, processPoll(b) PROVE AnnounceInv'
  BY <1>5, HandlingKeeps DEF processPoll
<1>6. ASSUME NEW b \in Byte, processConstant(b) PROVE AnnounceInv'
  BY <1>6, HandlingKeeps DEF processConstant
<1>7. ASSUME NEW b \in Byte, processConfig(b) PROVE AnnounceInv'
  BY <1>7, HandlingKeeps DEF processConfig
<1>8. ASSUME NEW b \in Byte, processAnalogSwitch(b) PROVE AnnounceInv'
  BY <1>8, HandlingKeeps DEF processAnalogSwitch
<1>9. ASSUME NEW b \in Byte, processEnableRumble(b) PROVE AnnounceInv'
  BY <1>9, HandlingKeeps DEF processEnableRumble
<1>10. ASSUME NEW b \in Byte, processPollConfig(b) PROVE AnnounceInv'
  BY <1>10, HandlingKeeps DEF processPollConfig
<1>11. CASE SEND
  BY <1>11, SendKeeps DEF statics
<1>12. CASE UNCHANGED vars
  BY <1>12 DEF vars, statics, core1
<1> QED
  BY <1>1, <1>2, <1>3, <1>4, <1>5, <1>6, <1>7, <1>8, <1>9, <1>10, <1>11, <1>12
     DEF Next, Core1

-----------------------------------------------------------------------------
(* Pressure mode and poll configuration.                                   *)

LEMMA Detects ==
  ASSUME NEW p
  PROVE  /\ detectAnalog(p) # MODE_DIGITAL
         /\ detectAnalog(p) = MODE_ANALOG_PRESSURE <=> \E k \in 0..3 : p[k]
  BY DEF detectAnalog, MODE_DIGITAL, MODE_ANALOG, MODE_ANALOG_PRESSURE

LEMMA PressureStep ==
  Typed /\ HandlerInv /\ ModeMatchesPollConfig /\ [Next]_vars => ModeMatchesPollConfig'
<1> SUFFICES ASSUME Typed, HandlerInv, ModeMatchesPollConfig, [Next]_vars
             PROVE  ModeMatchesPollConfig'
  OBVIOUS
<1> USE DEF ModeMatchesPollConfig
<1>1. CASE Console
  BY <1>1, ConsoleKeeps DEF statics, core1
<1>2. CASE restart_pio_sm
  BY <1>2, RestartKeeps DEF Return, statics, core1
<1>3. ASSUME NEW b \in Byte, psx_device_main(b) PROVE ModeMatchesPollConfig'
  BY <1>3 DEF psx_device_main, statics
<1>4. ASSUME NEW b \in Byte, process_joy_req(b) PROVE ModeMatchesPollConfig'
  BY <1>4, RequestCases
<1>5. ASSUME NEW b \in Byte, processPoll(b) PROVE ModeMatchesPollConfig'
  BY <1>5, HandlingKeeps, Codes DEF processPoll, statics
<1>6. ASSUME NEW b \in Byte, processConstant(b) PROVE ModeMatchesPollConfig'
  BY <1>6, HandlingKeeps, Codes DEF processConstant, statics
<1>7. ASSUME NEW b \in Byte, processConfig(b) PROVE ModeMatchesPollConfig'
  BY <1>7, HandlingKeeps, Codes DEF processConfig
<1>8. ASSUME NEW b \in Byte, processAnalogSwitch(b) PROVE ModeMatchesPollConfig'
  BY <1>8, HandlingKeeps, Codes, Detects DEF processAnalogSwitch
<1>9. ASSUME NEW b \in Byte, processEnableRumble(b) PROVE ModeMatchesPollConfig'
  BY <1>9, HandlingKeeps, Codes DEF processEnableRumble
<1>10. ASSUME NEW b \in Byte, processPollConfig(b) PROVE ModeMatchesPollConfig'
  <2>1. len = 7 /\ cmd = CMD_POLL_CONFIG
    BY <1>10, HandlingKeeps, Codes DEF processPollConfig, HandlerInv
  <2>2. CASE i = 6
    BY <1>10, <2>2, Detects DEF processPollConfig
  <2>3. CASE i # 6 /\ i + 1 < len
    BY <1>10, <2>1, <2>3, HandlingKeeps DEF processPollConfig
  <2>4. CASE i # 6 /\ ~(i + 1 < len)
    <3>1. pc = "Data" /\ i \in 0..18 /\ i < 7
      BY <1>10, <2>1, HandlingKeeps DEF processPollConfig, Typed, TypeOK
    <3> QED
      BY <2>1, <2>4, <3>1
  <2> QED
    BY <2>2, <2>3, <2>4
<1>11. CASE SEND
  BY <1>11, SendKeeps DEF statics
<1>12. CASE UNCHANGED vars
  BY <1>12 DEF vars, statics, core1
<1> QED
  BY <1>1, <1>2, <1>3, <1>4, <1>5, <1>6, <1>7, <1>8, <1>9, <1>10, <1>11, <1>12
     DEF Next, Core1

-----------------------------------------------------------------------------
(* The bus, and the reset of core 1.                                       *)

\* Core 1 in its address loop with nothing to take, and at most one byte left
\* to go out.
Idle == pc = "Addr" /\ rx = <<>> /\ ~owes /\ tx <= 1

Owed == IF owes THEN 1 ELSE 0

\* What is left of an exchange, step by step as core 0 clears it away; from
\* then on core 1 follows the console byte by byte, if the exchange began
\* after that.
BusInv ==
  /\ core0 # "idle" => rx = <<>>
  /\ core0 = "drained" => tx + Owed <= 1
  /\ ~sel /\ Served => Idle
  /\ sel /\ ~late => Served /\ RepliesInStep

\* One step of core 1 that takes a byte.
LEMMA CoreOneTakes ==
  ASSUME NEW b, Core1(b)
  PROVE  /\ ~owes /\ rx # <<>> /\ rx' = Tail(rx)
         /\ UNCHANGED <<tx, bus, irq, core0>>
         /\ \/ pc' = "Addr" /\ ~owes'
            \/ pc' # "Addr" /\ owes'
         /\ pc = "Addr" => psx_device_main(b)
<1>1. CASE psx_device_main(b)
  <2>1. CASE b = PadAddress
    BY <1>1, <2>1 DEF psx_device_main, Recv
  <2>2. CASE b # PadAddress
    BY <1>1, <2>2 DEF psx_device_main, Recv
  <2> QED
    BY <2>1, <2>2
<1>2. CASE process_joy_req(b)
  BY <1>2 DEF process_joy_req, Recv, Begin, Ignore, Return
<1>3. CASE \E c : Handling(c, b)
  BY <1>3 DEF Handling, Recv, Step, Return
<1> QED
  BY <1>1, <1>2, <1>3 DEF Core1, processPoll, processConstant, processConfig,
     processAnalogSwitch, processEnableRumble, processPollConfig

LEMMA BusStep == TypeOK /\ BusInv /\ [Next]_vars => BusInv'
<1> SUFFICES ASSUME TypeOK, BusInv, [Next]_vars PROVE BusInv'
  OBVIOUS
<1> USE DEF BusInv, Idle, Owed, Served, RepliesInStep
<1>1. ASSUME NEW t \in Target, Select(t) PROVE BusInv'
  <2>1. /\ ~sel /\ sel' /\ clocked' = 0 /\ late' = ~Served
        /\ UNCHANGED <<core1, rx, tx, irq, core0>>
    BY <1>1 DEF Select
  <2>2. ~late' => Served
    BY <2>1
  <2> QED
    BY <2>1, <2>2 DEF core1
<1>2. ASSUME NEW b \in Byte, Clock(b) PROVE BusInv'
  <2>1. UNCHANGED <<core1, sel, target, late, irq, core0>> /\ sel /\ clocked' # 0
    BY <1>2 DEF Clock, TypeOK
  <2>2. CASE core0 # "idle"
    BY <1>2, <2>1, <2>2 DEF Clock, core1
  <2>3. CASE core0 = "idle" /\ late
    BY <2>1, <2>3 DEF core1
  <2>4. CASE core0 = "idle" /\ ~late
    <3>1. rx' = Append(rx, b) /\ Len(rx') = Len(rx) + 1 /\ Len(rx) \in Nat
      BY <1>2, <2>4 DEF Clock, TypeOK
    <3>2. tx' = IF tx > 0 THEN tx - 1 ELSE 0
      BY <1>2, <2>4 DEF Clock
    <3>3. CASE target # "pad"
      BY <2>1, <2>4, <3>3 DEF core1
    <3>4. CASE target = "pad" /\ clocked = 0
      BY <2>1, <2>4, <3>1, <3>2, <3>4 DEF core1, TypeOK
    <3>5. CASE target = "pad" /\ clocked > 0
      <4>1. tx > 0
        BY <1>2, <3>5 DEF Clock
      <4>2. pc # "Addr" /\ tx + Len(rx) + Owed = 1
        BY <2>1, <2>4, <3>5, <4>1
      <4>3. tx' + Len(rx') + Owed' = 1
        BY <2>1, <3>1, <3>2, <4>1, <4>2 DEF core1, TypeOK
      <4> QED
        BY <2>1, <2>4, <4>2, <4>3 DEF core1
    <3> QED
      BY <3>3, <3>4, <3>5 DEF TypeOK
  <2> QED
    BY <2>2, <2>3, <2>4
<1>3. CASE Deselect
  BY <1>3 DEF Deselect, core1
<1>4. CASE StopStateMachines
  BY <1>4 DEF StopStateMachines, bus, core1
<1>5. CASE DrainTx
  BY <1>5 DEF DrainTx, bus, core1
<1>6. CASE RelaunchCore1
  BY <1>6 DEF RelaunchCore1, Return, bus, TypeOK
<1>7. CASE SEND
  <2>1. owes /\ ~owes' /\ tx' = tx + 1 /\ UNCHANGED <<pc, rx, bus, irq, core0>>
    BY <1>7 DEF SEND
  <2> QED
    BY <2>1 DEF bus, TypeOK
<1>8. ASSUME NEW b \in Byte, Core1(b) PROVE BusInv'
  <2>1. /\ ~owes /\ rx # <<>> /\ rx' = Tail(rx)
        /\ UNCHANGED <<tx, sel, target, clocked, late, irq, core0>>
        /\ (pc' = "Addr" /\ ~owes') \/ (pc' # "Addr" /\ owes')
    BY <1>8, CoreOneTakes DEF bus
  <2>2. Len(rx) \in Nat \ {0} /\ Len(rx') = Len(rx) - 1
    BY <2>1 DEF TypeOK
  <2>3. core0 = "idle" /\ (~sel => irq)
    BY <2>1 DEF TypeOK
  <2>4. ASSUME sel, ~late, clocked > 0, target = "pad"
        PROVE  IF pc' = "Addr" THEN tx' = 0 /\ ~owes' /\ Len(rx') <= 1
               ELSE tx' + Len(rx') + Owed' = 1
    <3>0. tx = 0 /\ Len(rx) = 1
      BY <2>1, <2>2, <2>4 DEF TypeOK
    <3> QED
      BY <2>1, <2>2, <3>0
  <2> QED
    BY <2>1, <2>3, <2>4 DEF TypeOK
<1>9. CASE UNCHANGED vars
  BY <1>9 DEF vars, core1, bus
<1> QED
  BY <1>1, <1>2, <1>3, <1>4, <1>5, <1>6, <1>7, <1>8, <1>9 DEF Next, Console, restart_pio_sm

\* While the console talks to a memory card and has not sent 0x01, nothing in
\* the FIFO can wake core 1 up.
CardBus == sel /\ ~late /\ target = "card" /\ ~woken

CardInv ==
  CardBus => pc = "Addr" /\ ~owes /\ \A k \in 1..Len(rx) : rx[k] # PadAddress

LEMMA CardStep == TypeOK /\ BusInv /\ CardInv /\ [Next]_vars => CardInv'
<1> SUFFICES ASSUME TypeOK, BusInv, CardInv, [Next]_vars, CardBus' PROVE CardInv'
  BY DEF CardInv
<1> USE DEF CardInv, CardBus
<1>1. ASSUME NEW t \in Target, Select(t) PROVE CardInv'
  <2>1. ~sel /\ Served
    BY <1>1 DEF Select
  <2> QED
    BY <1>1, <2>1 DEF Select, core1, BusInv, Idle
<1>2. ASSUME NEW b \in Byte, Clock(b) PROVE CardInv'
  <2>1. CardBus /\ b # PadAddress /\ core0 = "idle"
    BY <1>2 DEF Clock, BusInv, Served, TypeOK
  <2>2. rx' = Append(rx, b) /\ pc' = "Addr" /\ ~owes'
    BY <1>2, <2>1 DEF Clock, core1
  <2>3. \A k \in 1..Len(rx') : rx'[k] # PadAddress
    BY <2>1, <2>2 DEF TypeOK
  <2> QED
    BY <2>2, <2>3
<1>3. CASE Deselect
  BY <1>3 DEF Deselect
<1>4. CASE restart_pio_sm
  BY <1>4 DEF restart_pio_sm, StopStateMachines, DrainTx, RelaunchCore1, bus, BusInv, Served
<1>5. CASE SEND
  BY <1>5 DEF SEND, bus
<1>6. ASSUME NEW b \in Byte, Core1(b) PROVE CardInv'
  <2>1. CardBus
    BY <1>6, CoreOneTakes DEF bus
  <2>2. psx_device_main(b)
    BY <1>6, <2>1, CoreOneTakes
  <2>3. b # PadAddress
    BY <2>1, <2>2 DEF psx_device_main, Recv, TypeOK
  <2>4. pc' = "Addr" /\ ~owes'
    BY <2>1, <2>2, <2>3 DEF psx_device_main
  <2>5. \A k \in 1..Len(rx') : rx'[k] # PadAddress
    BY <2>1, <2>2 DEF psx_device_main, Recv, TypeOK
  <2> QED
    BY <2>4, <2>5
<1>7. CASE UNCHANGED vars
  BY <1>7 DEF vars, core1, bus
<1> QED
  BY <1>1, <1>2, <1>3, <1>4, <1>5, <1>6, <1>7 DEF Next, Console

-----------------------------------------------------------------------------
(* The theorems.                                                           *)

Inv ==
  /\ Typed
  /\ HandlerInv
  /\ AnnounceInv
  /\ ModeMatchesPollConfig
  /\ BusInv
  /\ CardInv

LEMMA InvInit == Init => Inv
<1> SUFFICES ASSUME Init PROVE Inv
  OBVIOUS
<1>1. Typed
  <2>1. rx \in Seq(Byte)
    BY DEF Init
  <2>2. motorBytes \in [0..5 -> BOOLEAN] /\ pollConfig \in [0..3 -> BOOLEAN]
    BY DEF Init
  <2>3. /\ config \in BOOLEAN /\ analogLock \in BOOLEAN /\ sel \in BOOLEAN
        /\ irq \in BOOLEAN /\ torn \in BOOLEAN /\ owes \in BOOLEAN
        /\ late \in BOOLEAN /\ woken \in BOOLEAN /\ core0 = "idle"
    BY DEF Init
  <2>4. mode \in Mode /\ target \in Target
    BY DEF Init, Mode, Target
  <2>5. /\ pc = "Addr" /\ cmd = 0 /\ i = 0 /\ len = 0 /\ id = 0
        /\ tx = 0 /\ clocked = 0
    BY DEF Init
  <2> QED
    BY <2>1, <2>2, <2>3, <2>4, <2>5 DEF Typed, TypeOK
<1>2. HandlerInv /\ AnnounceInv /\ ModeMatchesPollConfig
  BY DEF Init, HandlerInv, AnnounceInv, ReplyLengthMatchesId, ModeMatchesPollConfig
<1>3. BusInv /\ CardInv
  BY DEF Init, BusInv, Idle, CardInv, CardBus, Served
<1> QED
  BY <1>1, <1>2, <1>3 DEF Inv

LEMMA InvStep == Inv /\ [Next]_vars => Inv'
  BY TypedStep, HandlerStep, AnnounceStep, PressureStep, BusStep, CardStep
     DEF Inv, Typed

LEMMA Invariance == Spec => []Inv
  BY InvInit, InvStep, PTL DEF Spec

\* Every variable of the pad stays in its type, so that a handler never
\* reads beyond its buffer.
THEOREM TypeCorrect == Spec => []TypeOK
<1>1. Inv => TypeOK
  BY DEF Inv, Typed
<1> QED
  BY <1>1, Invariance, PTL

\* Every reply has the length that its ID byte announced, except the reply
\* to a poll in config mode, whatever bytes the console sends and however
\* late the interrupt is.
THEOREM ReplyLengthCorrect == Spec => []ReplyLengthMatchesId
<1>1. Inv => ReplyLengthMatchesId
  BY DEF Inv, AnnounceInv
<1> QED
  BY <1>1, Invariance, PTL

\* The analog mode agrees with the poll configuration unless a command that
\* writes both was cut short.
THEOREM PressureCorrect == Spec => []ModeMatchesPollConfig
<1>1. Inv => ModeMatchesPollConfig
  BY DEF Inv
<1> QED
  BY <1>1, Invariance, PTL

\* Whatever was broken off before and wherever core 1 was when it was reset,
\* an exchange that begins after that is answered byte for byte.
THEOREM InStepCorrect == Spec => []RepliesInStep
<1>1. Inv => RepliesInStep
  BY DEF Inv, BusInv, RepliesInStep
<1> QED
  BY <1>1, Invariance, PTL

\* A step outside config mode leaves the set-up alone.
LEMMA SetupStep ==
  Inv /\ [Next]_vars
    => [<<mode, analogLock, motorBytes, pollConfig>>'
          # <<mode, analogLock, motorBytes, pollConfig>> => config /\ config']_vars
<1> SUFFICES ASSUME Inv, Next,
                    <<mode, analogLock, motorBytes, pollConfig>>'
                      # <<mode, analogLock, motorBytes, pollConfig>>
             PROVE  config /\ config'
  OBVIOUS
<1>1. ~Console /\ ~restart_pio_sm /\ ~SEND
  BY ConsoleKeeps, RestartKeeps, SendKeeps DEF statics
<1>2. PICK b \in Byte : Core1(b)
  BY <1>1 DEF Next
<1>3. processAnalogSwitch(b) \/ processEnableRumble(b) \/ processPollConfig(b)
  BY <1>2, RequestCases DEF Core1, psx_device_main, processPoll, processConstant,
                            processConfig, statics
<1>4. pc = "Data" /\ cmd \in ConfigOnly /\ config' = config
  BY <1>3, HandlingKeeps, Codes DEF processAnalogSwitch, processEnableRumble,
                                    processPollConfig
<1> QED
  BY <1>4 DEF Inv, HandlerInv

\* What a game set up in config mode changes only in config mode, for every
\* interleaving of the bus, core 1 and the resets of core 1.
THEOREM SetupCorrect == Spec => SetupChangesOnlyInConfig
  BY Invariance, SetupStep, PTL DEF Spec, SetupChangesOnlyInConfig

LEMMA CardTrafficStep ==
  Inv /\ [Next]_vars => [CardBus => UNCHANGED statics /\ tx' <= tx]_vars
<1> SUFFICES ASSUME Inv, Next, CardBus PROVE UNCHANGED statics /\ tx' <= tx
  OBVIOUS
<1>1. pc = "Addr" /\ ~owes /\ sel /\ ~irq /\ core0 = "idle" /\ tx \in Nat
  BY DEF Inv, CardInv, CardBus, BusInv, Served, Typed, TypeOK
<1>2. CASE Console
  <2>1. ASSUME NEW t \in Target, Select(t) PROVE tx' <= tx
    BY <1>1, <2>1 DEF Select
  <2>2. ASSUME NEW b \in Byte, Clock(b) PROVE tx' <= tx
    BY <1>1, <2>2 DEF Clock
  <2>3. CASE Deselect
    BY <1>1, <2>3 DEF Deselect
  <2>4. tx' <= tx
    BY <1>2, <2>1, <2>2, <2>3 DEF Console
  <2> QED
    BY <1>2, <2>4, ConsoleKeeps
<1>3. ~restart_pio_sm /\ ~SEND
  BY <1>1 DEF restart_pio_sm, StopStateMachines, DrainTx, RelaunchCore1, SEND
<1>4. ASSUME NEW b \in Byte, Core1(b) PROVE UNCHANGED <<statics, tx>>
  BY <1>1, <1>4, CoreOneTakes DEF psx_device_main
<1> QED
  BY <1>1, <1>2, <1>3, <1>4 DEF Next

\* Until a 0x01 is among its bytes, memory card traffic never reaches the
\* statics of the pad nor makes it offer a byte.
THEOREM CardCorrect == Spec => CardTrafficIgnored
  BY Invariance, CardTrafficStep, PTL DEF Spec, CardTrafficIgnored, CardBus

-----------------------------------------------------------------------------
(* What the liveness rests on.                                             *)

\* Core 1 is in a transaction, or has bytes to take or to offer, only while
\* the console holds SEL or the interrupt that resets core 1 is pending or
\* being served.
NeverStranded == ~sel /\ Served => Idle

\* Whenever core 1 waits in a handler, one of the events that end a
\* transaction is still to come: the console lets go of SEL, or core 0 runs
\* restart_pio_sm to its end.  TransactionEnds follows from this and from the
\* fairness of these steps, however late core 0 is.
THEOREM NeverStrandedCorrect == Spec => []NeverStranded
<1>1. Inv => NeverStranded
  BY DEF Inv, BusInv, NeverStranded
<1> QED
  BY <1>1, Invariance, PTL
=============================================================================
