# Models of PicoGamepadConverter

PicoGamepadConverter is firmware for the RP2040: it reads one controller (USB
XInput or HID, PlayStation, N64/GameCube, PS/2 keyboard, Bluetooth) and presents
itself to a console or PC as another one (XInput, Switch, DirectInput,
PlayStation, GameCube, Bluetooth HID, Wii remote). There is no test suite; the
repository's statements about itself are its `README.md`, the web page and the
comments. This directory holds TLA+ models of its control logic, the TLC runs
that check them and TLAPS proofs about them. Source paths below are relative to
the repository's `src/` directory.

## 1. Inventory

| Part | Files | State it keeps | Operations |
|---|---|---|---|
| Boot, cores and pacing | `main.c` | `HOST`, `DEVICE`, the report of the device, `start_ms` | `main`, `core1_main`, `sendReportData`, TinyUSB callbacks |
| PlayStation device | `device_files/psx-device` | `mode`, `config`, `analogLock`, `motorBytes`, `pollConfig`; PIO FIFOs | one handler per command, `psx_device_main`, `sel_isr_callback` |
| Wii remote device | `device_files/wiimote-lib/wiimote.c`, `wm_reports.c` | `wiimote_state` (user side, system side), reply queue, registers, EEPROM | `process_report`, `generate_report` |
| Wii link | `device_files/wiimote-lib/wiimote_btstack.c` | `hid_cid`, `wii_baddr`, the buffer `buf`, timers | BTstack events, `send_data`, `get_data_wii`, `input_update_wiimote` |
| Conversion and features | `convert_data.c` | `features`, `pressed_hotkeys`, `mode`/`switch_mode`/`reset_ir` of the Wii report | `new_report_fun`, `set_features`, `set_fast_switch_mode` |
| Persistent configuration | `flash-lib/pico_flash.c`, `utils.c` | one flash sector | `read_flash`, `write_flash`, `save_wii_addr`, `swap_modes_in_flash` |
| Web page | `device_files/rndis-lib/rndis.c` | none but flash | `/set_mode`, `/set_features`, `/read_data` |
| Bluetooth device and host | `bluehid-lib/blue_hid.c`, `bluehost-lib/blue_host.c` | connection, protocol and report state | BTstack events |
| XInput host | `host_files/xinput_host.c` | interfaces, endpoints, `connected` | open, `xfer_cb`, close, receive and send |
| HID host | `host_files/parser-lib` | static pools of report items, one `ReportInfo` | parse, decode, free |
| Other hosts | `ps2kbd-lib`, `process_keyboard.c`, `psx-lib`, `joybus_host` | key bits, DMA buffers, joybus response | interrupt handlers and polls |
| GameCube device | `device_files/gc-device` | joybus state machine, report | request loop |
| USB device drivers | `device_files/xinput`, `device_files/switch`, `usb_descriptors.c` | endpoint state | TinyUSB class driver callbacks |

How they interact: the host side calls `new_report_fun`, which decodes the
host's report, applies the features and encodes the device's report into a
structure shared with the device side, usually on the other core, without a
lock. The hotkey feature and the Wii link write flash with
`flash_safe_execute`, which stops the other core. The PlayStation device puts
the device on core 1 and its SEL interrupt on core 0, which resets core 1. The
web page runs alone.

What is hard here: core 1 reset between any two of its steps; structures shared
between cores; replies queued while others wait; a buffer that is both input
and output; values read at boot and compared with flash later; a flash write
that is two steps; countdowns racing the user; handlers that nothing can test
without the console. The list with lines is `hazards` in `PROJECT.json`.

What makes each part correct, in a sentence: the PlayStation pad answers with
the length it announced and changes its set-up only when asked to in config
mode; the configuration is a store whose settings change one group at a time;
the Wii remote answers each request once, tells the console of every change of
its extension and keeps the format of its data in step; a keyboard holds exactly
the keys that are down; a host driver keeps one transfer pending per endpoint.

## 2. Modules

| Module | What it is | Code |
|---|---|---|
| `PsxDevice` | the PlayStation pad, the bus and the console's view of it | `controller_simulator.c` |
| `MCPsxDevice` | its instances for TLC | |
| `PsxDeviceProofs` | its invariants proved | |
| `ConfigStore` | abstract: what the configuration promises | |
| `FlashConfig` | the sector, its writers, boot, power cuts and the watchdog; implements `ConfigStore` | `pico_flash.c`, `utils.c`, `rndis.c`, `main.c` |
| `MCFlashConfig` | its instances | |
| `FlashConfigProofs` | its invariants and the refinement proved | |
| `WiimoteEmulator` | the emulated remote with its reply queue and the task that serves it | `wiimote.c`, `wm_reports.c`, `wiimote_btstack.c` |
| `MCWiimoteEmulator` | its instances | |
| `WiimoteEmulatorProofs` | its invariants proved | |
| `HidHost` | the callbacks of the USB host for HID and Xbox devices, and the keyboard decoder | `main.c`, `gamepad_parser.c`, `process_keyboard.c` |
| `MCHidHost` | its instance | |
| `HidHostProofs` | its invariants proved | |
| `XinputHost` | the driver for Xbox pads, with its mount that waits | `xinput_host.c`, `main.c` |
| `MCXinputHost` | its instance | |
| `XinputHostProofs` | its invariants proved | |
| `Conversion` | every pad read, the features, every emulated pad written, as tables and operators | `convert_data.c`, `gamepad_parser.c`, `hid_driver.c` |
| `MCConversion` | its instance | |
| `ConversionProofs` | its properties proved | |
| `HidParser` | the parser of report descriptors with its pools | `hidparser.c`, `gamepad_parser.c` |
| `Ps2Keyboard` | a keyboard, its line and the interrupt handler | `ps2kbd.c` |
| `JoybusHost` | a Nintendo 64 pad, the PIO program and the polling core | `n64_controller.c`, `joybus_controller.c` |
| `GcDevice` | the emulated GameCube pad and a console | `gamecube_device.c`, `joybus.pio` |
| `PsxHost` | a PlayStation pad as input: PIO, DMA, interrupt | `psx.c`, `clock.pio` |
| `BlueLink` | both ends of a Bluetooth link between converters and pads | `blue_hid.c`, `blue_host.c` |
| `WiiLink` | the link to a Wii and the report shared by two cores | `wiimote_btstack.c`, `convert_data.c` |
| `UsbReport` | the converter as a USB gamepad: pacing, endpoint, suspend | `main.c`, `xinput_driver.c`, `hid_driver.c` |
| `Links` | composition: which links `main` starts for a pair of modes, each from power-up | `main.c` |
| `LinksProofs`, `HidParserProofs` | invariants of the links and of the descriptor parser proved, as properties of the composition | |

Definitions whose comment begins with "Faulty:" are not part of a
specification. Each is the version of the following definition that a plausible
bug would leave, and shows that a property notices it.

### PsxDevice

Core 1 is a state machine over `RECV_CMD`: `pc` says where it blocks ("Addr" in
`psx_device_main`, "Cmd" in `process_joy_req`, "Data" in the handler `cmd` at
byte `i` of `len`). A `RECV_CMD` and the writes after it are one action, since
nobody but core 1 reads the statics; the `SEND` that follows is another (`owes`).
`rx` and `tx` are the two PIO FIFOs; `tx` only counts, since the bytes of a reply
are abstracted. The console is `Select`, `Clock`, `Deselect`: it clocks a byte of
a pad transaction when the pad has acknowledged, talks to memory cards on the
same bus, and may let go of SEL at any byte.

`Deselect` raises `irq`. `restart_pio_sm`, on core 0, is three actions in the order
of the code: the state machines are stopped and the bytes received cleared, the
bytes offered are drained, core 1 is reset. Core 1 runs between them, and may put a
byte in the drained FIFO just before it is reset: that stale byte goes out with the
address byte of the next exchange, which a console does not look at. `RepliesInStep`
says that this is all: from the address on, the byte that goes out is the one that
core 1 offered for the one that comes in. A *hasty* console lets SEL fall again
before core 0 is done (`late`); what it gets in that exchange may be anything, and
`RepliesInStep` begins again with the next one.

A console is a record of the bytes it sends (`Consoles`), so that one run has several
of them. `pollConfig` and `motorBytes` hold only what the code tests of them
(non-zero, not 0xFF). `torn` and `woken` are history variables: a 0x4F command was cut
short; a 0x01 among the bytes to a memory card was taken for the pad's address.

### FlashConfig

The sector is a record of the settings the code writes separately: host mode,
device mode, Bluetooth address, feature flag, alternative mode, "console saved"
and console address. `write_flash` is two steps, `flash_range_erase` (called by
the writer's action, which also fills the buffer) and `flash_range_program`;
between them only `PowerCut` and `WatchdogFires` can happen, because interrupts
are off and `flash_safe_execute` holds the other core. `main` reads and
sanitizes the modes and decides between the web page and the modes. `ram` is
what main read and what the program keeps using. `unsaved` is a history
variable: the last `flash_safe_execute` of `save_wii_addr` timed out.

`ImplementsStore` is the refinement: with the buffer of a write in progress read
in place of the erased sector, every step is one change of one group of settings
of `ConfigStore`, the loss of all of them, or a stutter. `/set_features` is one change
of two kinds there: with the features switched off it writes the flag alone, with
them on the alternative mode, too.

### WiimoteEmulator

`sys` is `wiimote_state_sys`; `process_report`, `generate_report`'s parts and
the report functions are operators from record to record with the names of the
code. `send_data` is one turn of the task: take over the extension the user
selected, execute what is in the buffer, count the extension port down, send the
head of the queue or a data report and leave it in the buffer. The queue holds
kinds of replies; a memory reply keeps its error code or 1 when it is encrypted,
a status report its extension bit. `push_packets` is how the two read functions
push at the end of the queue and fill from its head. `ConnectionOpened` and
`ConnectionClosed` are the two events of the link that touch this state: they
keep the queue, the reporting mode and the buffer, as the code does. `shown`,
`overlapped` and `unplugged` are history variables. LEDs, rumble, camera,
speaker, the EEPROM's contents, and the alternation of Motion Plus and
pass-through data are left out.

### HidHost

One action per callback; `tuh_task` runs a callback to its end before the next,
so there is nothing to interleave within one. `HOST` and `HID_HOST` are what the
last mount left in them, `info` is the device whose descriptor occupies the one
slot, `receiving` the interfaces whose next report was asked for. A device is an
interface; the interfaces of one unit come and go together. `process_kbd_report`
is translated with its statics. A hub brings in up to `DeviceMax`
units at once, of any kinds and in both host modes that run these callbacks. Since
`HOST`, `HID_HOST` and the slot are single, a device is read as itself only until
another one changes them. The history variables say when that is: `undisturbed` are
the interfaces after which none came that is read in another way, `orphaned` those
that were there while another HID device went, `desk` that a keyboard or mouse was
plugged in since boot; `pressed` and `typist` are the keys that are down, by
keyboard, and the keyboard that reported last.

### XinputHost

`open_endpoint`, `set_config`, the mount callback and `wait_for_tx_complete`: a
mount is a `task` that is resumed after each packet, and between two of its steps
any transfer of any pad may complete or fail and any pad may be unplugged,
because the wait runs `tuh_task`. An endpoint is claimed, busy or idle as in
`usbh_edpt_claim` and `usbh_edpt_xfer`. A packet may be refused, when its endpoint
cannot be claimed or its transfer not queued, and an accepted one may fail: the
mount, which ignores both, goes on to the next packet either way, and the LED of a
pad is lit only by a packet that arrived. `played`, `failed` and `refused` are history
variables: the pads a report of which was passed on, those with a failed or refused
transfer of reports, those to which a packet was refused or failed.

### Conversion

A pad is a table: for each byte of its packet, the inputs of its eight bits.
`Hosts` holds the tables `new_report_fun` reads with, `Devices` those it writes
with, and `Read`, `set_features` and `Write` are the three steps of it. The state
is what the user holds. The emulated PlayStation pad is seen by another converter as
the digital pad it is, because the host never asks for analog mode: a row of its own,
whose sticks rest. `set_deadzone` is done in whole numbers: the magnitude is the integer
root of the sum of squares, and what is beyond the zone is stretched over the whole range as in
the code. Axes keep their width: 16 bits in the common report, 8
bits in most packets, with the inversions and offsets of the code. A table read
past its end gives the constant `Garbage`. The loop over the features is a
recursive function. The reference definition is the
composition: what one converter writes, another one reads back.

### HidParser

One action per kind of item. `table` is the stack of state tables, `sizes` the
list of report IDs with the bits counted for each, `usages` the list of usages
not yet consumed, `parents` the collections by the place of their parent, `found`
the fields kept, each with the place of its item in the descriptor (their order does
not matter to the parser, so they are a set), and
`taken` counts the structures acquired from each pool and not given back. Every
way out of the parse is an action or a disjunct: end of data, each error, a pad
that is not one, and `free_HID_report_info`.

### Ps2Keyboard

The keyboard puts codes on `wire`, `kbd_irq` takes them off. The six keys are
one of each kind the handler tells apart: a bit in `lower` and a letter in `upper` (W), an
extended key, a bit in `lower` and 0 in `upper` (Left), no bit and a letter (Q), no bit and
a character that is a bit number (Esc; Tab and the F keys are others), a code beyond the
tables (F7), and Shift. `1 << n` with n above 31 sets nothing on this processor. What
is read beyond the tables is a pair of constants. `crossed` is a history variable: the bits
that were set when Shift changed and that no key has set or cleared since. The
self-test code 0xAA, which is beyond the tables too, is not sent by the model.

### JoybusHost, GcDevice

Both have a core and a PIO program that count bytes apart, which is what can go
wrong. In `JoybusHost` a request goes through `tx`; the program `pio` waits for as
many bytes as the request says, the core for `count` bytes with a time-out after
each. In `GcDevice` the console sends commands byte by byte and may break one off
anywhere; `core1` says which byte the core waits for, `part` where the program is.
`missed` and `cuts` count polls without an answer and broken commands.

### PsxHost

`Store` is the DMA, `Interrupt` its handler's start, and `Arm`, `Convert`,
`set_fast_switch_mode` and `SendCommand` its steps in the order of `dma_handler`. A
word carries the exchange it belongs to and whether the hotkeys are pressed in
it. It starts in the call that `psx_init` makes by hand.

### BlueLink, WiiLink

In `BlueLink` both ends are ours: a converter that is a pad (`connected`,
`asked`) and one that is a host (`hid_host_cid`, `first_time`, `info`), with pads of
other makers in between; each end learns of the link's opening and breaking by
events of its own, in either order. In `WiiLink` one core converts and changes
`mode`, `switch_mode`, `reset_ir`, the other one reads `mode` and clears
`reset_ir`; every access is a step. The HCI, HID and SDP events of
`wiimote_btstack.c` are the other actions. `lost` is a history variable.

### UsbReport

`sendReportData` is two steps, the conversion into the one report of the device
(`Report`) and the offer to the endpoint (`Offer`), and between them the USB stack
may take a suspend or a transfer. `spare` is `board_millis() - start_ms`. The call of
`tud_remote_wakeup` changes nothing: no configuration descriptor has the attribute
for it, so the computer never enables it and wakes up by itself (`Resume`) or not at
all.

### Links

Instantiates the eight link modules over one set of variables. `Init` chooses the
modes that `main` found in flash and one of the links it starts for them;
`Next` is the next-state relation of that link. Links of one board share no state
but the report that is converted and the hotkeys, so that watching one at a time
loses no behaviour of it. What they do share is in `Conversion`, `FlashConfig` and
(mode and `reset_ir`) `WiiLink`.

## 3. Runs

| Run | Question | Instance | Distinct states |
|---|---|---|---|
| `psx_device` | the pad under every command, aborted anywhere, with card traffic, and core 1 running while it is reset; does it get back to its address loop | three consoles: one with the commands 0x42, 43, 44, 45, 4F and an unknown one, arguments 0, 1, 3; one with the motors (0x4D); a hasty one with 0x43 and 0x4F and card bytes with 0x01; FIFO of 1, fairness | 1 448 632 |
| `flash` | all properties of the configuration, refinement included | modes 1, 6 (Wii), 8 (none), two addresses, symmetric | 156 000 |
| `flash_hotkeys` | violation: hotkeys before the reboot | as `flash` | |
| `flash_console` | violation: which saves are skipped | as `flash` | |
| `wii` | hotplug, Motion Plus, encryption, the buffer, reads, links; does the extension arrive | countdown 2, requests while at most 1 reply waits, reads of 0 to 3 packets, one reporting mode, fairness | 179 256 |
| `wii_blank` | violation: reads while replies wait | reads of 2 packets and status requests | |
| `hid` | which mode, type and descriptor a report is read with; keys; caps lock | 10 interfaces in 7 units: known, generic and Xbox pads, a keyboard with mouse and touch pad, another keyboard; any two of them on a hub, host modes XINPUT and DINPUT | 626 869 |
| `hid_keyboard` | violation: a pad after a keyboard | as `hid` | |
| `xinput` | endpoints, mounts, LEDs and wireless connection | two pads of any type, any packet or transfer refused or failed, one packet per receiver on its way, fairness | 97 414 |
| `conversion` | no button lost, axes and features right | all 12 pads, up to 3 inputs held, any hat, 6 stick positions, dead zones of 1, 20, 98, 99 and 100% | 19 967 |
| `links` | the ten properties of the eight links | descriptors of 6 items, both stacks of depth 2, 4 codes on the wire, 3 words instead of 9, 3 broken commands, fairness | 1 960 920 |
| `psx_host_boot` | violation: hotkeys at boot | 3 words | |

Why the bounds are enough. A pad handler looks at its byte at fixed indices and
tests it for 0, 1, 3 or 0xFF, so the arguments cover every branch; the commands are
split among consoles by the statics they share, the motors being read and written by
no other command; replies have their full lengths; a FIFO of one byte already lets
the console run ahead of core 1. The proofs remove these bounds. In `FlashConfig` three
mode bytes and 0xFF give every branch of `main`, two addresses every comparison;
addresses are symmetric. The countdown of 30 turns is scaled to 2: the code compares it only with 0. It may not be 1
(`HotplugAssumption`): then the turn that unplugs an extension would plug in the next. `MaxQueue`
bounds when the console sends a new request, not the queue: the replies to that
request and the reports of the extension port come on top. In `HidHost` and
`XinputHost` the hazards need two devices: at once, one after the other, or one during
the mount of another. In `Conversion` an error of a table shows with one input held
and a confusion of two with two; a third is there for the features. The dead zones are
the least, a moderate one, the last two below the whole range, and the whole range. Six
items of a descriptor are enough for two fields of one report after a PUSH and a
POP, and for every way out of the parse; the depth of the state stack is the one
of the code, the list of usages is scaled from 8 to 2 so that it overflows. Two codes make a
release, so four are a release behind a press. The DMA array is scaled from 9 to
3 words: all that matters is whether the first is read before the last is
written. `MaxCuts` allows the loose bits of one command to meet the next
twice over.

Fairness. `PsxDevice!FairSpec`: the console does not hold SEL low for ever (it
gives up without ACK after some hundred microseconds), core 0 takes its
interrupt, core 1 runs. `WiimoteEmulator!FairSpec`: the task's 1 ms timer runs
while the link is open. `XinputHost!LiveSpec`: a packet sent to a pad is taken or
the pad is unplugged, a polled receiver delivers what it has, the mount goes on
when its wait is over. `Links!Fairness`: the polling core, its PIO program and the
pad run; the Bluetooth stacks raise the event they were asked for and deliver
reports; milliseconds pass, and a computer that is awake polls; nothing wakes one
that sleeps. The console and the user are never assumed to do anything;
`ComputerCatchesUp` and `WirelessConnects` say in their premise what the user does.

Deadlock checking is off in `hid` and `hid_keyboard` only, whose model stops where the code
writes through a null pointer (`halted`).

`TypeOK` of `PsxDevice`, `FlashConfig`, `WiimoteEmulator`, `HidHost`, `XinputHost` and
`Conversion` is proved and not run; the types of the links are part of their inductive invariants.

## 4. What the code does not do

Violations found by a run of their own:

- **Hotkeys** (`flash_hotkeys`). The alternative mode that
  `swap_modes_in_flash` writes was read at boot, the device mode it keeps is
  read from flash. A second press within the 500 ms before the reboot leaves
  both bytes with the same mode; the other mode is lost. `SwapExchanges` is what
  does hold: a swap with no reboot due exchanges the two.
- **Console address** (`flash_console`). Whether to save is decided against the
  address read at boot. Pair with B (saved), then with A, the one known at
  boot: nothing is saved and the next boot calls B. `ConsoleRemembered` is what
  does hold.
- **Blank reports** (`wii_blank`). A memory read executed while replies wait
  overwrites them, so a status report or an acknowledgement may be lost and
  part of the read is never answered. `ReadsAreFilled` and `ConsoleIsTold` hold
  for a console that reads only after it has got its earlier replies; the turn
  in which an extension is plugged in puts a status report in the queue by
  itself, so such a console needs luck, too.
- **Pads after a keyboard** (`hid_keyboard`). A keyboard or mouse sets `HOST` to
  KEYBOARD, and the pad branch of the mount callback has its assignment commented
  out. From the first keyboard on, no pad but an Xbox pad is read in host mode DINPUT
  until the reboot, even when it is alone. `ReadAsItself` is what does hold.
- **Swap at boot** (`psx_host_boot`). The handler that `psx_init` calls by hand
  converts an array of zeros, in which every button of a PlayStation pad is
  pressed; with the feature enabled, the first exchange lets the hotkeys go and
  the modes are swapped at every start.

Found while stating a property, which holds with the case left out by name:

| Property | What is left out | What the code does there |
|---|---|---|
| `ReadAsItself` | a device after which one came that is read in another way (`undisturbed`); a pad after a keyboard (`desk`) | `HOST` and `HID_HOST` are single: the earlier device is read as the later one |
| `OwnDescriptor` | a generic pad that stays when another HID device goes (`orphaned`) | `tuh_hid_umount_cb` frees the one descriptor, whose ever it is |
| `SlotAvailable` | a second device to parse while the slot is taken | it is parsed into a null pointer |
| `CapsOncePerPress` | reports of two keyboards in turn (`typist`) | each is compared with the last report of the other: a held key counts again, a press may not count |
| `PlayedIsLit` | a receiver mounted without its pad (`"skipped"`); a pad to which a packet was refused or failed (`refused`) | nobody sets the LEDs when the pad is switched on; nobody repeats the packet |
| `EveryButtonCounts` | triangle of a PS3 pad (`Alike`) | it is read as cross |
| `Chained` | L3 and R3 of a PlayStation pad (`Lost`) | the host's table and the device's exchange them |
| `Chained` | opposite directions (`Opposed`) | the table of hats is read past its end |
| `Chained` | the sticks of the emulated PlayStation pad | the host never asks for analog mode, and a digital pad's sticks are read as centred |
| `RimIsFelt` | both axes at their lower ends (`Overflows`) | the sum of squares overflows an `int` |
| `RimIsFelt` | an 8-bit stick at its upper rim, 32512, with a dead zone of 99% | what is left of the range is stretched to 7168 only, below the threshold of the d-pad |
| `FieldsDisjoint` | fields after a POP that changes the report ID (`Stray`) | their bits are counted in another report |
| `PadIsRead` | a pad that is unplugged, or plugged in late | the program waits for its bytes for ever, then the core blocks |
| `ExtensionFollowsMode` | a change between the read of `mode` and the clearing of `reset_ir` (`lost`) | it is cleared unseen |
| `NothingStuck` | bits that were set when Shift changed (`crossed`) | press and release are different bits |
| `ComputerCatchesUp` | gamepads that report changes only | a dropped report is not sent again |
| `ComputerCatchesUp` | a computer that sleeps | `tud_remote_wakeup` does nothing: bmAttributes is 0x80 (XInputDescriptors.h:88, SwitchDescriptors.h:115, PS3_Descriptors.h:236) |

Seen and modelled, but contradicting nothing the repository says: a poll in
config mode announces 0xF3 and answers with the length of the mode below
(excepted in `ReplyLengthMatchesId`); a 0x4F command cut short leaves a new
`pollConfig` with the old mode (`torn`); a card payload byte 0x01 is taken as
the pad's address (`CardTrafficIgnored` holds up to the first one, `woken`); the release
of a PS/2 key without a mapping leaves `release` set, so that the press of the next key
counts as a release and is lost (`NothingStuck` is about bits that stay, not about bits
that are missing); a reconnected Wii
finds the queue and modes of the session before; a pad whose transfer fails once
is silent until it is plugged in again (`Streaming`); keys held when a keyboard is
unplugged are sent again with the next mouse report (main.c:661); the LED goes
off at any unplug, though another pad is read (main.c:648); core buttons held when
the nunchuk gives way to the classic controller stay in the shared report
(convert_data.c:525); `malloc` of a reply is not tested (wm_reports.c:13).

## 5. Proofs

Each proof module has its inductive invariant first, as a conjunction of named
parts, then lemmas about the operators of the model, one lemma per action (or per
group of actions that change the same variables), and the theorems last.

### PsxDevice

`PsxDeviceProofs` proves, for every set of command, argument and card bytes and
every FIFO depth, from the assumptions `ConsolesAssumption` and `RxAssumption` at
most:

| Theorem | Statement |
|---|---|
| `TypeCorrect` | `Spec => []TypeOK` |
| `ReplyLengthCorrect` | `Spec => []ReplyLengthMatchesId` |
| `PressureCorrect` | `Spec => []ModeMatchesPollConfig` |
| `InStepCorrect` | `Spec => []RepliesInStep` |
| `SetupCorrect` | `Spec => SetupChangesOnlyInConfig` |
| `CardCorrect` | `Spec => CardTrafficIgnored` |
| `NeverStrandedCorrect` | `Spec => []NeverStranded` |

The invariant `Inv` has six parts. `Typed` adds to the types that the index of a
handler is below the length of its reply. `HandlerInv`: a handler that needs
config mode runs with `config` set and a reply of seven bytes; nothing but
`processConfig` and the start of a poll write `config`, and neither is such a
handler. From it follows `SetupCorrect`, and it tells `PressureStep` that the
last byte of 0x4F is the one that sets the mode. `AnnounceInv`: between the
address and the command the announced ID is the one `config` and `mode` still
give. `BusInv` follows what is left of an exchange while core 0 clears it away: once the
state machines are stopped there is nothing to take, once the bytes offered are drained
at most one more is in the FIFO or on its way there, and after the reset core 1 is idle
with at most that stale byte; from an address that comes after it, core 1 follows the
console byte by byte (`RepliesInStep`). `CardInv`: during a card exchange without a 0x01
so far the FIFO holds none and core 1 stays in its address loop.
Each part has a lemma with a step per action.
`NeverStranded` follows from `BusInv`.

### FlashConfig

`FlashConfigProofs`, for every set of mode bytes and addresses, from
`ModeByteAssumption` (modes are bytes) and `AddrAssumption` (the erased address is no
address of a device):

| Theorem | Statement |
|---|---|
| `TypeCorrect` | `Spec => []TypeOK` |
| `RamCorrect` | `Spec => []RamMatchesFlash` |
| `ConsoleCorrect` | `Spec => []ConsoleRemembered` |
| `SwapCorrect` | `Spec => SwapExchanges` |
| `StoreImplemented` | `Spec => ImplementsStore`, the refinement of `ConfigStore` |

All five speak of `Current`, the configuration the next reader will find: the
buffer of the write in progress, or flash. `WriteInv`: the sector is erased while
a write is pending, and nothing is pending without power. `RamInv`: unless a reboot
is due, what main keeps matches `Current`; of the four writers only the save of a
console leaves the program running, and it writes the modes back as they are.
`ConsoleInv`: a console that had to be saved is the one in `Current`. For the
refinement each writer's first step is shown to be its step of the store and the
programming of the page a stutter; power cuts and the watchdog leave `Current` or
lose it whole.

### WiimoteEmulator

`WiimoteEmulatorProofs`, for every set of requests, reads of any length, any bound of the
queue and any countdown above one turn (`HotplugAssumption`; the code has 30):

| Theorem | Statement |
|---|---|
| `TypeCorrect` | `Spec => []TypeOK` |
| `FormatCorrect` | `Spec => []FormatMatchesExtension` |
| `ToldCorrect` | `Spec => []ConsoleIsTold` |
| `FilledCorrect` | `Spec => []ReadsAreFilled` |
| `OnceCorrect` | `Spec => ExecutedOnce` |
| `UnpluggedCorrect` | `Spec => UnpluggedLongEnough` |
| `OrderCorrect` | `Spec => RepliesInOrder` |
| `TurnsCorrect` | `Spec => EachTurnCounts` |

A turn of the task composes operators from record to record, so each operator has
a lemma that says what it keeps and what it adds to the queue; `SendStep` puts
them together. `Plugged`: an extension that is in is connected and has set the
format (unless the Motion Plus has), one that is out waits for a countdown not
below zero. `QueueInv`: the queue tells the present `extension_connected` and has
no blank report, until a read overlaps. It is kept because whatever switches the
connection pushes a status report behind all others, in the same handler.
`TimerInv`: the turns an extension has been out and the turns left add up to the
countdown. With a countdown of 1 the turn that unplugs would also plug in, and
`UnpluggedLongEnough` is false: the proof did not go through without the assumption.
`RepliesInOrder` says that the reply queue is one: each turn sends the first reply
that waits and moves the others up unaltered, unless it executes a read over them
(the finding of `wii_blank`), and no other step touches them. Each operator
is shown to leave the queue it finds in front of what it adds (`Behind`).

### HidHost

`HidHostProofs`, for any interfaces in any units, any number of units at once on a hub
and any set of keys, from `KindAssumption` and `DeviceAssumption`:

| Theorem | Statement |
|---|---|
| `TypeCorrect` | `Spec => []TypeOK` |
| `ReadingCorrect` | `Spec => []ReadAsItself` |
| `DescriptorCorrect` | `Spec => []OwnDescriptor` |
| `SlotCorrect` | `Spec => []SlotAvailable` |
| `KeysCorrect` | `Spec => []KeysSurviveMouse` |
| `CapsCorrect` | `Spec => CapsOncePerPress` |

`PortInv`: what is read is plugged in and has a descriptor. `SlotInv`: the slot holds a
mounted generic pad, if anything, and the pool runs out only for a second descriptor.
`HostInv`, `TypeInv`: what `HOST` and `HID_HOST` must still be for a device that no later
one overrules, and whose the slot is as long as no HID device goes; they are what makes
`ReadAsItself` inductive, since a report may come long after the mount that set the two.
`KeyInv`: the keys that are down on the keyboard that reported last are `prev`, and their
bits are in `current_keyboard_report`, which is what a mouse report is merged with.
`CapsCorrect` follows from the same part: between two reports of one keyboard `prev` is
what was down on it.

### XinputHost

`XinputHostProofs`, for any number of pads of any types on any receivers:

| Theorem | Statement |
|---|---|
| `TypeCorrect` | `Spec => []TypeOK` |
| `StreamingCorrect` | `Spec => []Streaming` |
| `FreedCorrect` | `Spec => []NothingLeftBehind` |
| `LitCorrect` | `Spec => []PlayedIsLit` |
| `MountBounded` | `Spec => MountGoesOn` |
| `PresenceCorrect` | `Spec => []PresenceKnown` |

`PadInv` divides the life of a pad in three: `Gone` (no transfer, no history),
`Unread` (in its mount, nothing asked for; once the LED packet is over, `Lighting`: it
arrived or the pad is in `refused`) and `Mounted` (a transfer pending unless one
failed, LEDs dealt with unless a packet to it failed). Only one pad is in its mount, and
the others move freely while it waits; each action is shown to take the pads it touches
from one part to the next and to leave the others in theirs. `NoneAssumption` says that
the value for "no mount" is not a mount.

### Links

About the composition, from `WordsAssumption` at most:

| Theorem | Module | Statement |
|---|---|---|
| `ExtensionCorrect` | `LinksProofs` | `Spec => []ExtensionFollowsMode` |
| `OneExchangeCorrect` | `LinksProofs` | `Spec => []OneExchange`, for any number of words |
| `DescriptorCorrect` | `LinksProofs` | `Spec => []OwnDescriptor`, for any number of reports in the air |
| `StuckCorrect` | `LinksProofs` | `Spec => []NothingStuck`, for any number of codes on the line |
| `CutsCorrect` | `LinksProofs` | `Spec => []CutsCostOnePoll`, for any number of broken commands |
| `ServedCorrect` | `LinksProofs` | `Spec => []Served`, for any number of reports in the air |
| `OlderCorrect` | `LinksProofs` | `Spec => NeverOlder`, for any bound of the time that is spare |
| `ReadCorrect` | `LinksProofs` | `Spec /\ []plugged => []ReadInOrder /\ NeverTimedOut`, for any depth of the FIFO |
| `FieldsCorrect` | `HidParserProofs` | `Spec => []FieldsDisjoint`, for descriptors of any length and stacks of any depth |
| `PoolsCorrect` | `HidParserProofs` | `Spec => []PoolsBalance`, likewise |

A step of another link leaves the variables of a link alone (`...StepOfAny`), so
that each invariant has to be kept by the steps of its own link only. `WiiInv`:
`reset_ir` stays set between the read of the mode and its clearing, and with it
clear the extension can be behind the mode only while the other core is about to
set it, or when `lost`. `PsxInv`: the PIO runs an exchange only outside the
handler, and the handler finds all words of one exchange in the array. `GcInv`:
either core 1 is in step with the console (`InStep`) or a cut is still unpaid,
`missed < cuts`. What makes it inductive is `PollEnds`: the three bytes of a
poll take core 1 to a restart of the program wherever it was (`Before`), and what
is left of the poll afterwards cannot begin another one (`After`); so when the
console gives up on a poll, core 1 is in step again, and the cut is paid.

`BlueInv`: the parsed descriptor is the one of `hid_host_cid` (`ParsedInv`), the host
has a cid only between its own events of the link (`CidInv`), and whatever is in the air
is from the peer of that link (`AirInv`); the two ends may learn of a break in either
order, which is why the air is spoken of by the link and not by the host's cid.
`Ps2Inv`: a bit of the report that was not set when Shift changed belongs to a key that
is held or has a code on the line (`BitInv`; whatever the tables say, no key sets bit 31),
and the last code on the line of a key that is not held is one that lifts it
(`LineInv`); reading a code takes it off the line and, if it was the last one, its bit
with it. A key held for long repeats its code, so that one key may have many
codes on the line.

`InTurn`, for the Nintendo 64 pad, says that the core, the PIO program and the pad
agree although each counts the bytes by itself: what the core has taken, what is in
the FIFO and what the program still waits for make up the answer (`Underway`), and
the pad has yet to send all that is waited for. So a wait always ends with a byte,
and the two bytes of the identity that nobody asked for are gone before the
next request. It is inductive as long as the pad is plugged in, which is why the
theorem has the premise of `PadIsRead`.

The parser's `ParserInv`: each structure acquired is in a list (`PoolInv`); the list of
collections is the path to the current one, each the parent of the next (`PathInv`), so
that leaving one gives back exactly the last; there is one count per report ID and none
without an ID after the first (`CountInv`); and a field lies within the bits counted for
the report it was counted in (`FieldInv`), so that the next field of that report begins
behind it. `CountInv` is what excludes that two counts of one ID start at 0.

### Conversion

`ConversionProofs`, for any number of inputs held, any positions of the sticks and
triggers, any dead zone and any value read past the end of a table:

| Theorem | Statement |
|---|---|
| `TypeCorrect` | `Spec => []TypeOK` |
| `ChainedCorrect` | `Spec => []Chained` |
| `ButtonsCorrect` | `Spec => EveryButtonCounts` |
| `RimCorrect` | `Spec => []RimIsFelt` |

`StickAssumption` (positions are of 16 bits) is used by `TypeCorrect`, and
`ZonesAssumption` (a dead zone is a number from 0 to 127) by `RimCorrect`. The
invariant is the types alone, because the state is only what is held; the
proofs are about the operators.

The tables enter by what is needed of them, each shown table by table: what is looked
at is a button or a trigger, and a hat has no directions on bits beside it
(`HostNames`); no two inputs of a pad read alike, but for the triangle of PS3
(`HostsTellApart`); each bit an emulated pad sends arrives where the pad it is seen as
has that input (`BitsArrive`), and each input it has is on a bit (`BitsSuffice`).

`ButtonsCorrect` needs the first two: what the report says of an input is its bit
in the packet, whatever else is held (`ReportTells`). `ChainedCorrect` follows a report
from one converter to the other: its bits (`RelaidFacts`, `NamesArrive`), the hat
(`HatArrives`) and the axes with their inversion, offset and loss of the low byte
(`AxisArrives`); the sticks of the digital PlayStation pad rest. `RimCorrect` is
arithmetic: an integer root exists (`RootExists`, by the well-ordering of the numbers) and is no
shorter than either axis, up to 32767 (`MagnitudeFacts`); at the rim it is outside every zone below
100% and stretched beyond half the range (`RimStretches`), so that one of the axes is
beyond the threshold of the d-pad (`ScaledPoints`, `RimMoves`).

### What liveness rests on

A liveness property holds because of a safety property and of fairness. The second
step is out of the prover's reach; the first one is proved for each of the seven, for
every value of the constants, so that only the appeal to fairness rests
on the instance of a run. Each was checked on that instance before it was proved.

| Liveness | Theorem | What is proved |
|---|---|---|
| `TransactionEnds` | `NeverStrandedCorrect` | core 1 is busy only while SEL is held or the interrupt is pending |
| `ExtensionArrives` | `TurnsCorrect` | `TurnsLeft` is smaller after each turn until the extension is in |
| `MountEnds` | `MountBounded` | `PacketsLeft` is smaller after each packet, whatever is unplugged |
| `WirelessConnects` | `PresenceCorrect` | the last connection packet on its way, or `connected`, tells whether the pad is on |
| `PadIsRead` | `ReadCorrect` | core, program and pad stay in step, so that a wait ends with a byte |
| `Flows` | `ServedCorrect` | once the link is up neither end waits for the other |
| `ComputerCatchesUp` | `OlderCorrect` | `Lag`, the stages between user and computer, never grows |

### What the proofs found

Attempts that failed for a good reason changed the models:

- `ConfigStore!SetFeatures` drew the flag of the features from the mode bytes: it
  allowed values the code never writes and, where 1 is no mode byte, not the one it
  does write. On the instance of `flash` the two agree.
- `UnpluggedLongEnough` needs a countdown above 1 (see above).
- Two `CASE` expressions of `WiimoteEmulator` had guards that overlap, of which TLA+
  takes any one: the order in which the code tests them is now explicit.
- The fields of a descriptor are a set: a sequence added an order no property needs.
- `set_features` of `Conversion` was a fold and the tables were chosen by operators;
  nothing can be proved of the one by the steps of the loop, nor of the other
  without going through all of them. They are a recursive function and functions now.
- `TurnsLeft` without a term for the Motion Plus is no measure: stopping it sets
  `extension_connected` while nothing is plugged in, and the next turn unplugs the
  missing extension and starts the countdown again. It can happen once for each start.

### Only model-checked

The seven liveness properties (`TransactionEnds`, `ExtensionArrives`, `MountEnds`,
`WirelessConnects`, `PadIsRead`, `Flows`, `ComputerCatchesUp`): liveness under fairness is
out of the prover's reach. The properties of the violation runs are false. All other
properties of the passing runs are theorems.

## 6. Plan

All parts of the control logic have a model, and all safety properties a proof. What
is left:

1. A pad contract that `PsxDevice` implements: a store of the set-up and one answer for
   each request.
2. The reports shared by two cores byte by byte (`inputState`, the Wii report).

### Not modelled

- PIO programs cycle by cycle; what they do to words and bytes is in the modules
  of their components.
- The USB, Bluetooth, HTTP and lwIP libraries. What the code uses of them is
  external in `map`.
- `hcd_pio_usb.c` and `usb_descriptors.c`: the first is an adapted third-party
  driver, the second holds constants. `packed_fs.c` is generated from the web page.
- The cryptography, motion arithmetic and SDP record of the Wii remote
  (`wm_crypto.c`, `motion.c`, `sdp_consts.h`): floating point and constant tables without
  control.
- The scaling of mouse, keyboard and N64 axes in floating point; it is abstracted to
  which positions stay zero and which do not. The dead zone is in whole numbers, which may
  differ from the floating-point result by rounding.
- Contents of replies and reports outside `Conversion`, the heap, LEDs, pins.
