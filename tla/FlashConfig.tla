---------------------------- MODULE FlashConfig ----------------------------
(***************************************************************************)
(* The configuration sector in flash and everything that reads or writes   *)
(* it: main at boot, the web page (rndis.c), the hotkeys that exchange the *)
(* device mode with the alternative one (convert_data.c, utils.c), and the *)
(* Wii link that remembers the console it is paired with                   *)
(* (wiimote_btstack.c).                                                    *)
(*                                                                         *)
(* Every writer copies the sector to RAM, changes some bytes, erases the   *)
(* sector and programs the copy; nothing else runs in between, since       *)
(* interrupts are off and flash_safe_execute holds the other core, but the *)
(* power may fail and a watchdog armed earlier may fire.  Programmed       *)
(* values take effect at the next boot: the running program keeps the      *)
(* copies it read.                                                         *)
(***************************************************************************)
EXTENDS Integers

CONSTANTS
  ModeByte,    \* bytes the web page may send for a mode
  Addr,        \* Bluetooth addresses
  ErasedAddr   \* FF:FF:FF:FF:FF:FF

ASSUME ModeByteAssumption == ModeByte \subseteq 0..255

ASSUME AddrAssumption == ErasedAddr \notin Addr

WII == 6

Erased == 255

Blank == [host |-> Erased, device |-> Erased, bt |-> ErasedAddr,
          set |-> Erased, alt |-> Erased, wiiset |-> Erased, wii |-> ErasedAddr]

Idle == [kind |-> "none", buf |-> Blank]

\* RAM before main has read the sector.
Cleared == [host |-> 0, device |-> 0, set |-> 0, alt |-> 0,
            saved |-> FALSE, wii |-> ErasedAddr]

VARIABLES
  flash,      \* the configuration sector
  pending,    \* the buffer of a write whose erase is done, or Idle
  watchdog,   \* is a reboot scheduled (watchdog_reboot)?
  power,      \* "off" (or in reset), "run" (modes of main), "web" (rndis)
  ram,        \* what main read at boot: HOST, DEVICE, features, console_info
  pressed,    \* pressed_hotkeys of set_fast_switch_mode
  wii_baddr,  \* address of the console being paired or connected
  connected,  \* hid_cid # 0
  unsaved     \* history: the last save_wii_addr timed out

vars == <<flash, pending, watchdog, power, ram, pressed, wii_baddr, connected,
          unsaved>>

Init ==
  /\ flash = Blank
  /\ pending = Idle
  /\ watchdog = FALSE
  /\ power = "off"
  /\ ram = Cleared
  /\ pressed = FALSE
  /\ wii_baddr = ErasedAddr
  /\ connected = FALSE
  /\ unsaved = FALSE

-----------------------------------------------------------------------------
(* Boot and loss of power.                                                 *)

\* Faulty: the bound is one too large.
SanitizedOffByOne(v, last) == IF v > last + 1 THEN 0 ELSE v

Sanitized(v, last) == IF v > last THEN 0 ELSE v

\* main: modes out of range become 0, so does an impossible feature flag.
\* The console is read for the Wii link only, which starts by connecting to it.
main(bootsel) ==
  /\ power = "off"
  /\ power' = IF bootsel THEN "web" ELSE "run"
  /\ ram' = [host   |-> Sanitized(flash.host, 8),
             device |-> Sanitized(flash.device, 7),
             set    |-> Sanitized(flash.set, 1),
             alt    |-> flash.alt,
             saved  |-> flash.device = WII /\ flash.wiiset # 0,
             wii    |-> IF flash.device = WII THEN flash.wii ELSE Cleared.wii]
  /\ wii_baddr' = ram'.wii
  /\ UNCHANGED <<flash, pending, watchdog, pressed, connected, unsaved>>

\* Everything in RAM is gone, the write in progress included.
Reset ==
  /\ power' = "off"
  /\ pending' = Idle
  /\ watchdog' = FALSE
  /\ pressed' = FALSE
  /\ connected' = FALSE
  /\ unsaved' = FALSE
  /\ wii_baddr' = ErasedAddr
  /\ ram' = Cleared
  /\ UNCHANGED flash

PowerCut == power # "off" /\ Reset

\* 500 ms after a swap, 2 s after a change by the web page.
WatchdogFires == watchdog /\ Reset

-----------------------------------------------------------------------------
(* write_flash.                                                            *)

flash_range_erase(kind, buffer) ==
  /\ flash' = Blank
  /\ pending' = [kind |-> kind, buf |-> buffer]

\* Faulty: a swap does not reboot.
ProgramWithoutReboot ==
  /\ pending # Idle
  /\ flash' = pending.buf
  /\ pending' = Idle
  /\ watchdog' = (watchdog \/ pending.kind \notin {"wii", "swap"})
  /\ UNCHANGED <<power, ram, pressed, wii_baddr, connected, unsaved>>

\* flash_range_program, and watchdog_reboot in the writers that call it.
flash_range_program ==
  /\ pending # Idle
  /\ flash' = pending.buf
  /\ pending' = Idle
  /\ watchdog' = (watchdog \/ pending.kind # "wii")
  /\ UNCHANGED <<power, ram, pressed, wii_baddr, connected, unsaved>>

Running(p) == power = p /\ pending = Idle

-----------------------------------------------------------------------------
(* The web page.  The handlers stay in service until the watchdog fires.   *)

\* Only a long body carries the address of a Bluetooth pad.
set_mode(h, d, a) ==
  /\ Running("web")
  /\ flash_range_erase("mode", [flash EXCEPT !.host = h, !.device = d, !.bt = a])
  /\ UNCHANGED <<watchdog, power, ram, pressed, wii_baddr, connected, unsaved>>

\* A zero first byte switches the features off and leaves their data; the
\* page sends 0 or 1.
set_features(s, a) ==
  /\ Running("web")
  /\ flash_range_erase("features", IF s = 0
                                     THEN [flash EXCEPT !.set = 0]
                                     ELSE [flash EXCEPT !.set = s, !.alt = a])
  /\ UNCHANGED <<watchdog, power, ram, pressed, wii_baddr, connected, unsaved>>

-----------------------------------------------------------------------------
(* The hotkeys.                                                            *)

\* Faulty: the device mode read at boot, not the one in flash, is kept.
SwapFromRam == [flash EXCEPT !.alt = ram.device, !.device = ram.alt]

\* The buffer that swap_modes_in_flash writes.
SwappedModes == [flash EXCEPT !.alt = flash.device, !.device = ram.alt]

\* set_fast_switch_mode on a report in which the hotkeys are (held) or are
\* not all pressed; flash_safe_execute may time out, which is not noticed.
set_fast_switch_mode(held, timeout) ==
  /\ Running("run")
  /\ ram.set = 1
  /\ pressed' = held
  /\ IF ~held /\ pressed /\ ~timeout
       THEN flash_range_erase("swap", SwappedModes)
       ELSE UNCHANGED <<flash, pending>>
  /\ UNCHANGED <<watchdog, power, ram, wii_baddr, connected, unsaved>>

-----------------------------------------------------------------------------
(* The Wii link.                                                           *)

OnWii == Running("run") /\ ram.device = WII

\* HCI_EVENT_PIN_CODE_REQUEST: a console is pairing.
PinCodeRequest(a) ==
  /\ OnWii
  /\ ~connected
  /\ wii_baddr' = a
  /\ UNCHANGED <<flash, pending, watchdog, power, ram, pressed, connected, unsaved>>

\* Faulty: the test of wii_addr_saved alone.
SaveUnlessSaved == ~ram.saved

MustSave == wii_baddr # ram.wii \/ ~ram.saved

\* Faulty: the buffer is not first filled from flash.
ConsoleOnly == [Blank EXCEPT !.wiiset = 1, !.wii = wii_baddr]

\* The buffer that save_wii_addr writes.
SavedConsole == [flash EXCEPT !.wiiset = 1, !.wii = wii_baddr]

\* HID_SUBEVENT_CONNECTION_OPENED with success.  The copy in RAM keeps the
\* address read at boot.
ConnectionOpened(timeout) ==
  /\ OnWii
  /\ ~connected
  /\ connected' = TRUE
  /\ unsaved' = (MustSave /\ timeout)
  /\ IF MustSave /\ ~timeout
       THEN flash_range_erase("wii", SavedConsole)
       ELSE UNCHANGED <<flash, pending>>
  /\ UNCHANGED <<watchdog, power, ram, pressed, wii_baddr>>

\* The same event with status 0x66: the console has forgotten the pairing.
AuthenticationFailed ==
  /\ OnWii
  /\ ~connected
  /\ ram' = [ram EXCEPT !.saved = FALSE]
  /\ UNCHANGED <<flash, pending, watchdog, power, pressed, wii_baddr, connected, unsaved>>

ConnectionClosed ==
  /\ OnWii
  /\ connected
  /\ connected' = FALSE
  /\ UNCHANGED <<flash, pending, watchdog, power, ram, pressed, wii_baddr, unsaved>>

-----------------------------------------------------------------------------
Next ==
  \/ \E b \in BOOLEAN : main(b)
  \/ PowerCut
  \/ WatchdogFires
  \/ flash_range_program
  \/ \E h, d \in ModeByte, a \in Addr \cup {flash.bt} : set_mode(h, d, a)
  \/ \E s \in {0, 1}, a \in ModeByte : set_features(s, a)
  \/ \E held, timeout \in BOOLEAN : set_fast_switch_mode(held, timeout)
  \/ \E a \in Addr : PinCodeRequest(a)
  \/ \E timeout \in BOOLEAN : ConnectionOpened(timeout)
  \/ AuthenticationFailed
  \/ ConnectionClosed

Spec == Init /\ [][Next]_vars

-----------------------------------------------------------------------------
Byte == ModeByte \cup {0, Erased}

Config == [host : Byte, device : Byte, bt : Addr \cup {ErasedAddr},
           set : {0, 1, Erased}, alt : Byte,
           wiiset : {1, Erased}, wii : Addr \cup {ErasedAddr}]

TypeOK ==
  /\ flash \in Config
  /\ pending \in [kind : {"none", "mode", "features", "swap", "wii"}, buf : Config]
  /\ watchdog \in BOOLEAN
  /\ power \in {"off", "run", "web"}
  /\ ram \in [host : 0..8, device : 0..7, set : 0..1, alt : Byte,
              saved : BOOLEAN, wii : Addr \cup {ErasedAddr}]
  /\ pressed \in BOOLEAN
  /\ wii_baddr \in Addr \cup {ErasedAddr}
  /\ connected \in BOOLEAN
  /\ unsaved \in BOOLEAN

\* Read through the write in progress, the sector changes one group of
\* settings at a time and leaves the others alone, or is lost as a whole: the
\* buffer each writer fills from flash is complete and still current when it
\* is programmed, whichever writer, reset or power cut came before.
Store == INSTANCE ConfigStore
           WITH cfg <- (IF pending = Idle THEN flash ELSE pending.buf),
                ModeByte <- Byte

ImplementsStore == Store!Spec

\* A swap started while no reboot is due exchanges the two modes in flash:
\* the alternative mode it writes comes from RAM and the device mode it keeps
\* from flash, two copies of different age, of which one is sanitized.
SwapExchanges ==
  [][pending = Idle /\ pending'.kind = "swap" /\ ~watchdog
       => /\ pending'.buf.device = flash.alt
          /\ pending'.buf.alt = flash.device]_vars

\* The same without the condition: "Change between two modes using only the
\* gamepad".  The hotkeys still work during the 500 ms before the reboot, and
\* a second press then writes the alternative mode of the first boot again,
\* over the device mode that the first press had stored.
HotkeysAlwaysExchange ==
  [][pending = Idle /\ pending'.kind = "swap"
       => /\ pending'.buf.device = flash.alt
          /\ pending'.buf.alt = flash.device]_vars

\* The console a link was opened with is the one in flash, unless its save
\* timed out or it is the one remembered at boot.
ConsoleRemembered ==
  connected /\ pending = Idle /\ ~unsaved /\ (wii_baddr # ram.wii \/ ~ram.saved)
    => flash.wii = wii_baddr

\* "Only save the addr if they are different or If the authentications
\* failed": when the save is skipped, flash holds the address already.  The
\* code compares with the address read at boot, which save_wii_addr does not
\* bring up to date.
SkippedSaveIsRedundant ==
  connected /\ pending = Idle /\ ~unsaved => flash.wii = wii_baddr

\* Until a reboot is due, the program runs on what flash holds; a byte that is
\* no mode, of an erased or older sector, runs as mode 0 (main.c:257).
RamMatchesFlash ==
  power = "run" /\ pending = Idle /\ ~watchdog
    => /\ ram.alt = flash.alt
       /\ ram.host \in 0..8 /\ ram.device \in 0..7
       /\ ram.host = flash.host \/ (flash.host > 8 /\ ram.host = 0)
       /\ ram.device = flash.device \/ (flash.device > 7 /\ ram.device = 0)
=============================================================================
