------------------------- MODULE FlashConfigProofs -------------------------
(***************************************************************************)
(* Proofs about FlashConfig, for every set of mode bytes and addresses:    *)
(* the types, that the program runs on what flash holds and remembers its  *)
(* console, that a swap exchanges the modes, and that the erase and the    *)
(* write of the sector together implement ConfigStore.                     *)
(***************************************************************************)
EXTENDS FlashConfig, TLAPS

\* The configuration as the next reader finds it: what is being written, or
\* what is there.
Current == IF pending = Idle THEN flash ELSE pending.buf

\* A write is in progress exactly when its buffer is kept, over a sector that
\* is erased; without power there is no write or reboot, and no link either
\* unless the modes run.
WriteInv ==
  /\ pending.kind = "none" <=> pending = Idle
  /\ pending # Idle => flash = Blank
  /\ power = "off" => pending = Idle /\ ~watchdog
  /\ connected => power = "run"

\* The values of RAM that main read from the configuration c.
Matches(c) ==
  /\ ram.alt = c.alt
  /\ ram.host = c.host \/ (c.host > 8 /\ ram.host = 0)
  /\ ram.device = c.device \/ (c.device > 7 /\ ram.device = 0)

\* Only the save of a console leaves the program running on what it read, and
\* it writes the modes back as they are.
RamInv ==
  power = "run" /\ ~watchdog /\ pending.kind \in {"none", "wii"} => Matches(Current)

\* A console that had to be saved is the one that is, or is being, written.
ConsoleInv ==
  connected /\ ~unsaved /\ MustSave => Current.wii = wii_baddr

Inv == TypeOK /\ WriteInv /\ RamInv /\ ConsoleInv

-----------------------------------------------------------------------------
(* The operators.                                                          *)

\* The configuration of an erased sector is one, and so is every copy of a
\* configuration with legal values in it.
LEMMA BlankIsConfig == Blank \in Config
BY DEF Blank, Config, Byte, Erased

\* Nothing is being written when the program has just started.
LEMMA IdleFacts ==
  /\ Idle.kind = "none" /\ Idle.buf = Blank
  /\ Idle \in [kind : {"none", "mode", "features", "swap", "wii"}, buf : Config]
BY BlankIsConfig DEF Idle

\* So is the RAM before main.
LEMMA ClearedIsRam ==
  Cleared \in [host : 0..8, device : 0..7, set : 0..1, alt : Byte,
               saved : BOOLEAN, wii : Addr \cup {ErasedAddr}]
BY DEF Cleared, Byte

\* What main makes of a byte is a mode, and the byte itself unless it is none.
LEMMA SanitizedIsMode ==
  ASSUME NEW v \in 0..255, NEW last \in {1, 7, 8}
  PROVE  /\ Sanitized(v, last) \in 0..last
         /\ Sanitized(v, last) = v \/ (v > last /\ Sanitized(v, last) = 0)
BY DEF Sanitized

\* Every byte of a configuration is a byte.
LEMMA BytesAreBytes ==
  ASSUME NEW c \in Config
  PROVE  c.host \in 0..255 /\ c.device \in 0..255 /\ c.set \in 0..255
<1>1. \A b \in Byte : b \in 0..255
  BY ModeByteAssumption DEF Byte, Erased
<1>2. c.host \in Byte /\ c.device \in Byte /\ c.set \in {0, 1, 255}
  BY DEF Config, Erased
<1> QED
  BY <1>1, <1>2

\* The start of a write, of any kind, over an idle sector.
LEMMA EraseFacts ==
  ASSUME NEW kind \in {"mode", "features", "swap", "wii"}, NEW buffer \in Config,
         flash_range_erase(kind, buffer)
  PROVE  /\ flash' = Blank /\ flash' \in Config
         /\ pending' \in [kind : {"none", "mode", "features", "swap", "wii"}, buf : Config]
         /\ pending'.kind = kind /\ pending'.buf = buffer
         /\ pending' # Idle'
         /\ Current' = buffer
BY BlankIsConfig, IdleFacts DEF flash_range_erase, Current, Idle
-----------------------------------------------------------------------------
(* The steps.                                                              *)

LEMMA Initial == Init => Inv
<1> SUFFICES ASSUME Init PROVE Inv
  OBVIOUS
<1>1. TypeOK
  BY BlankIsConfig, IdleFacts, ClearedIsRam DEF Init, TypeOK
<1> QED
  BY <1>1 DEF Init, Inv, WriteInv, RamInv, ConsoleInv, Idle

\* main reads a sector in which nothing is being written.
LEMMA BootStep ==
  ASSUME Inv, NEW bootsel \in BOOLEAN, main(bootsel)
  PROVE  Inv'
<1> USE DEF Inv
<1>1. flash \in Config /\ pending = Idle /\ ~connected
  BY DEF TypeOK, WriteInv, main
<1>2. /\ ram'.host \in 0..8 /\ (ram'.host = flash.host \/ (flash.host > 8 /\ ram'.host = 0))
      /\ ram'.device \in 0..7
      /\ ram'.device = flash.device \/ (flash.device > 7 /\ ram'.device = 0)
      /\ ram'.set \in 0..1
  BY <1>1, BytesAreBytes, SanitizedIsMode DEF main
<1>3. ram'.alt = flash.alt /\ flash.alt \in Byte
  BY <1>1 DEF main, Config
<1>4. TypeOK'
  <2>1. flash.wii \in Addr \cup {ErasedAddr} /\ Cleared.wii = ErasedAddr
    BY <1>1 DEF Config, Cleared
  <2>2. ram'.wii \in Addr \cup {ErasedAddr} /\ ram'.saved \in BOOLEAN
    BY <2>1 DEF main
  <2>3. ram' \in [host : 0..8, device : 0..7, set : 0..1, alt : Byte,
                  saved : BOOLEAN, wii : Addr \cup {ErasedAddr}]
    BY <1>2, <1>3, <2>2 DEF main
  <2> QED
    BY <2>2, <2>3 DEF TypeOK, main
<1>5. WriteInv'
  BY DEF WriteInv, main
<1>6. RamInv'
  BY <1>1, <1>2, <1>3 DEF RamInv, Matches, Current, main
<1>7. ConsoleInv'
  BY <1>1 DEF ConsoleInv, main
<1> QED
  BY <1>4, <1>5, <1>6, <1>7

\* After a reset nothing runs.
LEMMA ResetStep ==
  ASSUME Inv, Reset
  PROVE  Inv'
<1> USE DEF Inv
<1>1. TypeOK'
  BY IdleFacts, ClearedIsRam DEF TypeOK, Reset
<1>2. WriteInv' /\ RamInv' /\ ConsoleInv'
  BY DEF WriteInv, RamInv, ConsoleInv, Reset, Idle
<1> QED
  BY <1>1, <1>2

\* The buffer becomes the sector: a reader finds the same configuration.
LEMMA ProgramStep ==
  ASSUME Inv, flash_range_program
  PROVE  Inv' /\ Current' = Current
<1> USE DEF Inv
<1>1. Current' = Current
  BY DEF Current, flash_range_program, Idle
<1>2. TypeOK'
  BY IdleFacts DEF TypeOK, flash_range_program
<1>3. WriteInv'
  BY DEF WriteInv, flash_range_program, Idle
<1>4. RamInv'
  BY <1>1 DEF RamInv, Matches, WriteInv, flash_range_program
<1>5. ConsoleInv'
  BY <1>1 DEF ConsoleInv, MustSave, flash_range_program
<1> QED
  BY <1>1, <1>2, <1>3, <1>4, <1>5
\* The handlers of the web page, which have no link to keep.
LEMMA WebStep ==
  ASSUME Inv, NEW kind \in {"mode", "features"}, NEW buffer \in Config,
         Running("web"), flash_range_erase(kind, buffer),
         UNCHANGED <<watchdog, power, ram, pressed, wii_baddr, connected, unsaved>>
  PROVE  Inv'
<1> USE EraseFacts DEF Inv
<1>1. TypeOK' /\ WriteInv'
  BY DEF TypeOK, WriteInv, Running
<1>2. RamInv' /\ ConsoleInv'
  BY DEF RamInv, ConsoleInv, WriteInv, Running
<1> QED
  BY <1>1, <1>2

\* The buffers the four writers fill are configurations.
LEMMA Buffers ==
  ASSUME TypeOK
  PROVE  /\ \A h, d \in ModeByte, a \in Addr \cup {flash.bt} :
              [flash EXCEPT !.host = h, !.device = d, !.bt = a] \in Config
         /\ [flash EXCEPT !.set = 0] \in Config
         /\ \A s \in {0, 1}, a \in ModeByte : [flash EXCEPT !.set = s, !.alt = a] \in Config
         /\ SwappedModes \in Config
         /\ SavedConsole \in Config
BY DEF TypeOK, Config, Byte, SwappedModes, SavedConsole

LEMMA SetModeStep ==
  ASSUME Inv, NEW h \in ModeByte, NEW d \in ModeByte, NEW a \in Addr \cup {flash.bt},
         set_mode(h, d, a)
  PROVE  Inv'
<1>1. [flash EXCEPT !.host = h, !.device = d, !.bt = a] \in Config
  BY Buffers DEF Inv
<1> QED
  BY <1>1, WebStep DEF set_mode

LEMMA SetFeaturesStep ==
  ASSUME Inv, NEW s \in {0, 1}, NEW a \in ModeByte, set_features(s, a)
  PROVE  Inv'
<1>1. (IF s = 0 THEN [flash EXCEPT !.set = 0]
                ELSE [flash EXCEPT !.set = s, !.alt = a]) \in Config
  BY Buffers DEF Inv
<1> QED
  BY <1>1, WebStep DEF set_features

\* A swap leaves the console alone; the program no longer matches the modes,
\* and will be rebooted.
LEMMA HotkeyStep ==
  ASSUME Inv, NEW held \in BOOLEAN, NEW timeout \in BOOLEAN,
         set_fast_switch_mode(held, timeout)
  PROVE  Inv'
<1> USE DEF Inv
<1>1. CASE ~held /\ pressed /\ ~timeout
  <2>1. SwappedModes \in Config /\ SwappedModes.wii = flash.wii
    BY Buffers DEF TypeOK, Config, SwappedModes
  <2>2. flash_range_erase("swap", SwappedModes) /\ Current = flash
    BY <1>1 DEF set_fast_switch_mode, Running, Current
  <2>3. TypeOK' /\ WriteInv'
    BY <2>1, <2>2, EraseFacts DEF TypeOK, WriteInv, set_fast_switch_mode, Running
  <2>4. RamInv'
    BY <2>1, <2>2, EraseFacts DEF RamInv
  <2>5. ConsoleInv'
    BY <2>1, <2>2, EraseFacts DEF ConsoleInv, MustSave, set_fast_switch_mode
  <2> QED
    BY <2>3, <2>4, <2>5
<1>2. CASE ~(~held /\ pressed /\ ~timeout)
  <2>1. TypeOK'
    BY <1>2 DEF TypeOK, set_fast_switch_mode
  <2>2. WriteInv' /\ RamInv' /\ ConsoleInv'
    BY <1>2 DEF WriteInv, RamInv, Matches, ConsoleInv, MustSave, Current,
                set_fast_switch_mode
  <2> QED
    BY <2>1, <2>2
<1> QED
  BY <1>1, <1>2

\* Opening a link: the console is saved, with the modes as they are, or is
\* the one flash holds, or the save times out.
LEMMA OpenedStep ==
  ASSUME Inv, NEW timeout \in BOOLEAN, ConnectionOpened(timeout)
  PROVE  Inv'
<1> USE DEF Inv
<1>1. CASE MustSave /\ ~timeout
  <2>1. /\ SavedConsole \in Config /\ SavedConsole.wii = wii_baddr
        /\ SavedConsole.host = flash.host /\ SavedConsole.device = flash.device
        /\ SavedConsole.alt = flash.alt
    BY Buffers DEF TypeOK, Config, SavedConsole
  <2>2. flash_range_erase("wii", SavedConsole) /\ Current = flash /\ pending = Idle
    BY <1>1 DEF ConnectionOpened, OnWii, Running, Current
  <2>3. TypeOK' /\ WriteInv'
    BY <2>1, <2>2, EraseFacts, <1>1
    DEF TypeOK, WriteInv, ConnectionOpened, OnWii, Running, MustSave
  <2>4. RamInv'
    BY <2>1, <2>2, EraseFacts, IdleFacts DEF RamInv, Matches, ConnectionOpened
  <2>5. ConsoleInv'
    BY <2>1, <2>2, EraseFacts DEF ConsoleInv, ConnectionOpened
  <2> QED
    BY <2>3, <2>4, <2>5
<1>2. CASE ~(MustSave /\ ~timeout)
  <2>1. TypeOK'
    BY <1>2 DEF TypeOK, ConnectionOpened, MustSave
  <2>2. WriteInv'
    BY <1>2 DEF WriteInv, ConnectionOpened, OnWii, Running
  <2>3. RamInv'
    BY <1>2 DEF RamInv, Matches, Current, ConnectionOpened
  <2>4. ConsoleInv'
    BY <1>2 DEF ConsoleInv, MustSave, ConnectionOpened
  <2> QED
    BY <2>1, <2>2, <2>3, <2>4
<1> QED
  BY <1>1, <1>2

\* The other events of the link touch neither flash nor the modes.
LEMMA LinkStep ==
  ASSUME Inv, (\E a \in Addr : PinCodeRequest(a)) \/ AuthenticationFailed \/ ConnectionClosed
  PROVE  Inv'
<1> USE DEF Inv
<1>1. ASSUME NEW a \in Addr, PinCodeRequest(a) PROVE Inv'
  BY <1>1 DEF PinCodeRequest, OnWii, Running, TypeOK, WriteInv, RamInv, Matches, Current,
              ConsoleInv
<1>2. CASE AuthenticationFailed
  BY <1>2 DEF AuthenticationFailed, OnWii, Running, TypeOK, WriteInv, RamInv, Matches,
              Current, ConsoleInv
<1>3. CASE ConnectionClosed
  BY <1>3 DEF ConnectionClosed, OnWii, Running, TypeOK, WriteInv, RamInv, Matches, Current,
              ConsoleInv
<1> QED
  BY <1>1, <1>2, <1>3

LEMMA InvStep == Inv /\ [Next]_vars => Inv'
<1> SUFFICES ASSUME Inv, [Next]_vars PROVE Inv'
  OBVIOUS
<1>1. ASSUME NEW b \in BOOLEAN, main(b) PROVE Inv'
  BY <1>1, BootStep
<1>2. CASE PowerCut \/ WatchdogFires
  BY <1>2, ResetStep DEF PowerCut, WatchdogFires
<1>3. CASE flash_range_program
  BY <1>3, ProgramStep
<1>4. ASSUME NEW h \in ModeByte, NEW d \in ModeByte, NEW a \in Addr \cup {flash.bt},
             set_mode(h, d, a)
      PROVE  Inv'
  BY <1>4, SetModeStep
<1>5. ASSUME NEW s \in {0, 1}, NEW a \in ModeByte, set_features(s, a) PROVE Inv'
  BY <1>5, SetFeaturesStep
<1>6. ASSUME NEW held \in BOOLEAN, NEW timeout \in BOOLEAN,
             set_fast_switch_mode(held, timeout)
      PROVE  Inv'
  BY <1>6, HotkeyStep
<1>7. ASSUME NEW timeout \in BOOLEAN, ConnectionOpened(timeout) PROVE Inv'
  BY <1>7, OpenedStep
<1>8. CASE (\E a \in Addr : PinCodeRequest(a)) \/ AuthenticationFailed \/ ConnectionClosed
  BY <1>8, LinkStep
<1>9. CASE UNCHANGED vars
  BY <1>9 DEF vars, Inv, TypeOK, WriteInv, RamInv, Matches, Current, ConsoleInv, MustSave
<1> QED
  BY <1>1, <1>2, <1>3, <1>4, <1>5, <1>6, <1>7, <1>8, <1>9 DEF Next
-----------------------------------------------------------------------------
(* The theorems.                                                           *)

LEMMA Invariance == Spec => []Inv
BY Initial, InvStep, PTL DEF Spec

\* Every variable keeps its type, whatever bytes and addresses there are.
THEOREM TypeCorrect == Spec => []TypeOK
<1>1. Inv => TypeOK
  BY DEF Inv
<1> QED
  BY <1>1, Invariance, PTL

\* Until a reboot is due, the program runs on the modes flash holds (main,
\* swap_modes_in_flash, save_wii_addr).
THEOREM RamCorrect == Spec => []RamMatchesFlash
<1>1. Inv => RamMatchesFlash
  BY IdleFacts DEF Inv, TypeOK, RamInv, Matches, Current, RamMatchesFlash
<1> QED
  BY <1>1, Invariance, PTL

\* The console of an open link is the one in flash, unless its save timed out
\* or it is the one known at boot (save_wii_addr).
THEOREM ConsoleCorrect == Spec => []ConsoleRemembered
<1>1. Inv => ConsoleRemembered
  BY DEF Inv, ConsoleInv, MustSave, Current, ConsoleRemembered
<1> QED
  BY <1>1, Invariance, PTL

\* A step that begins a write is a step of its writer.
LEMMA SwapStep ==
  ASSUME Inv, [Next]_vars, pending = Idle, pending'.kind = "swap", ~watchdog
  PROVE  pending'.buf.device = flash.alt /\ pending'.buf.alt = flash.device
<1>1. PICK held, timeout \in BOOLEAN : set_fast_switch_mode(held, timeout)
  <2>1. pending' # pending /\ pending' # Idle
    BY IdleFacts
  <2>2. ~(\E b \in BOOLEAN : main(b)) /\ ~PowerCut /\ ~WatchdogFires /\ ~UNCHANGED vars
    BY <2>1 DEF main, PowerCut, WatchdogFires, Reset, vars
  <2>3. /\ ~flash_range_program /\ ~(\E a \in Addr : PinCodeRequest(a))
        /\ ~AuthenticationFailed /\ ~ConnectionClosed
    BY <2>1 DEF flash_range_program, PinCodeRequest, AuthenticationFailed, ConnectionClosed
  <2>4. \A h, d, a : ~set_mode(h, d, a)
    BY DEF set_mode, flash_range_erase
  <2>5. \A s, a : ~set_features(s, a)
    BY DEF set_features, flash_range_erase
  <2>6. \A timeout \in BOOLEAN : ~ConnectionOpened(timeout)
    BY <2>1 DEF ConnectionOpened, flash_range_erase
  <2> QED
    BY <2>2, <2>3, <2>4, <2>5, <2>6 DEF Next
<1>2. pending' # pending
  BY IdleFacts
<1>3. pending'.buf = SwappedModes /\ power = "run"
  BY <1>1, <1>2 DEF set_fast_switch_mode, flash_range_erase, Running
<1>4. ram.alt = flash.alt
  BY <1>3, IdleFacts DEF Inv, RamInv, Matches, Current
<1> QED
  BY <1>3, <1>4 DEF Inv, TypeOK, Config, SwappedModes

\* A swap with no reboot due exchanges the two modes in flash: the alternative
\* mode in RAM is the one of flash, though it was read at boot
\* (swap_modes_in_flash).
THEOREM SwapCorrect == Spec => SwapExchanges
<1>1. Inv /\ [Next]_vars
        => [pending = Idle /\ pending'.kind = "swap" /\ ~watchdog
              => /\ pending'.buf.device = flash.alt
                 /\ pending'.buf.alt = flash.device]_vars
  BY SwapStep
<1> QED
  BY <1>1, Invariance, PTL DEF Spec, SwapExchanges
-----------------------------------------------------------------------------
(* The refinement.                                                         *)

\* Losing the sector, while it is erased or before anything was written.
LEMMA ResetRefines ==
  ASSUME Inv, Reset
  PROVE  Current' = Current \/ Current' = Blank
BY DEF Inv, WriteInv, Reset, Current

\* A write, once its erase is done, is seen as a whole.
LEMMA WriteRefines ==
  ASSUME Inv, NEW kind \in {"mode", "features", "swap", "wii"}, NEW buffer \in Config,
         pending = Idle, flash_range_erase(kind, buffer)
  PROVE  Current = flash /\ Current' = buffer
BY EraseFacts DEF Current

LEMMA SetModeRefines ==
  ASSUME Inv, NEW h \in ModeByte, NEW d \in ModeByte, NEW a \in Addr \cup {flash.bt},
         set_mode(h, d, a)
  PROVE  Store!SetMode
<1>1. [flash EXCEPT !.host = h, !.device = d, !.bt = a] \in Config
  BY Buffers DEF Inv
<1>2. Current = flash /\ Current' = [flash EXCEPT !.host = h, !.device = d, !.bt = a]
  BY <1>1, WriteRefines DEF set_mode, Running
<1>3. h \in Byte /\ d \in Byte /\ a \in Addr \cup {Blank.bt, Current.bt}
  BY <1>2 DEF Byte
<1>4. Current' = [Current EXCEPT !.host = h, !.device = d, !.bt = a]
  BY <1>2
<1>5. \E x, y \in Byte, z \in Addr \cup {Blank.bt, Current.bt} :
        Current' = [Current EXCEPT !.host = x, !.device = y, !.bt = z]
  <2> USE <1>3
  <2> WITNESS h \in Byte, d \in Byte, a \in Addr \cup {Blank.bt, Current.bt}
  <2> QED
    BY <1>4
<1> QED
  BY <1>5 DEF Store!SetMode, Current

LEMMA SetFeaturesRefines ==
  ASSUME Inv, NEW s \in {0, 1}, NEW a \in ModeByte, set_features(s, a)
  PROVE  Store!SetFeatures
<1> DEFINE buffer == IF s = 0 THEN [flash EXCEPT !.set = 0]
                     ELSE [flash EXCEPT !.set = s, !.alt = a]
<1>1. buffer \in Config
  BY Buffers DEF Inv
<1>2. Current = flash /\ Current' = buffer
  BY <1>1, WriteRefines DEF set_features, Running
<1> QED
  BY <1>2 DEF Store!SetFeatures, Byte, Current

LEMMA HotkeyRefines ==
  ASSUME Inv, NEW held \in BOOLEAN, NEW timeout \in BOOLEAN,
         set_fast_switch_mode(held, timeout)
  PROVE  Store!SwapModes \/ Current' = Current
<1>1. CASE ~held /\ pressed /\ ~timeout
  <2>1. SwappedModes \in Config /\ ram.alt \in Byte
    BY Buffers DEF Inv, TypeOK
  <2>2. Current = flash /\ Current' = SwappedModes
    BY <1>1, <2>1, WriteRefines DEF set_fast_switch_mode, Running
  <2> QED
    BY <2>1, <2>2 DEF Store!SwapModes, SwappedModes, Current
<1>2. CASE ~(~held /\ pressed /\ ~timeout)
  BY <1>2 DEF set_fast_switch_mode, Current
<1> QED
  BY <1>1, <1>2

LEMMA OpenedRefines ==
  ASSUME Inv, NEW timeout \in BOOLEAN, ConnectionOpened(timeout)
  PROVE  Store!SaveConsole \/ Current' = Current
<1>1. CASE MustSave /\ ~timeout
  <2>1. SavedConsole \in Config /\ wii_baddr \in Addr \cup {Blank.wii}
    BY Buffers DEF Inv, TypeOK, Blank
  <2>2. Current = flash /\ Current' = SavedConsole
    BY <1>1, <2>1, WriteRefines DEF ConnectionOpened, OnWii, Running
  <2> QED
    BY <2>1, <2>2 DEF Store!SaveConsole, SavedConsole, Current
<1>2. CASE ~(MustSave /\ ~timeout)
  BY <1>2 DEF ConnectionOpened, Current
<1> QED
  BY <1>1, <1>2

LEMMA StepRefines ==
  ASSUME Inv, [Next]_vars
  PROVE  Store!Next \/ Current' = Current
<1>1. CASE (\E b \in BOOLEAN : main(b)) \/ UNCHANGED vars
  BY <1>1 DEF main, vars, Current
<1>2. CASE PowerCut \/ WatchdogFires
  <2>1. Current' = Current \/ Current' = Blank
    BY <1>2, ResetRefines DEF PowerCut, WatchdogFires
  <2> QED
    BY <2>1 DEF Store!Next, Store!Lose, Current
<1>3. CASE flash_range_program
  BY <1>3, ProgramStep
<1>4. ASSUME NEW h \in ModeByte, NEW d \in ModeByte, NEW a \in Addr \cup {flash.bt},
             set_mode(h, d, a)
      PROVE  Store!Next
  BY <1>4, SetModeRefines DEF Store!Next
<1>5. ASSUME NEW s \in {0, 1}, NEW a \in ModeByte, set_features(s, a) PROVE Store!Next
  BY <1>5, SetFeaturesRefines DEF Store!Next
<1>6. ASSUME NEW held \in BOOLEAN, NEW timeout \in BOOLEAN,
             set_fast_switch_mode(held, timeout)
      PROVE  Store!Next \/ Current' = Current
  BY <1>6, HotkeyRefines DEF Store!Next
<1>7. ASSUME NEW timeout \in BOOLEAN, ConnectionOpened(timeout)
      PROVE  Store!Next \/ Current' = Current
  BY <1>7, OpenedRefines DEF Store!Next
<1>8. CASE (\E a \in Addr : PinCodeRequest(a)) \/ AuthenticationFailed \/ ConnectionClosed
  BY <1>8 DEF PinCodeRequest, AuthenticationFailed, ConnectionClosed, Current
<1> QED
  BY <1>1, <1>2, <1>3, <1>4, <1>5, <1>6, <1>7, <1>8 DEF Next

\* Erase and write, with a reset between them or not, are together one step of
\* the store: one group of settings changes and the others stay, or the whole
\* configuration is lost (write_flash and its four callers).
THEOREM StoreImplemented == Spec => ImplementsStore
<1>1. Init => Store!Init
  BY DEF Init, Store!Init
<1>2. Inv /\ [Next]_vars
        => [Store!Next]_(IF pending = Idle THEN flash ELSE pending.buf)
  BY StepRefines DEF Current
<1> QED
  BY <1>1, <1>2, Invariance, PTL DEF Spec, ImplementsStore, Store!Spec
=============================================================================
