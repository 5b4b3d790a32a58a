------------------------------- MODULE Cartridge -------------------------------
(***************************************************************************)
(* A cartridge as Core.LoadROMWithSave equips it, with a save chip or the  *)
(* four lines, in a machine that is saved, loaded, and ended and started   *)
(* again.  Each behaviour has one of the chips: they share nothing but the *)
(* save state.                                                             *)
(***************************************************************************)
EXTENDS Flash, Eeprom, Gpio

CONSTANTS
  Cartridges,   \* [kind, hint, chip, path, disk, says, saves, restarts] : what
                \* may be in the machine, and the bounds that go with it
  Cell0         \* the cells an SRAM program writes to

ASSUME CartridgesAssumption ==
  \A c \in Cartridges :
    /\ c.disk \in [DOMAIN c.disk -> Cell] /\ DOMAIN c.disk \subseteq Nat
    /\ IsFiniteSet(DOMAIN c.disk) /\ \A i \in DOMAIN c.disk : 0 .. i \subseteq DOMAIN c.disk
    /\ Cell0 \subseteq Cells(BankSize)
    /\ (c.kind = "EEPROM" => c.chip \in {"4K", "64K"} /\ c.hint \in {"4K", "64K", "Auto"})

VARIABLES
  cart,         \* which of them it is
  saved,        \* the save state, with the program as it was
  restarts,     \* bound: starts of the machine
  sizes         \* history: since a state was loaded, the size of the memory it
                \* was saved with and those it has been used with

flashVars == <<flash, job, orphan, commands>>
eepromVars == <<chip, eeprom, eepromReady, frame, frames, misled>>
gpioVars == <<gpio, rtc, solar, raised, talk, heard, asked, astray, selects, turn>>
vars == <<did, store, cart, saved, restarts, sizes, flashVars, eepromVars, gpioVars>>

\* The chip's memory when the machine starts.  opens is whether the file can
\* be opened, ok whether it can be written.
Opened(c, disk, opens, ok) ==
  LET may == c.path /\ opens IN
  CASE c.kind = "SRAM" -> OpenOrCreate(disk, {BankSize}, BankSize, may, ok)
    [] c.kind = "FLASH" -> FlashOpened(disk, c.hint = "128K", may, ok)
    [] c.kind = "EEPROM" -> EEPROMOpened(disk, c.hint, may, ok)
    [] OTHER -> NewInMemory(0, disk)

NoTalk == [bits |-> <<>>, lines |-> {}]
NoAnswer == [n \in 0 .. 6 |-> 0]
EEPROMOf(c, s) == IF c.kind = "EEPROM" THEN EEPROMFor(s, c.hint) ELSE ResetEEPROM("64K", FALSE)

Init ==
  /\ cart \in Cartridges
  /\ \E opens, ok \in BOOLEAN : store = Opened(cart, cart.disk, opens, ok)
  /\ saved = [of |-> "none"]
  /\ restarts = 0 /\ sizes = {}
  /\ did = "start"
  /\ flash = ResetFlash(store) /\ job = NoJob /\ orphan = "none" /\ commands = 0
  /\ chip = cart.chip /\ eeprom = EEPROMOf(cart, store) /\ eepromReady = FALSE
  /\ frame = NoFrame /\ frames = 0 /\ misled = FALSE
  /\ gpio = ResetGPIO /\ rtc = ResetRTC /\ solar = ResetSolar /\ raised = FALSE
  /\ talk = NoTalk /\ heard = <<>> /\ asked = NoAnswer /\ astray = FALSE /\ selects = 0
  /\ turn = "start"
-----------------------------------------------------------------------------
\* The machine ends, in order, by a panic or killed, and starts again: only the file is left.
Restart(opens, ok) ==
  /\ restarts < cart.restarts
  /\ restarts' = restarts + 1 /\ sizes' = {}
  /\ store' = Opened(cart, store.disk, opens, ok)
  /\ flash' = ResetFlash(store') /\ job' = NoJob /\ orphan' = "none"
  /\ eeprom' = EEPROMOf(cart, store') /\ eepromReady' = FALSE
  /\ frame' = NoFrame /\ misled' = FALSE
  /\ gpio' = ResetGPIO /\ rtc' = ResetRTC /\ solar' = ResetSolar /\ raised' = FALSE
  /\ talk' = NoTalk /\ heard' = <<>> /\ astray' = FALSE
  /\ did' = "start" /\ turn' = "start"
  /\ UNCHANGED <<cart, saved, commands, chip, frames, asked, selects>>

\* What Core.CopyState takes of the cartridge; the program, which is in the
\* machine's memory, goes with it.
CopyState ==
  /\ ~store.panicked
  /\ cart.saves /\ saved.of = "none"
  /\ cart.kind = "GPIO" => Len(heard) \in SaveAt
  /\ saved' = [of |-> "cartridge", memory |-> store.memory,
               flash |-> flash, job |-> job, orphan |-> orphan,
               eeprom |-> eeprom, ready |-> eepromReady, frame |-> frame, misled |-> misled,
               gpio |-> gpio, rtc |-> rtc, solar |-> solar,
               talk |-> talk, heard |-> heard, asked |-> asked, astray |-> astray]
  /\ did' = "save" /\ turn' = "save"
  /\ UNCHANGED <<store, cart, restarts, sizes, flashVars, eepromVars>>
  /\ UNCHANGED <<gpio, rtc, solar, raised, talk, heard, asked, astray, selects>>

\* The chips after a load.  A size, which is the file's, is not loaded, nor
\* are the levels on the lines.
FlashLoaded(f) == [f EXCEPT !.large = flash.large]
EEPROMLoaded(e) == [e EXCEPT !.size = eeprom.size, !.detectSize = eeprom.detectSize]
RTCLoaded(r) == [r EXCEPT !.port = rtc.port]

LoadState(ok) ==
  /\ ~store.panicked
  /\ saved.of # "none"
  /\ MayFail(ok)
  /\ store' = MemoryLoaded(store, saved.memory, ok)
  /\ sizes' = {Size(saved), Size(store)}
  /\ flash' = FlashLoaded(saved.flash) /\ job' = saved.job /\ orphan' = saved.orphan
  /\ eeprom' = EEPROMLoaded(saved.eeprom) /\ eepromReady' = saved.ready
  /\ frame' = saved.frame /\ misled' = saved.misled
  /\ gpio' = saved.gpio /\ rtc' = RTCLoaded(saved.rtc) /\ solar' = saved.solar /\ raised' = FALSE
  /\ talk' = saved.talk /\ heard' = saved.heard /\ asked' = saved.asked
  /\ astray' = (saved.astray \/ rtc.port # saved.rtc.port)
  /\ did' = "load" /\ turn' = "load"
  /\ UNCHANGED <<cart, saved, restarts, commands, chip, frames, selects>>
-----------------------------------------------------------------------------
Others(kind) == ~store.panicked /\ UNCHANGED <<cart, saved, restarts>> /\ cart.kind = kind
UsedWith(size) == sizes' = IF sizes = {} THEN {} ELSE sizes \cup {size}

Next ==
  \/ /\ Others("SRAM") /\ UNCHANGED <<flashVars, eepromVars, gpioVars>>
     /\ \E i \in Cell0, value \in {0, Erased}, ok \in BOOLEAN : SRAMWrite(i, value, ok)
     /\ UsedWith(Size(store'))
  \/ /\ Others("FLASH") /\ UNCHANGED <<eepromVars, gpioVars>>
     /\ FlashNext /\ UsedWith(Size(store'))
  \/ /\ Others("EEPROM") /\ UNCHANGED <<flashVars, gpioVars>>
     /\ EepromNext /\ UsedWith(Size(store'))
  \/ /\ Others("GPIO") /\ UNCHANGED <<did, store, flashVars, eepromVars>>
     /\ GpioNext /\ talk'.bits \in cart.says \cup {<<>>}
     /\ UsedWith(Size(store))
  \/ \E opens, ok \in BOOLEAN : Restart(opens, ok)
  \/ CopyState
  \/ \E ok \in BOOLEAN : LoadState(ok)

Spec == Init /\ [][Next]_vars
-----------------------------------------------------------------------------
\* Nothing that was saved is lost when the machine ends and starts again,
\* wherever it was stopped: the chip has what the program left in it, unless
\* a write to the file had failed, or the file cannot be opened, or there is
\* none.  A chip of another size that the game's entry says takes the file's.
SavesSurvive ==
  [][restarts' # restarts /\ store.stream /\ store'.stream /\ store.missed = {}
       => store'.memory = store.memory]_vars

OneSize == \A m, n \in sizes : m = n

\* Every FLASH command the program sends happens as a whole (WholeCommand),
\* whatever was given up, saved, loaded or restarted before it, if a state
\* that was loaded was saved with a chip of the same size.
CommandsAreWhole == [][OneSize => WholeCommand]_<<store, flash, job>>

\* The chip is asked for a cell it does not have, which ends the process, only
\* if a state was loaded that has been used with chips of two sizes: a load
\* takes over the bank or the address, and what the chip has received so far.
PanicsAcrossSizesOnly ==
  store.panicked => ~OneSize

\* An EEPROM whose size is not known, and that has no file yet, has the size
\* of the game's own chip once the first transfer to it has begun.
SizeFromFirstTransfer ==
  cart.hint = "Auto" /\ DOMAIN cart.disk = {} /\ did = "begin" => eeprom.size = chip
=============================================================================
