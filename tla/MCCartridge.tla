------------------------------ MODULE MCCartridge ------------------------------
(***************************************************************************)
(* Cartridge with banks of four cells, EEPROM blocks of two cells of two   *)
(* bits, and frames to the clock that use each kind of register.           *)
(***************************************************************************)
EXTENDS Cartridge

MCSizes == ("4K" :> [bits |-> 1, size |-> 4]) @@ ("64K" :> [bits |-> 3, size |-> 8])

MCCommand ==
  {[op |-> "Program", at |-> 0, value |-> 0], [op |-> "SelectBank", bank |-> 1, at |-> 0],
   [op |-> "EraseSector", at |-> 2], [op |-> "EraseSector", at |-> 0],
   [op |-> "EraseChip", at |-> 0], [op |-> "ReadChipID", at |-> 0],
   [op |-> "FinishChipID", at |-> 0]}

MCData == {<<1, 0, 1, 1>>}

\* Bits in the order they are sent, the code 0110 first.
Byte01(reg, asks) == <<0, 1, 1, 0>> \o [k \in 1 .. 3 |-> (reg \div 2 ^ (k - 1)) % 2] \o <<asks>>
Argument == <<0, 1, 0, 1, 0, 0, 0, 0>>

ControlWrite == Byte01(ControlReg, 0) \o Argument
ControlRead == Reverse(Byte01(ControlReg, 1))

MCFrame ==
  {ControlWrite, ControlRead,
   Reverse(Byte01(ForceIRQ, 0)), Byte01(ForceReset, 0), Byte01(Time, 1),
   <<1, 1, 1, 1, 0, 0, 0, 0>> \o Byte01(ControlReg, 1)}

None == [i \in {} |-> 0]
File(n) == [i \in 0 .. n - 1 |-> i % 3]

Machine(kind, hint, is, path, disk, saves, starts) ==
  [kind |-> kind, hint |-> hint, chip |-> is, path |-> path, disk |-> disk,
   says |-> {}, saves |-> saves, restarts |-> starts]
WithLines(says, saves) ==
  [Machine("GPIO", "none", "4K", FALSE, None, saves, 1) EXCEPT !.says = says]

MCCartridges ==
  {Machine("SRAM", "any", "4K", TRUE, disk, TRUE, 1) : disk \in {None, File(4), File(5)}}
    \cup {Machine("FLASH", hint, "4K", TRUE, disk, FALSE, 1) :
            hint \in {"64K", "128K"}, disk \in {None, File(4), File(8)}}
    \cup {Machine("FLASH", "128K", "4K", FALSE, None, TRUE, 1)}
    \cup {Machine("FLASH", "128K", "4K", TRUE, File(4), TRUE, 1),
          Machine("EEPROM", "Auto", "64K", TRUE, File(4), TRUE, 1)}
    \cup {Machine("EEPROM", "Auto", "4K", TRUE, disk, FALSE, 1) : disk \in {None, File(4), File(8)}}
    \cup {Machine("EEPROM", hint, "4K", path, None, TRUE, 1) : hint \in {"Auto", "4K"}, path \in BOOLEAN}
    \cup {Machine("EEPROM", hint, "64K", TRUE, disk, FALSE, 1) :
            hint \in {"Auto", "64K"}, disk \in {None, File(4)}}
    \cup {WithLines(MCFrame, FALSE), WithLines({ControlWrite, ControlRead}, TRUE)}

MCNow == {[date |-> <<26, 7, 4, 6>>, hour |-> 13, minute |-> 59, second |-> 8]}
=============================================================================
