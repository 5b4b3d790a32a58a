---------------------------------- MODULE Flash ----------------------------------
(***************************************************************************)
(* The FLASH chips (internal/backup): every command is a sequence of       *)
(* stores that a state machine recognises.  The program sends commands one *)
(* store at a time and may give one up half way, as a game that is reset   *)
(* by its own key combination does: the chip is not told.                  *)
(***************************************************************************)
EXTENDS Backup

CONSTANTS
  BankSize,       \* cells of a bank (65536)
  SectorSize,     \* cells of a sector (0x1000)
  Unlock1,        \* the address of a command (0x5555)
  Unlock2,        \* the other address of its preamble (0x2AAA)
  Command,        \* the commands the program sends
  MaxCommands     \* bound: the commands it sends

FlashGeometry ==
  /\ BankSize \in Nat \ {0} /\ SectorSize \in 1 .. BankSize
  /\ BankSize % SectorSize = 0 /\ Unlock1 % SectorSize # 0
  /\ Unlock1 \in 1 .. BankSize - 1 /\ Unlock2 \in 1 .. BankSize - 1 /\ Unlock1 # Unlock2

\* The chip sees the addresses of one bank, and a sector begins where sectors do.
FlashCommands ==
  \A cmd \in Command :
    /\ cmd.op \in {"Program", "SelectBank", "EraseSector", "EraseChip", "ReadChipID", "FinishChipID"}
    /\ cmd.op \in {"Program", "EraseSector"} => cmd.at \in 0 .. BankSize - 1
    /\ cmd.op = "Program" => cmd.value \in Cell
    /\ cmd.op = "SelectBank" => cmd.bank \in {0, 1}
    /\ cmd.op = "EraseSector" => cmd.at % SectorSize = 0

ASSUME FlashAssumption == FlashGeometry /\ FlashCommands /\ MaxCommands \in Nat

VARIABLES
  flash,          \* the FLASH
  job,            \* the command the program is sending [cmd, sent, lost]
  orphan,         \* history: what the last command that was given up left the chip in
  commands        \* bound: commands begun

First == 170      \* 0xAA
Second == 85      \* 0x55
cmdReadChipID == 144
cmdFinishChipID == 240
cmdErase == 128
cmdEraseChip == 16
cmdEraseSector == 48
cmdWriteByte == 160
cmdSelectBank == 176

FLASH ==
  [large : BOOLEAN, currentBank : {0, 1}, phase : 0 .. 3,
   enableChipID : BOOLEAN, enableErase : BOOLEAN, enableWrite : BOOLEAN, enableSelect : BOOLEAN]

\* The chip is as large as its file.
FlashSize(s) == Size(s) = 2 * BankSize

FlashOpened(disk, large, opens, ok) ==
  OpenOrCreate(disk, {BankSize, 2 * BankSize}, IF large THEN 2 * BankSize ELSE BankSize, opens, ok)

ResetFlash(s) ==
  [large |-> FlashSize(s), currentBank |-> 0, phase |-> 0, enableChipID |-> FALSE,
   enableErase |-> FALSE, enableWrite |-> FALSE, enableSelect |-> FALSE]
-----------------------------------------------------------------------------
\* What a bug could do: forget that the memory has banks.
PhysicalUnbanked(f, index) == index

Physical(f, index) == f.currentBank * BankSize + index

\* What the program reads: the chip's identity in place of two cells.
FlashRead(f, s, addr) ==
  IF f.enableChipID /\ addr < 2
  THEN CASE f.large -> <<194, 9>>[addr + 1]
         [] ~f.large -> <<191, 212>>[addr + 1]
  ELSE s.memory[Physical(f, addr)]

Sector(f, addr) == {Physical(f, i) : i \in addr .. addr + SectorSize - 1}

\* What a bug could do: select a bank that a small chip does not have.
CommandedAnyBank(f, value) ==
  CASE value = cmdSelectBank -> [f EXCEPT !.enableSelect = TRUE, !.phase = 3]
    [] value = cmdWriteByte -> [f EXCEPT !.enableWrite = TRUE, !.phase = 3]
    [] OTHER -> f

\* A command's last word but its argument, at the command's address.
Commanded(f, value) ==
  CASE value = cmdReadChipID -> [f EXCEPT !.enableChipID = TRUE, !.phase = 0]
    [] value = cmdFinishChipID -> [f EXCEPT !.enableChipID = FALSE, !.phase = 0]
    [] value = cmdErase -> [f EXCEPT !.enableErase = TRUE, !.phase = 0]
    [] value = cmdEraseChip -> [f EXCEPT !.enableErase = FALSE, !.phase = 0]
    [] value = cmdWriteByte -> [f EXCEPT !.enableWrite = TRUE, !.phase = 3]
    [] value = cmdSelectBank ->
         IF f.large THEN [f EXCEPT !.enableSelect = TRUE, !.phase = 3] ELSE [f EXCEPT !.phase = 0]
    [] OTHER -> f

HandleCommand(f, addr, value, ok) ==
  LET erases == f.enableErase /\ addr % SectorSize = 0 /\ value = cmdEraseSector IN
  IF addr = Unlock1
  THEN /\ flash' = Commanded(f, value)
       /\ store' = IF value = cmdEraseChip /\ f.enableErase
                   THEN MemorySet(store, DOMAIN store.memory, Erased, ok) ELSE store
  ELSE /\ flash' = IF erases THEN [f EXCEPT !.enableErase = FALSE, !.phase = 0] ELSE f
       /\ store' = IF erases THEN MemorySet(store, Sector(f, addr), Erased, ok) ELSE store

\* The argument of a command.
HandleExtended(f, addr, value, ok) ==
  /\ flash' = CASE f.enableWrite -> [f EXCEPT !.enableWrite = FALSE, !.phase = 0]
                [] ~f.enableWrite /\ f.enableSelect /\ addr = 0 ->
                     [f EXCEPT !.currentBank = value % 2, !.enableSelect = FALSE, !.phase = 0]
                [] OTHER -> [f EXCEPT !.phase = 0]
  /\ store' = IF f.enableWrite THEN Write(store, Physical(f, addr), value, ok) ELSE store

FlashWrite(addr, value, ok) ==
  \/ /\ flash.phase = 0
     /\ flash' = [flash EXCEPT !.phase = IF addr = Unlock1 /\ value = First THEN 1 ELSE 0]
     /\ UNCHANGED store
  \/ /\ flash.phase = 1
     /\ flash' = [flash EXCEPT !.phase = IF addr = Unlock2 /\ value = Second THEN 2 ELSE 1]
     /\ UNCHANGED store
  \/ flash.phase = 2 /\ HandleCommand(flash, addr, value, ok)
  \/ flash.phase = 3 /\ HandleExtended(flash, addr, value, ok)
-----------------------------------------------------------------------------
\* The program.
NoJob == [cmd |-> [op |-> "none"], sent |-> 0, lost |-> FALSE]

Preamble == <<<<Unlock1, First>>, <<Unlock2, Second>>>>

\* The stores a command is made of, as the chips' data sheets list them.
Stores(cmd) ==
  CASE cmd.op = "Program" -> Preamble \o <<<<Unlock1, cmdWriteByte>>, <<cmd.at, cmd.value>>>>
    [] cmd.op = "SelectBank" -> Preamble \o <<<<Unlock1, cmdSelectBank>>, <<0, cmd.bank>>>>
    [] cmd.op = "EraseSector" ->
         Preamble \o <<<<Unlock1, cmdErase>>>> \o Preamble \o <<<<cmd.at, cmdEraseSector>>>>
    [] cmd.op = "EraseChip" ->
         Preamble \o <<<<Unlock1, cmdErase>>>> \o Preamble \o <<<<Unlock1, cmdEraseChip>>>>
    [] cmd.op = "ReadChipID" -> Preamble \o <<<<Unlock1, cmdReadChipID>>>>
    [] cmd.op = "FinishChipID" -> Preamble \o <<<<Unlock1, cmdFinishChipID>>>>

Starting == job = NoJob

Start(cmd) ==
  /\ Starting /\ commands < MaxCommands
  /\ job' = [cmd |-> cmd, sent |-> 0, lost |-> FALSE]
  /\ commands' = commands + 1
  /\ did' = "start"
  /\ UNCHANGED <<store, flash, orphan>>

Complete == job.sent = Len(Stores(job.cmd)) - 1

Send(ok) ==
  LET s == Stores(job.cmd)[job.sent + 1] IN
  /\ job # NoJob
  /\ MayFail(ok)
  /\ FlashWrite(s[1], s[2], ok)
  /\ job' = IF Complete THEN NoJob
            ELSE [job EXCEPT !.sent = @ + 1, !.lost = @ \/ orphan # "none"]
  /\ orphan' = "none"
  /\ did' = "send"
  /\ UNCHANGED commands

\* The program forgets what it was doing.
GiveUp ==
  /\ job # NoJob
  /\ job' = NoJob
  /\ orphan' = IF job.sent = 3 /\ ~job.lost /\ job.cmd.op \in {"Program", "SelectBank"}
               THEN IF job.cmd.op = "SelectBank" /\ ~flash.large THEN "none" ELSE job.cmd.op
               ELSE orphan
  /\ did' = "giveUp"
  /\ UNCHANGED <<store, flash, commands>>

FlashNext ==
  \/ \E cmd \in Command : Start(cmd)
  \/ \E ok \in BOOLEAN : Send(ok)
  \/ GiveUp
-----------------------------------------------------------------------------
\* What a command does to a chip, at once.
Effect(cmd, m, f) ==
  LET at == f.currentBank * BankSize + cmd.at IN
  CASE cmd.op = "Program" -> [m EXCEPT ![at] = cmd.value]
    [] cmd.op = "EraseSector" ->
         [i \in DOMAIN m |-> IF i \in at .. at + SectorSize - 1 THEN Erased ELSE m[i]]
    [] cmd.op = "EraseChip" -> [i \in DOMAIN m |-> Erased]
    [] OTHER -> m

BankAfter(cmd, f) == IF cmd.op = "SelectBank" /\ f.large THEN cmd.bank ELSE f.currentBank
ShowsID(cmd, f) ==
  CASE cmd.op = "ReadChipID" -> TRUE
    [] cmd.op = "FinishChipID" -> FALSE
    [] OTHER -> f.enableChipID

\* A command happens as a whole, at its last store and in the bank that was
\* selected, whatever was given up before it: a command given up leaves at
\* most its argument missing, which swallows the first store of the next
\* command, and that command with it.
WholeCommand ==
  did' = "send" =>
  LET swallowed == orphan # "none"
      torn == flash.currentBank * BankSize + Unlock1
      whole == Complete /\ ~job.lost
  IN  /\ store'.memory \in
           CASE swallowed ->
                  {IF orphan = "Program" THEN [store.memory EXCEPT ![torn] = First]
                                         ELSE store.memory}
             [] ~swallowed /\ whole -> {Effect(job.cmd, store.memory, flash)}
             [] ~swallowed /\ Complete /\ job.lost ->
                  {store.memory, Effect(job.cmd, store.memory, flash)}
             [] ~swallowed /\ ~Complete -> {store.memory}
      /\ flash'.currentBank = IF whole THEN BankAfter(job.cmd, flash) ELSE flash.currentBank
      /\ flash'.enableChipID = IF whole THEN ShowsID(job.cmd, flash) ELSE flash.enableChipID
=============================================================================
