---------------------------------- MODULE Eeprom ----------------------------------
(***************************************************************************)
(* The EEPROM chips (internal/backup): the program sends a frame of bits   *)
(* with a DMA transfer, one bit a unit, and reads an answer the same way.  *)
(* A chip of either size may be in the cartridge; the emulator may not     *)
(* know which until the first transfer tells it.                           *)
(***************************************************************************)
EXTENDS Backup

CONSTANTS
  Sizes,        \* the kinds of chip: [bits : of an address, size : cells] for
                \* "4K" and "64K" ([6, 512] and [14, 8192])
  BlockSize,    \* cells of a block (8)
  CellBits,     \* bits of a cell (8)
  DummyBits,    \* bits before an answer (4)
  Block,        \* the blocks the program uses
  Data,         \* the contents it writes: sequences of bits
  MaxFrames     \* bound: frames sent

BlockBits == BlockSize * CellBits

EepromGeometry ==
  /\ {BlockSize, CellBits, DummyBits, Sizes["4K"].bits, Sizes["64K"].bits} \subseteq Nat \ {0}
  /\ {Sizes["4K"].size, Sizes["64K"].size} \subseteq Nat /\ Sizes["4K"].size < Sizes["64K"].size
  /\ Sizes["64K"].size % BlockSize = 0
  /\ Sizes["4K"].size = BlockSize * 2 ^ Sizes["4K"].bits  \* no address is beyond its end
  /\ Sizes["64K"].size <= BlockSize * 2 ^ Sizes["64K"].bits  \* every block has an address
  /\ Block \subseteq Nat
  /\ \A b \in Block : b * BlockSize + BlockSize <= Sizes["64K"].size
  /\ Data \subseteq [1 .. BlockBits -> {0, 1}]

ASSUME EepromAssumption == EepromGeometry /\ MaxFrames \in Nat

VARIABLES
  chip,         \* which chip the program was written for
  eeprom,       \* the EEPROM
  eepromReady,  \* EventClassEEPROMReady is in the queue
  frame,        \* the frame under way
  frames,       \* bound: frames begun
  misled        \* history: the chip took bits for another size than it has

\* The states a chip can be in, as the sets of flags the code combines.
AcceptCommand == {"AcceptCommand"}
Reading == {"ReadMode", "Reading"}
Busy == {"Busy"}

ResetEEPROM(size, detects) ==
  [size |-> size, detectSize |-> detects, state |-> AcceptCommand, address |-> 0,
   serialBuffer |-> 0, transmittedBits |-> 0]

SizeOf(s) == IF Size(s) = Sizes["4K"].size THEN "4K" ELSE "64K"

EEPROMOpened(disk, hint, opens, ok) ==
  OpenOrCreate(disk, {Sizes[k].size : k \in {"4K", "64K"}},
               Sizes[IF hint = "Auto" THEN "64K" ELSE hint].size, opens, ok)

\* With a file behind the memory the size is the file's, even if the file
\* was made a moment ago.
EEPROMFor(s, hint) ==
  CASE s.stream -> ResetEEPROM(SizeOf(s), FALSE)
    [] ~s.stream /\ hint = "Auto" -> ResetEEPROM("64K", TRUE)
    [] ~s.stream /\ hint # "Auto" -> ResetEEPROM(hint, FALSE)

ResetSerialBuffer(e) == [e EXCEPT !.serialBuffer = 0, !.transmittedBits = 0]

\* Bit `n` of the cells, from the highest of the first one.
CellBit(m, address, n) ==
  (m[address + n \div CellBits] \div 2 ^ (CellBits - 1 - (n % CellBits))) % 2
-----------------------------------------------------------------------------
\* A read of one bit: what the program gets, and the chip after it.
ReadBit(e, s) ==
  CASE "Reading" \in e.state ->
         IF "DummyNibble" \in e.state THEN 0 ELSE CellBit(s.memory, e.address, e.transmittedBits)
    [] "Reading" \notin e.state -> IF "Busy" \in e.state THEN 0 ELSE 1

\* A bit that the memory does not have.
ReadPanics(e, s) ==
  /\ "Reading" \in e.state /\ "DummyNibble" \notin e.state
  /\ e.address + e.transmittedBits \div CellBits \notin DOMAIN s.memory

AfterRead(e) ==
  LET n == [e EXCEPT !.transmittedBits = @ + 1] IN
  CASE "Reading" \notin e.state -> e
    [] {"Reading", "DummyNibble"} \subseteq e.state ->
         IF n.transmittedBits = DummyBits
         THEN ResetSerialBuffer([n EXCEPT !.state = @ \ {"DummyNibble"}]) ELSE n
    [] OTHER ->
         IF n.transmittedBits = BlockBits
         THEN ResetSerialBuffer([n EXCEPT !.state = AcceptCommand]) ELSE n

\* A bit is shifted in.
Shifted(e, value) ==
  [e EXCEPT !.serialBuffer = 2 * @ + value, !.transmittedBits = @ + 1]

CommandTaken(n) ==
  ResetSerialBuffer(
    [n EXCEPT !.state = CASE n.serialBuffer = 2 -> {"WriteMode", "GetAddress", "Writing", "EatDummy"}
                          [] n.serialBuffer = 3 -> {"ReadMode", "GetAddress", "EatDummy"}
                          [] OTHER -> @])

AddressOf(n) == (n.serialBuffer * BlockSize) % Sizes["64K"].size
AddressComplete(n) == n.transmittedBits = Sizes[n.size].bits

AddressTaken(n) ==
  ResetSerialBuffer([n EXCEPT !.address = AddressOf(n), !.state = @ \ {"GetAddress"}])

\* What a bug could do: a block keeps its bits and gets the new ones on top.
NotCleared(s, span, ok) == s
Cleared(s, span, ok) == MemorySet(s, span, 0, ok)

EEPROMWrite(value, ok) ==
  LET n == Shifted(eeprom, value)
      bit == eeprom.transmittedBits
      at == eeprom.address + bit \div CellBits
      old == store.memory[at]
      weight == 2 ^ (CellBits - 1 - (bit % CellBits))
      with == IF value = 1 /\ (old \div weight) % 2 = 0 THEN old + weight ELSE old
  IN
  \/ /\ eeprom.state \cap {"Reading", "Busy"} # {}
     /\ UNCHANGED <<eeprom, store, eepromReady>>
  \/ /\ eeprom.state = AcceptCommand
     /\ eeprom' = IF n.transmittedBits = 2 THEN CommandTaken(n) ELSE n
     /\ UNCHANGED <<store, eepromReady>>
  \/ /\ "GetAddress" \in eeprom.state
     /\ eeprom' = IF AddressComplete(n) THEN AddressTaken(n) ELSE n
     /\ store' = IF AddressComplete(n) /\ "WriteMode" \in n.state
                 THEN Cleared(store, AddressOf(n) .. AddressOf(n) + BlockSize - 1, ok) ELSE store
     /\ UNCHANGED eepromReady
  \/ /\ "GetAddress" \notin eeprom.state /\ "Writing" \in eeprom.state
     /\ store' = Write(store, at, with, ok)
     /\ eeprom' = IF n.transmittedBits = BlockBits
                  THEN ResetSerialBuffer([n EXCEPT !.state = @ \ {"Writing"}]) ELSE n
     /\ UNCHANGED eepromReady
  \/ /\ eeprom.state = {"ReadMode", "EatDummy"}
     /\ eeprom' = ResetSerialBuffer([n EXCEPT !.state = Reading \cup {"DummyNibble"}])
     /\ UNCHANGED <<store, eepromReady>>
  \/ /\ eeprom.state = {"WriteMode", "EatDummy"}
     /\ eeprom' = ResetSerialBuffer([n EXCEPT !.state = Busy])
     /\ eepromReady' = TRUE
     /\ UNCHANGED store

\* The DMA tells how long a transfer to the chip is, and so which chip it
\* is.  With a file behind the memory nothing is left to find out.
SetSizeHint(e, kind) ==
  IF ~e.detectSize THEN eeprom' = e /\ UNCHANGED store
  ELSE /\ eeprom' = [e EXCEPT !.size = kind, !.detectSize = FALSE]
       /\ store' = IF Size(store) = Sizes[kind].size THEN store
                   ELSE NewInMemory(Sizes[kind].size, store.disk)
-----------------------------------------------------------------------------
\* The program: no frame is under way when op is "none".
NoFrame == [op |-> "none", block |-> 0, data |-> <<>>, sent |-> 0, got |-> <<>>]

\* The bits of a number, the highest first.
BitsOf(n, width) == [k \in 1 .. width |-> (n \div 2 ^ (width - k)) % 2]

FrameBits(f) ==
  IF f.op = "write" THEN <<1, 0>> \o BitsOf(f.block, Sizes[chip].bits) \o f.data \o <<0>>
  ELSE <<1, 1>> \o BitsOf(f.block, Sizes[chip].bits) \o <<0>>

AnswerBits == DummyBits + BlockBits
LastUnit == frame.sent = Len(FrameBits(frame)) - 1
LastAnswer == frame.sent = Len(FrameBits(frame)) + AnswerBits - 1

\* It starts a frame, to a block of its chip, when a read says that the chip
\* is ready.
Begin(op, block, data) ==
  /\ frame = NoFrame /\ frames < MaxFrames
  /\ block * BlockSize < Sizes[chip].size
  /\ ~ReadPanics(eeprom, store) /\ ReadBit(eeprom, store) = 1
  /\ SetSizeHint(AfterRead(eeprom), chip)
  /\ frame' = [NoFrame EXCEPT !.op = op, !.block = block, !.data = data]
  /\ frames' = frames + 1
  /\ did' = "begin"
  /\ UNCHANGED <<chip, eepromReady, misled>>

Unit(ok) ==
  /\ frame # NoFrame /\ frame.sent < Len(FrameBits(frame))
  /\ MayFail(ok)
  /\ EEPROMWrite(FrameBits(frame)[frame.sent + 1], ok)
  /\ frame' = IF LastUnit /\ frame.op = "write" THEN NoFrame ELSE [frame EXCEPT !.sent = @ + 1]
  /\ misled' = (misled \/ eeprom.size # chip)
  /\ did' = "unit"
  /\ UNCHANGED <<chip, frames>>

Answer ==
  /\ frame.op = "read" /\ frame.sent >= Len(FrameBits(frame))
  /\ eeprom' = AfterRead(eeprom)
  /\ store' = IF ReadPanics(eeprom, store) THEN Panicked(store) ELSE store
  /\ frame' = IF LastAnswer \/ ReadPanics(eeprom, store) THEN NoFrame
              ELSE [frame EXCEPT !.sent = @ + 1,
                                 !.got = IF frame.sent < Len(FrameBits(frame)) + DummyBits THEN @
                                         ELSE Append(@, ReadBit(eeprom, store))]
  /\ did' = "answer"
  /\ UNCHANGED <<chip, eepromReady, frames, misled>>

\* EventClassEEPROMReady.
Ready ==
  /\ eepromReady
  /\ eeprom' = [eeprom EXCEPT !.state = AcceptCommand]
  /\ eepromReady' = FALSE
  /\ did' = "ready"
  /\ UNCHANGED <<chip, store, frame, frames, misled>>

EepromNext ==
  \/ \E block \in Block :
       \/ Begin("read", block, <<>>)
       \/ \E data \in Data : Begin("write", block, data)
  \/ \E ok \in BOOLEAN : Unit(ok)
  \/ Answer
  \/ Ready
-----------------------------------------------------------------------------
FrameCells == frame.block * BlockSize .. frame.block * BlockSize + BlockSize - 1
BlockIn(m) == [k \in 1 .. BlockBits |-> CellBit(m, frame.block * BlockSize, k - 1)]

\* A chip whose size is known takes frames for what they are, whatever was
\* saved, loaded or restarted before: a write leaves its block with exactly
\* the bits that were sent, and no other block is ever touched; an answer is
\* what the block holds, and the chip is ready for a frame when it has ended.
BlocksAreWhole ==
  [][~misled /\ eeprom.size = chip =>
       /\ did' = "unit" =>
            /\ \A i \in DOMAIN store.memory :
                 (frame.op = "write" /\ i \in FrameCells) \/ store'.memory[i] = store.memory[i]
            /\ frame.op = "write" /\ LastUnit =>
                 BlockIn(store'.memory) = frame.data /\ eeprom'.state = Busy
       /\ did' = "answer" /\ LastAnswer =>
            /\ Append(frame.got, ReadBit(eeprom, store)) = BlockIn(store.memory)
            /\ eeprom'.state = AcceptCommand]_<<did, store, eeprom, frame>>
=============================================================================
