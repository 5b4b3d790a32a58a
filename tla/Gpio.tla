----------------------------------- MODULE Gpio -----------------------------------
(***************************************************************************)
(* The four lines of a cartridge (internal/gpio) and what hangs on them:   *)
(* the clock, which is read and set bit by bit, and the light sensor,      *)
(* which shares two lines with it.  The program drives the lines; a frame  *)
(* is what it wants to say to the clock, and it may be given up, or the    *)
(* lines turned round, at any moment.                                      *)
(***************************************************************************)
EXTENDS Integers, Sequences, FiniteSets, SequencesExt

CONSTANTS
  Frame,        \* what the program says: sequences of bits
  Now,          \* what the host's clock may show: [date : <<y, m, d, w>>, hour,
                \* minute, second]
  CounterSize,  \* values of the light sensor's counter (256)
  Brightness,   \* the light sensor's level
  MaxSelects,   \* bound: selections of the clock
  SaveAt        \* bound: bits heard when the state is saved

ASSUME GpioAssumption ==
  /\ CounterSize \in Nat \ {0} /\ Brightness \in 0 .. CounterSize - 1
  /\ MaxSelects \in Nat
  /\ \A now \in Now :
       /\ now.hour \in Nat /\ now.minute \in Nat /\ now.second \in Nat
       /\ \A k \in 1 .. 4 : now.date[k] \in Nat

VARIABLES
  turn,          \* history: what the last step was
  gpio,         \* the GPIO [allowReads : BOOLEAN, wrMask, portData : sets of lines]
  rtc,          \* the RTC
  solar,        \* the SolarSensor [oldClk : BOOLEAN, counter]
  raised,       \* the last step raised the cartridge's interrupt
  talk,         \* the program: the frame it sends and the levels it drives
                \* [bits, lines]
  heard,        \* history: the bits clocked since the clock was selected
  asked,        \* history: the bytes of the register that was asked for
  astray,       \* history: a load found other levels on the lines
  selects       \* bound: selections

Lines == 0 .. 3
SCK == 0   \* also the sensor's clock
SIO == 1   \* also the sensor's reset
CS == 2
FLG == 3   \* the sensor's answer

ArgCount == <<0, 0, 7, 0, 1, 0, 3, 0>>
rtcArgCount(reg) == ArgCount[reg + 1]
ForceReset == 0
DateTime == 2
ForceIRQ == 3
ControlReg == 4
Time == 6

NoControl ==
  [unknown1 |-> FALSE, perMinuteIRQ |-> FALSE, unknown2 |-> FALSE, mode24h |-> FALSE,
   poweroff |-> FALSE]

ResetRTC ==
  [currentBit |-> 0, currentByte |-> 0, reg |-> 0, data |-> [b \in 0 .. 7 |-> 0],
   buffer |-> [n \in 0 .. 6 |-> 0], port |-> {}, state |-> "Complete",
   control |-> [NoControl EXCEPT !.mode24h = TRUE]]

ResetGPIO == [allowReads |-> FALSE, wrMask |-> {}, portData |-> {}]
ResetSolar == [oldClk |-> FALSE, counter |-> 0]
-----------------------------------------------------------------------------
\* Bytes, as numbers and as their bits from the lowest.
Number(bits) == FoldLeft(LAMBDA sum, b : 2 * sum + b, 0, Reverse(bits))
Byte(bits) == Number([k \in 1 .. 8 |-> bits[k - 1]])
BitOf(byte, k) == (byte \div 2 ^ k) % 2
Level(port, line) == IF line \in port THEN 1 ELSE 0

DecimalToBCD(x) == (x % 10) + 16 * ((x \div 10) % 10)

\* The flag for the afternoon is put in before the conversion.
AdjustHour(control, hour) == IF ~control.mode24h /\ hour >= 12 THEN hour - 12 + 64 ELSE hour

ControlByte(c) ==
  (IF c.unknown1 THEN 2 ELSE 0) + (IF c.perMinuteIRQ THEN 8 ELSE 0)
    + (IF c.unknown2 THEN 32 ELSE 0) + (IF c.mode24h THEN 64 ELSE 0)
    + (IF c.poweroff THEN 128 ELSE 0)

ControlOf(c, byte) ==
  [c EXCEPT !.unknown1 = BitOf(byte, 1) = 1, !.perMinuteIRQ = BitOf(byte, 3) = 1,
            !.unknown2 = BitOf(byte, 5) = 1, !.mode24h = BitOf(byte, 6) = 1]

Filled(r, bytes) ==
  [r EXCEPT !.buffer = [n \in 0 .. 6 |-> IF n < Len(bytes) THEN bytes[n + 1] ELSE @[n]]]

TimeBytes(control, now) ==
  <<DecimalToBCD(AdjustHour(control, now.hour)), DecimalToBCD(now.minute), DecimalToBCD(now.second)>>

ReadRegister(r, now) ==
  CASE r.reg = ControlReg -> Filled(r, <<ControlByte(r.control)>>)
    [] r.reg = DateTime ->
         Filled(r, [k \in 1 .. 4 |-> DecimalToBCD(now.date[k])] \o TimeBytes(r.control, now))
    [] r.reg = Time -> Filled(r, TimeBytes(r.control, now))
    [] OTHER -> r

\* A write takes effect; Raises tells whether it raises the interrupt.
WriteRegister(r) ==
  CASE r.reg = ControlReg -> [r EXCEPT !.control = ControlOf(@, r.buffer[0])]
    [] r.reg = ForceReset -> [r EXCEPT !.control = NoControl]
    [] OTHER -> r

Raises(r) == r.reg = ForceIRQ

\* A bit from the line goes into the byte.
ReadSIO(r) == [r EXCEPT !.data[r.currentBit] = Level(r.port, SIO), !.currentBit = (@ + 1) % 8]
ByteRead(r) == r.currentBit = 7

Upper(d) == <<d[4], d[5], d[6], d[7]>>
Lower(d) == <<d[0], d[1], d[2], d[3]>>
CommandCode == <<0, 1, 1, 0>>

\* What a bug could do: take every byte from the same end.
AsSent(d) == d

\* The code 0110 in the upper half says that the highest bit came first.
InOrder(d) == IF Upper(d) = CommandCode THEN [b \in 0 .. 7 |-> d[7 - b]] ELSE d

CommandOf(r, d) ==
  [r EXCEPT !.data = d, !.reg = d[4] + 2 * d[5] + 4 * d[6], !.currentBit = 0, !.currentByte = 0]

\* The end of a command, or of a write's arguments.
Written(r) == [WriteRegister(r) EXCEPT !.state = "Complete"]

ReceiveCommandSIO(r, now) ==
  LET n == ReadSIO(r)
      d == InOrder(n.data)
      c == CommandOf(n, d)
      next == IF rtcArgCount(c.reg) = 0 THEN "Complete" ELSE "Sending"
  IN  CASE ~ByteRead(r) -> n
        [] ByteRead(r) /\ Lower(d) # CommandCode -> n
        [] ByteRead(r) /\ Lower(d) = CommandCode /\ d[7] = 1 ->
             [ReadRegister(c, now) EXCEPT !.state = next]
        [] ByteRead(r) /\ Lower(d) = CommandCode /\ d[7] = 0 ->
             IF rtcArgCount(c.reg) > 0 THEN [c EXCEPT !.state = "Receiving"] ELSE Written(c)

ReceiveBufferSIO(r) ==
  LET n == ReadSIO(r)
      full == [n EXCEPT !.buffer[r.currentByte] = Byte(n.data), !.currentByte = @ + 1]
  IN  CASE ~ByteRead(r) -> n
        [] ByteRead(r) -> IF full.currentByte = rtcArgCount(r.reg) THEN Written(full) ELSE full

TransmitBufferSIO(r) ==
  LET byte == r.buffer[r.currentByte]
      sent == [r EXCEPT !.port = IF byte % 2 = 1 THEN @ \cup {SIO} ELSE @ \ {SIO},
                        !.buffer[r.currentByte] = byte \div 2, !.currentBit = (@ + 1) % 8]
  IN  CASE r.currentBit < 7 -> sent
        [] r.currentBit = 7 ->
             [sent EXCEPT !.currentByte = @ + 1,
                          !.state = IF r.currentByte + 1 = rtcArgCount(r.reg) THEN "Complete" ELSE @]

\* What a bug could do: select without starting afresh.
SelectedAgain(r) == [r EXCEPT !.state = "Command", !.currentByte = 0]
Selected(r) == [r EXCEPT !.state = "Command", !.currentBit = 0, !.currentByte = 0]

\* The lines after the program drove some: the others stay.
Driven(port, mask, value) == (port \ mask) \cup (value \cap mask)

RTCWrite(r, mask, value, now) ==
  LET n == [r EXCEPT !.port = Driven(@, mask \ {FLG}, value)]
      rises == SCK \notin r.port /\ SCK \in n.port
  IN  CASE CS \notin n.port -> n
        [] CS \in n.port /\ CS \notin r.port -> Selected(n)
        [] {CS} \subseteq n.port \cap r.port /\ ~rises -> n
        [] {CS} \subseteq n.port \cap r.port /\ rises ->
             CASE r.state = "Command" -> ReceiveCommandSIO(n, now)
               [] r.state = "Receiving" -> ReceiveBufferSIO(n)
               [] r.state = "Sending" -> TransmitBufferSIO(n)
               [] r.state = "Complete" -> n

RTCRead(r) == IF {SIO, CS} \subseteq r.port THEN {SIO} ELSE {}

SolarWrite(s, mask, value) ==
  LET clk == SCK \in value \cap mask IN
  [oldClk |-> clk,
   counter |-> CASE SIO \in value \cap mask -> 0
                 [] SIO \notin value \cap mask /\ s.oldClk /\ ~clk -> (s.counter + 1) % CounterSize
                 [] OTHER -> s.counter]

SolarRead(s) == IF s.counter > Brightness THEN {FLG} ELSE {}
-----------------------------------------------------------------------------
\* The program's stores and loads.
WriteControl(allow) ==
  /\ CS \notin talk.lines \* bound
  /\ turn' = "pins"
  /\ gpio' = [gpio EXCEPT !.allowReads = allow]
  /\ raised' = FALSE
  /\ UNCHANGED <<rtc, solar, talk, heard, asked, astray, selects>>

WriteDirection(mask) ==
  /\ turn' = "pins"
  /\ gpio' = [gpio EXCEPT !.wrMask = mask]
  /\ raised' = FALSE
  /\ UNCHANGED <<rtc, solar, talk, heard, asked, astray, selects>>

OnPort(value) == Driven(gpio.portData, gpio.wrMask, value)

\* A store to the lines.  now is the host's clock, for the device that asks.
WriteData(value, now) ==
  LET n == RTCWrite(rtc, gpio.wrMask, OnPort(value), now) IN
  /\ gpio' = [gpio EXCEPT !.portData = OnPort(value)]
  /\ rtc' = n
  /\ solar' = SolarWrite(solar, gpio.wrMask, OnPort(value))
  /\ raised' = (rtc.state = "Command" /\ n.state = "Complete" /\ Raises(n)
                  /\ n.data[7] = 0)

OnLines == RTCRead(rtc) \cup SolarRead(solar)

\* A load from the lines leaves what was on them in the port.
ReadData ==
  /\ gpio.allowReads
  /\ turn' = "pins"
  /\ gpio' = [gpio EXCEPT !.portData = Driven(@, Lines \ gpio.wrMask, OnLines)]
  /\ raised' = FALSE
  /\ UNCHANGED <<rtc, solar, talk, heard, asked, astray, selects>>
-----------------------------------------------------------------------------
\* What bits clocked since a selection mean, all at once.  A command is the
\* first byte with the code 0110 at either end: the byte is read from that
\* end.
ByteAt(bits, k) == SubSeq(bits, 8 * k + 1, 8 * k + 8)
CodeFirst(byte) == SubSeq(byte, 1, 4) = CommandCode
CodeLast(byte) == SubSeq(byte, 5, 8) = CommandCode

Commands(bits) ==
  {k \in 0 .. (Len(bits) \div 8) - 1 : CodeFirst(ByteAt(bits, k)) \/ CodeLast(ByteAt(bits, k))}

\* Which register a command names, whether it asks for it, and the bits after it.
Meaning(bits) ==
  LET k == CHOOSE n \in Commands(bits) : \A other \in Commands(bits) : n <= other
      byte == IF CodeLast(ByteAt(bits, k)) THEN Reverse(ByteAt(bits, k)) ELSE ByteAt(bits, k)
  IN  [reg |-> byte[5] + 2 * byte[6] + 4 * byte[7], asks |-> byte[8] = 1,
       rest |-> SubSeq(bits, 8 * (k + 1) + 1, Len(bits))]

\* The bits of a register that is asked for or set.
Arguments(m) == 8 * rtcArgCount(m.reg)

\* A frame has a command in it and, if that sets a register, all of its bits:
\* a frame that is cut short is one that was given up.
ASSUME FrameAssumption ==
  \A f \in Frame :
    /\ f \in Seq({0, 1}) /\ Commands(f) # {}
    /\ Meaning(f).asks \/ Len(Meaning(f).rest) >= Arguments(Meaning(f))
-----------------------------------------------------------------------------
\* The program's side.  It drives the clock and select lines always and the
\* data line while it has something to say; heard and astray are what one
\* who watches the lines knows.
All == {SCK, SIO, CS}
Said == Len(heard) >= Len(talk.bits)
Answers(bits) == IF Meaning(bits).asks THEN Arguments(Meaning(bits)) ELSE 0
NextBit == IF Said \/ talk.bits[Len(heard) + 1] = 0 THEN {} ELSE {SIO}

Drive(value, now) ==
  /\ WriteData(value, now)
  /\ talk' = [talk EXCEPT !.lines = Driven(@, gpio.wrMask, value)]

TurnRound ==
  /\ CS \notin talk.lines \/ Said
  /\ WriteDirection(IF gpio.wrMask = All THEN All \ {SIO} ELSE All)

Select(frame, clock, now) ==
  /\ gpio.wrMask = All /\ CS \notin talk.lines
  /\ selects < MaxSelects
  /\ turn' = "select"
  /\ WriteData({CS} \cup clock, now)
  /\ talk' = [bits |-> frame, lines |-> {CS} \cup clock]
  /\ heard' = <<>>
  /\ astray' = (astray /\ CS \in rtc.port)
  /\ selects' = selects + 1
  /\ UNCHANGED asked

Deselect(now) ==
  /\ CS \in talk.lines
  /\ turn' = "pins"
  /\ Drive({}, now)
  /\ heard' = <<>>
  /\ UNCHANGED <<asked, astray, selects>>

\* The bit is set up while the clock is low.
SetUp(now) ==
  /\ {SCK, CS} \subseteq talk.lines
  /\ turn' = "pins"
  /\ Drive({CS} \cup NextBit, now)
  /\ UNCHANGED <<heard, asked, astray, selects>>

Clock(now) ==
  /\ CS \in talk.lines /\ SCK \notin talk.lines
  /\ Len(heard) <= Len(talk.bits) + Answers(talk.bits) \* bound
  /\ turn' = "clock"
  /\ Drive({CS, SCK} \cup NextBit, now)
  /\ heard' = Append(heard, Level(NextBit, SIO))
  /\ asked' = IF rtc.state = "Command" /\ rtc'.state = "Sending" THEN rtc'.buffer ELSE asked
  /\ UNCHANGED <<astray, selects>>

GpioNext ==
  \/ WriteControl(~gpio.allowReads)
  \/ TurnRound
  \/ ReadData
  \/ \E now \in Now :
       \/ \E frame \in Frame, clock \in SUBSET {SCK} : Select(frame, clock, now)
       \/ Deselect(now)
       \/ SetUp(now)
       \/ Clock(now)
-----------------------------------------------------------------------------
\* The clock understands what was said to it since it was selected and no
\* more, in either order of bits, whatever was broken off, reset or loaded
\* before (unless a load found the lines at other levels): it waits for the
\* bit that comes next, and it answers with the register as it was when it
\* was asked, from the lowest bit of its first byte.
FramesDecoded ==
  CS \in talk.lines /\ ~astray =>
    LET m == Meaning(heard)
        n == Len(m.rest)
    IN  /\ CASE Commands(heard) = {} ->
                  rtc.state = "Command" /\ rtc.currentBit = Len(heard) % 8
             [] Commands(heard) # {} /\ n < Arguments(m) ->
                  /\ rtc.reg = m.reg /\ rtc.state = IF m.asks THEN "Sending" ELSE "Receiving"
                  /\ rtc.currentByte = n \div 8 /\ rtc.currentBit = n % 8
             [] OTHER -> rtc.reg = m.reg /\ rtc.state = "Complete"
        /\ Commands(heard) # {} /\ m.asks /\ n \in 1 .. Arguments(m) /\ turn = "clock" =>
             Level(rtc.port, SIO) = BitOf(asked[(n - 1) \div 8], (n - 1) % 8)

\* A register is written, and the interrupt raised, by the last bit of a
\* frame that says so and by nothing else.
FramesAct ==
  [][~astray /\ ~astray' /\ turn' \in {"pins", "select", "clock"} =>
       LET m == Meaning(heard')
           n == Len(m.rest)
           acts == /\ turn' = "clock" /\ Commands(heard') # {} /\ ~m.asks
                   /\ n = Arguments(m) /\ Len(heard') % 8 = 0
           byte == Number(SubSeq(m.rest, 1, 8))
       IN  /\ raised' = (acts /\ m.reg = ForceIRQ)
           /\ rtc'.control =
                CASE acts /\ m.reg = ControlReg -> ControlOf(rtc.control, byte)
                  [] acts /\ m.reg = ForceReset -> NoControl
                  [] OTHER -> rtc.control]_<<turn, rtc, heard, raised>>
=============================================================================
