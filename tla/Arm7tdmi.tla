------------------------------- MODULE Arm7tdmi -------------------------------
(***************************************************************************)
(* The CPU at work (internal/arm): one step is one ARM7TDMI.Run, with the  *)
(* entry to an interrupt, where there is one, as a step before it.  What   *)
(* memory holds is not known, so a step runs any instruction; a scenario   *)
(* bounds which ones, and says what the first registers are.  The line of  *)
(* the interrupt controller moves at any time.                             *)
(***************************************************************************)
EXTENDS ArmHandlers, ThumbHandlers, SequencesExt

CONSTANT
  Scenario    \* bounds, by name: [start : CPUs, arm, thumb : instructions,
              \*   contents, booth, waits : what steps choose from,
              \*   irq, saves : BOOLEAN, depth : instructions run]

-----------------------------------------------------------------------------
\* The fields of an instruction and their ranges, as the decoders have them.
Register == 0 .. 15
LowRegister == 0 .. 7

Operand(s, kinds) ==
  /\ s.kind \in kinds
  /\ s.kind = "immediate" => s.value \in Word /\ s.rot \in 0 .. Width - 1
  /\ s.kind # "immediate" => s.rm \in Register /\ s.type \in ShiftKind
  /\ s.kind = "amount" => s.amount \in Nat
  /\ s.kind = "register" => s.rs \in Register

ArmEncoding(i) ==
  CASE i.op = "DataProcessing" ->
         /\ i.code \in Tests \cup {"AND", "EOR", "SUB", "RSB", "ADD", "ADC", "SBC", "RSC",
                                   "ORR", "MOV", "BIC", "MVN"}
         /\ {i.rd, i.rn} \subseteq Register
         /\ Operand(i.shifter, {"immediate", "amount", "register"})
    [] i.op = "StatusTransfer" -> i.rd \in Register /\ Operand(i.shifter, {"immediate", "amount"})
    [] i.op = "Multiply" -> {i.rd, i.rn, i.rm, i.rs} \subseteq Register
    [] i.op = "MultiplyLong" -> {i.lo, i.hi, i.rm, i.rs} \subseteq Register
    [] i.op = "SingleDataSwap" -> {i.rd, i.rn, i.rm} \subseteq Register
    [] i.op = "BranchAndExchange" -> i.rm \in Register
    [] i.op = "HalfwordSignedTransfer" ->
         /\ i.kind \in {"halfRotate", "byteSigned", "halfSigned"}
         /\ {i.rd, i.rn} \subseteq Register /\ Operand(i.shifter, {"immediate", "amount"})
    [] i.op = "BranchAndLink" -> i.offset \in Int
    [] i.op = "SingleDataTransfer" ->
         /\ i.kind \in {"byte", "wordRotate"}
         /\ {i.rd, i.rn} \subseteq Register /\ Operand(i.shifter, {"immediate", "amount"})
    [] i.op = "BlockDataTransfer" -> i.rn \in Register /\ i.list \subseteq Register
    [] OTHER -> i.op \in {"Undefined", "SWI"}

ThumbEncoding(i) ==
  CASE i.op = "MoveShiftedRegister" ->
         {i.rd, i.rs} \subseteq LowRegister /\ i.type \in ShiftKind /\ i.amount \in Nat
    [] i.op = "AddSub" -> {i.rd, i.rs, i.field3} \subseteq LowRegister
    [] i.op = "Op3" ->
         i.code \in {"MOV", "CMP", "ADD", "SUB"} /\ i.rd \in LowRegister /\ i.value \in Word
    [] i.op = "ALU" ->
         /\ i.code \in ShiftKind \cup {"AND", "EOR", "ORR", "BIC", "MVN", "TST", "ADC", "SBC",
                                       "NEG", "CMP", "CMN", "MUL"}
         /\ {i.rd, i.rs} \subseteq LowRegister
    [] i.op = "HighRegisterOps_BX" ->
         i.code \in {"ADD", "CMP", "MOV", "BX"} /\ {i.rd, i.rs} \subseteq Register
    [] i.op \in {"LoadStoreOffsetReg", "LoadStoreSigned"} ->
         /\ {i.rd, i.rb, i.ro} \subseteq LowRegister
         /\ i.kind \in {"byte", "wordRotate", "byteSigned", "halfRotate", "halfSigned"}
    [] i.op = "LoadStoreOffsetImm" ->
         /\ {i.rd, i.rb} \subseteq LowRegister /\ i.offset \in Nat
         /\ i.kind \in {"byte", "wordRotate"}
    [] i.op = "LoadStoreHword" -> {i.rd, i.rb} \subseteq LowRegister /\ i.offset \in Nat
    [] i.op \in {"LoadStoreRelativePC", "LoadStoreRelativeToSP", "LoadAddress"} ->
         i.rd \in LowRegister /\ i.offset \in Nat
    [] i.op = "PushPop" -> i.list \subseteq LowRegister
    [] i.op = "LoadStoreMultiple" -> i.rb \in LowRegister /\ i.list \subseteq LowRegister
    [] i.op \in {"AddOffsetToSP", "ConditionalBranch", "UnconditionalBranch", "LongBranchLink"} ->
         i.offset \in Int
    [] OTHER -> i.op = "SWI"

\* Registers hold words, in every bank, and the modes are numbers of five bits.
HoldsMode(p) == DOMAIN p = DOMAIN ZeroPSR /\ p.mode \in 0 .. 31 /\ p.t \in BOOLEAN

HoldsWords(c) ==
  /\ DOMAIN c = DOMAIN ResetState
  /\ c.reg \in [Register -> Word] /\ c.bank \in [Bank -> [Banked -> Word]]
  /\ HoldsMode(c.cpsr)
  /\ DOMAIN c.spsr = Bank /\ \A b \in Bank : HoldsMode(c.spsr[b])
  /\ c.pSpsr \in Bank
  /\ c.contents \in Int

\* The opcodes in the pipeline are those before r15.
Follows(c) ==
  LET width == IF c.cpsr.t THEN 2 ELSE 4 IN
  \A k \in 1 .. 2 :
    c.pipe[k].nop \/ c.pipe[k] = Fetched(Wrap(c.reg[15] - (3 - k) * width), c.cpsr.t)

ASSUME ScenarioAssumption ==
  \A s \in DOMAIN Scenario :
    /\ \A c \in Scenario[s].start :
         HoldsWords(c) /\ Follows(c) /\ DOMAIN c.pipe = 1 .. 2 /\ c.sequential = FALSE /\ c.bus = <<>>
           /\ c.pSpsr = BankOf(c.cpsr.mode)
    /\ \A i \in Scenario[s].arm : ArmEncoding(i)
    /\ \A i \in Scenario[s].thumb : ThumbEncoding(i)
    /\ Scenario[s].contents \subseteq Int

VARIABLES
  cpu,        \* the ARM7TDMI
  polled,     \* Run has looked at IrqLine
  saved,      \* the save state, with the history of its moment
  scenario,   \* which bound is in force
  runs,       \* bound: the instructions run
  ran,        \* history: the last step [kind, bank, instr]
  frame       \* history: where each bank's exception came from, while its r14
              \* and saved status are as the exception left them

cpuVars == <<cpu, polled, saved, scenario, runs, ran, frame>>

NoFrame == [next |-> Nop, cpsr |-> ZeroPSR]
Frames == [b \in Bank |-> NoFrame]

NoInstr == [op |-> "none"]
Event(kind, bank) == [kind |-> kind, bank |-> bank, instr |-> NoInstr]

CpuInit ==
  /\ scenario \in DOMAIN Scenario
  /\ cpu \in Scenario[scenario].start
  /\ polled = FALSE
  /\ saved = [cpu |-> ResetState, frame |-> Frames]
  /\ runs = 0
  /\ ran = Event("reset", "none")
  /\ frame = Frames
-----------------------------------------------------------------------------
ArmHandler(c, i) ==
  CASE i.op = "DataProcessing" -> ARM_DataProcessing(c, i)
    [] i.op = "StatusTransfer" -> ARM_StatusTransfer(c, i)
    [] i.op = "Multiply" -> ARM_Multiply(c, i)
    [] i.op = "MultiplyLong" -> ARM_MultiplyLong(c, i)
    [] i.op = "SingleDataSwap" -> ARM_SingleDataSwap(c, i)
    [] i.op = "BranchAndExchange" -> ARM_BranchAndExchange(c, i)
    [] i.op = "HalfwordSignedTransfer" -> ARM_HalfwordSignedTransfer(c, i)
    [] i.op = "BranchAndLink" -> ARM_BranchAndLink(c, i)
    [] i.op = "SingleDataTransfer" -> ARM_SingleDataTransfer(c, i)
    [] i.op = "BlockDataTransfer" -> ARM_BlockDataTransfer(c, i)
    [] i.op = "Undefined" -> ARM_Undefined(c, i)
    [] i.op = "SWI" -> ARM_SWI(c, i)

ThumbHandler(c, i) ==
  CASE i.op = "MoveShiftedRegister" -> Thumb_MoveShiftedRegister(c, i)
    [] i.op = "AddSub" -> Thumb_AddSub(c, i)
    [] i.op = "Op3" -> Thumb_Op3(c, i)
    [] i.op = "ALU" -> Thumb_ALU(c, i)
    [] i.op = "HighRegisterOps_BX" -> Thumb_HighRegisterOps_BX(c, i)
    [] i.op = "LoadStoreRelativePC" -> Thumb_LoadStoreRelativePC(c, i)
    [] i.op = "LoadStoreOffsetReg" -> Thumb_LoadStoreOffsetReg(c, i)
    [] i.op = "LoadStoreSigned" -> Thumb_LoadStoreSigned(c, i)
    [] i.op = "LoadStoreOffsetImm" -> Thumb_LoadStoreOffsetImm(c, i)
    [] i.op = "LoadStoreHword" -> Thumb_LoadStoreHword(c, i)
    [] i.op = "LoadStoreRelativeToSP" -> Thumb_LoadStoreRelativeToSP(c, i)
    [] i.op = "LoadAddress" -> Thumb_LoadAddress(c, i)
    [] i.op = "AddOffsetToSP" -> Thumb_AddOffsetToSP(c, i)
    [] i.op = "PushPop" -> Thumb_PushPop(c, i)
    [] i.op = "LoadStoreMultiple" -> Thumb_LoadStoreMultiple(c, i)
    [] i.op = "ConditionalBranch" -> Thumb_ConditionalBranch(c, i)
    [] i.op = "SWI" -> Thumb_SWI(c, i)
    [] i.op = "UnconditionalBranch" -> Thumb_UnconditionalBranch(c, i)
    [] i.op = "LongBranchLink" -> Thumb_LongBranchLink(c, i)

\* The architecture leaves these unpredictable and no program uses them: a
\* change of the Thumb bit without a jump, a status or a test for the pc, a base
\* that is the pc and written back, a user-bank transfer with write-back.
Predictable(c, i) ==
  CASE i.op = "StatusTransfer" ->
         IF i.toStatus THEN MSR(c, i).cpsr.t = c.cpsr.t ELSE i.rd # 15
    [] i.op = "DataProcessing" -> i.code \in Tests => i.rd # 15
    [] i.op \in {"HalfwordSignedTransfer", "SingleDataTransfer"} ->
         i.writeback \/ ~i.pre => i.rn # 15
    [] i.op = "BlockDataTransfer" -> i.writeback => i.rn # 15 /\ ~i.userMode
    [] OTHER -> TRUE

\* The registers an instruction names as its destinations, as the reference
\* manual has them: the pc aside.
Named(i) ==
  LET loads == IF i.load THEN {i.rd} ELSE {} IN
  (CASE i.op \in {"DataProcessing", "Op3", "ALU", "HighRegisterOps_BX"} ->
          IF i.code \in Tests \cup {"BX"} THEN {} ELSE {i.rd}
     [] i.op = "StatusTransfer" ->
          IF ~i.toStatus THEN {i.rd} ELSE IF i.useSPSR THEN {SavedStatus} ELSE {}
     [] i.op = "MultiplyLong" -> {i.lo, i.hi}
     [] i.op \in {"Multiply", "SingleDataSwap", "MoveShiftedRegister", "AddSub", "LoadAddress"} ->
          {i.rd}
     [] i.op = "BranchAndLink" -> IF i.link THEN {14} ELSE {}
     [] i.op = "LongBranchLink" -> {14}
     [] i.op \in {"HalfwordSignedTransfer", "SingleDataTransfer"} ->
          loads \cup IF i.writeback \/ ~i.pre THEN {i.rn} ELSE {}
     [] i.op = "BlockDataTransfer" ->
          (IF i.load THEN i.list ELSE {}) \cup IF i.writeback THEN {i.rn} ELSE {}
     [] i.op = "LoadStoreRelativePC" -> {i.rd}
     [] i.op \in {"LoadStoreOffsetReg", "LoadStoreSigned", "LoadStoreOffsetImm",
                  "LoadStoreHword", "LoadStoreRelativeToSP"} -> loads
     [] i.op = "AddOffsetToSP" -> {13}
     [] i.op = "PushPop" -> {13} \cup IF i.pop THEN i.list ELSE {}
     [] i.op = "LoadStoreMultiple" -> {i.rb} \cup IF i.load THEN i.list ELSE {}
     [] OTHER -> {}) \ {15}

\* A transfer of the user's registers out of another mode.
UserTransfer(c, i) ==
  /\ i.op = "BlockDataTransfer" /\ i.userMode
  /\ ~(i.load /\ (15 \in i.list \/ i.list = {}))

NamedBank(c, i) == IF UserTransfer(c, i) THEN "none" ELSE BankOf(c.cpsr.mode)
-----------------------------------------------------------------------------
Bounds == Scenario[scenario]

\* The interrupt controller moves the line.
SetIRQLine(v) ==
  /\ Bounds.irq
  /\ ~polled
  /\ runs < Bounds.depth
  /\ cpu.irqLine # v
  /\ cpu' = [cpu EXCEPT !.irqLine = v]
  /\ ran' = Event("instruction", "none")
  /\ UNCHANGED <<polled, saved, scenario, runs, frame>>

Interrupts == cpu.irqLine /\ ~cpu.latchIrqDisable

Begun(slow) == [cpu EXCEPT !.bus = <<>>, !.slow = slow]

\* What a step chose does not outlive it.
Ended(c) == [c EXCEPT !.slow = FALSE, !.contents = 0, !.booth = FALSE]

SignalIRQ(slow) ==
  /\ runs < Bounds.depth
  /\ ~polled /\ Interrupts
  /\ cpu' = Ended(Interrupted(Begun(slow)))
  /\ frame' = [frame EXCEPT !["irq"] = [next |-> cpu.pipe[1], cpsr |-> cpu.cpsr]]
  /\ polled' = TRUE
  /\ ran' = Event("exception", "irq")
  /\ UNCHANGED <<saved, scenario, runs>>

Traps(i) == i.op \in {"SWI", "Undefined"}
TrapBank(i) == IF i.op = "SWI" THEN "svc" ELSE "und"

\* The frames after an instruction: an exception makes one, a store to its
\* registers ends one.
FramesAfter(i) ==
  CASE Traps(i) ->
         [frame EXCEPT ![TrapBank(i)] = [next |-> cpu.pipe[2], cpsr |-> cpu.cpsr]]
    [] ~Traps(i) /\ Named(i) \cap {14, SavedStatus} # {} ->
         [frame EXCEPT ![NamedBank(cpu, i)] = NoFrame]
    [] OTHER -> frame

Ran(i) ==
  [kind |-> IF Traps(i) THEN "exception" ELSE "instruction",
   bank |-> IF Traps(i) THEN TrapBank(i) ELSE NamedBank(cpu, i),
   instr |-> i]

\* The part of Run that all instructions share.
Running ==
  /\ runs < Bounds.depth
  /\ polled \/ ~Interrupts
  /\ polled' = FALSE
  /\ runs' = runs + 1
  /\ UNCHANGED <<saved, scenario>>

\* The CPU as a handler finds it: what memory holds is anybody's guess.
Ready(slow, contents, booth) ==
  [FetchedNext(Begun(slow)) EXCEPT !.contents = contents, !.booth = booth]

RunArm(i, slow, contents, booth) ==
  /\ Running
  /\ ~cpu.cpsr.t /\ ~cpu.pipe[1].nop
  /\ Predictable(Ready(slow, contents, booth), i)
  /\ CheckCondition(i.cond, cpu.cpsr)
  /\ cpu' = Ended(ArmHandler(Ready(slow, contents, booth), i))
  /\ frame' = FramesAfter(i)
  /\ ran' = Ran(i)

RunThumb(i, slow, contents, booth) ==
  /\ Running
  /\ cpu.cpsr.t
  /\ cpu' = Ended(ThumbHandler(Ready(slow, contents, booth), i))
  /\ frame' = FramesAfter(i)
  /\ ran' = Ran(i)

\* An instruction whose condition does not hold, or one Reset put there.
Skip(cond, slow) ==
  /\ Running
  /\ ~cpu.cpsr.t
  /\ cpu.pipe[1].nop => cond = "NV"
  /\ ~CheckCondition(cond, cpu.cpsr)
  /\ cpu' = Ended(Skipped(FetchedNext(Begun(slow))))
  /\ ran' = Event("instruction", "none")
  /\ UNCHANGED frame

\* The CPU's part of saving a state, and of loading it.
CopyState ==
  /\ Bounds.saves
  /\ ~polled
  /\ saved' = [cpu |-> cpu, frame |-> frame]
  /\ ran' = Event("save", "none")
  /\ UNCHANGED <<cpu, polled, scenario, runs, frame>>

LoadState ==
  /\ Bounds.saves
  /\ ~polled
  /\ cpu' = Restored(saved.cpu)
  /\ frame' = saved.frame
  /\ ran' = Event("load", "none")
  /\ UNCHANGED <<polled, saved, scenario, runs>>

Reset ==
  /\ ~polled
  /\ cpu' = ResetState
  /\ frame' = Frames
  /\ ran' = Event("reset", "none")
  /\ UNCHANGED <<polled, saved, scenario, runs>>

CpuNext ==
  \/ \E v \in BOOLEAN : SetIRQLine(v)
  \/ \E slow \in Bounds.waits : SignalIRQ(slow)
  \/ \E slow \in Bounds.waits :
       \E cond \in {i.cond : i \in Bounds.arm} \cup {"NV"} : Skip(cond, slow)
  \/ \E slow \in Bounds.waits, contents \in Bounds.contents, booth \in Bounds.booth :
       \/ \E i \in Bounds.arm : RunArm(i, slow, contents, booth)
       \/ \E i \in Bounds.thumb : RunThumb(i, slow, contents, booth)
  \/ CopyState
  \/ LoadState
  \/ Reset

CpuSpec == CpuInit /\ [][CpuNext]_cpuVars
-----------------------------------------------------------------------------
\* The flat file the banks stand for: a bank that is in use is in the registers.
File(c) ==
  LET here == BankOf(c.cpsr.mode) IN
  [s \in Slots |->
     CASE s[2] = SavedStatus -> PSRWord(c.spsr[s[1]])
       [] s[2] \in 0 .. 7 -> c.reg[s[2]]
       [] s[2] \in 8 .. 12 ->
            IF (s[1] = "fiq") = (here = "fiq") THEN c.reg[s[2]] ELSE c.bank[s[1]][s[2]]
       [] s[2] \in 13 .. 14 -> IF s[1] = here THEN c.reg[s[2]] ELSE c.bank[s[1]][s[2]]]

F == INSTANCE Registers WITH
       file <- File(cpu), mode <- cpu.cpsr.mode, status <- PSRWord(cpu.cpsr),
       conflict <- ldmUsermode(cpu), backup <- File(saved.cpu),
       doing <- [kind |-> ran.kind, bank |-> ran.bank, named |-> Named(ran.instr)]

\* Banking loses nothing and mixes nothing up: whatever modes the program
\* and its exceptions go through, copying registers between the file in use
\* and the banks gives what a flat file with a slot for every register of
\* every mode would (SwitchMode, GetReg, SetReg and all handlers).
ImplementsRegisters == F!Spec

\* The opcode that runs next and the one after it were fetched from the two
\* places before r15, with the width of the state the CPU is in: no handler
\* forgets to reload after it moved the pc, nor to move it.
PipelineFollowsPC == Follows(cpu)

\* The next opcode is only fetched as a sequential access when the last
\* thing on the bus was the fetch of the one before it: after a load, a store
\* or an idle cycle the bus has to be told that the address jumps.
SequentialContinues ==
  LET last == cpu.bus[Len(cpu.bus)] IN
  cpu.sequential =>
    /\ cpu.bus # <<>>
    /\ last.kind = "code" /\ last.at = cpu.pipe[2]

IsReturn(i, b) ==
  /\ i.op = "DataProcessing" /\ i.s /\ i.rd = 15
  /\ \/ b = "irq" /\ i.code = "SUB" /\ i.rn = 14
        /\ i.shifter = [kind |-> "immediate", value |-> 4, rot |-> 0]
     \/ b \in {"svc", "und"} /\ i.code = "MOV"
        /\ i.shifter = [kind |-> "amount", rm |-> 14, type |-> "LSL", amount |-> 0]

\* The return from an exception, by the instruction its manual prescribes,
\* goes on with the instruction that was to run next when it was entered, in
\* the same mode and state and with the same flags and masks, however many
\* exceptions and changes of mode lie between.
ExceptionsReturn ==
  [][LET b == BankOf(cpu.cpsr.mode) IN
       IsReturn(ran'.instr, b) /\ frame[b] # NoFrame /\ ~ldmUsermode(cpu)
         => cpu'.cpsr = frame[b].cpsr /\ cpu'.pipe[1] = frame[b].next]_cpuVars
-----------------------------------------------------------------------------
\* The exact results of the arithmetic instructions, over the integers.
Exact(code, a, b, carry) ==
  CASE code \in {"SUB", "CMP"} -> a - b
    [] code = "RSB" -> b - a
    [] code = "NEG" -> 0 - b
    [] code \in {"ADD", "CMN"} -> a + b
    [] code = "ADC" -> a + b + carry
    [] code = "SBC" -> a - b - (1 - carry)
    [] code = "RSC" -> b - a - (1 - carry)

Sums == {"ADD", "CMN", "ADC"}
Differences == {"SUB", "CMP", "RSB", "NEG", "SBC", "RSC"}

\* The registers as a handler finds them: Run clears the lowest bit of r15.
Found(r) == IF r = 15 THEN Aligned(cpu.reg[15], 2) ELSE cpu.reg[r]

\* The bank of an invalid mode takes no stores, and in the user-bank window
\* the registers of two modes meet.
Plainly == ~cpu.cpuModeInvalid /\ ~ldmUsermode(cpu)

\* The instructions whose operands can be read off: unshifted ones.
PlainOperands(i) ==
  CASE i.op = "DataProcessing" /\ i.shifter.kind = "immediate" /\ i.shifter.rot = 0 ->
         <<i.rn, i.shifter.value>>
    [] i.op = "DataProcessing" /\ i.shifter.kind = "amount"
         /\ i.shifter.type = "LSL" /\ i.shifter.amount = 0 ->
         <<i.rn, Found(i.shifter.rm)>>
    [] i.op = "ALU" -> <<i.rd, cpu.reg[i.rs]>>
    [] i.op = "Op3" -> <<i.rd, i.value>>
    [] OTHER -> <<>>

SetsFlags(i) == i.op \in {"ALU", "Op3"} \/ i.s \/ i.code \in Tests

\* What an instruction that computes must leave: the flags of the exact result.
ComputesExactly ==
  LET i == ran'.instr
      carry == IF cpu.cpsr.c THEN 1 ELSE 0
      a == Found(PlainOperands(i)[1])
      b == PlainOperands(i)[2]
      u == Exact(i.code, a, b, carry)
      s == Exact(i.code, Signed(a), Signed(b), carry)
      p == cpu'.cpsr
  IN  /\ i.op \in {"DataProcessing", "ALU", "Op3"}
      /\ i.code \in Sums \cup Differences
      /\ PlainOperands(i) # <<>> /\ SetsFlags(i) /\ i.rd # 15
      /\ Plainly
      => /\ p.z = (Wrap(u) = 0)
         /\ p.c = IF i.code \in Sums THEN u >= Size ELSE u >= 0
         /\ p.v = (s \notin -Top .. Top - 1)
         /\ CheckCondition("LT", p) = (s < 0)
         /\ CheckCondition("GT", p) = (s >= 0 /\ Wrap(u) # 0)
         /\ i.code \notin Tests => cpu'.reg[i.rd] = Wrap(u)

\* The flags are those of the exact result: the carry tells whether it left
\* the words, the overflow whether it left the signed words, the conditions
\* LT and GE its true sign.  Two instructions of which the second takes the
\* first one's carry so compare and add numbers of two words (ADD, ADC, SUB,
\* SBC and the handlers that choose their operands).
FlagsAreArithmetic == [][ComputesExactly]_cpuVars

\* Where bit k of a word shifted by n places comes from, and its carry.
ShiftedBit(kind, x, n, k) ==
  CASE kind = "LSL" -> k >= n /\ Bit(x, k - n)
    [] kind = "LSR" -> k + n < Width /\ Bit(x, k + n)
    [] kind = "ASR" -> Bit(x, IF k + n < Width THEN k + n ELSE Width - 1)
    [] kind = "ROR" -> Bit(x, (k + n) % Width)

ShiftedOut(kind, x, n) ==
  CASE kind = "LSL" -> n <= Width /\ Bit(x, Width - n)
    [] kind = "LSR" -> n <= Width /\ Bit(x, n - 1)
    [] kind = "ASR" -> Bit(x, IF n <= Width THEN n - 1 ELSE Width - 1)
    [] kind = "ROR" -> Bit(x, (n - 1) % Width)

\* The register, the kind and the amount of a shift that only moves a word,
\* and whether the amount is in the instruction.
ShiftOf(i) ==
  CASE i.op = "MoveShiftedRegister" -> <<i.rs, i.type, i.amount, TRUE>>
    [] i.op = "ALU" /\ i.code \in ShiftKind -> <<i.rd, i.code, cpu.reg[i.rs], FALSE>>
    [] i.op = "DataProcessing" /\ i.code = "MOV" /\ i.s /\ i.shifter.kind = "amount" ->
         <<i.shifter.rm, i.shifter.type, i.shifter.amount, TRUE>>
    [] i.op = "DataProcessing" /\ i.code = "MOV" /\ i.s /\ i.shifter.kind = "register" ->
         <<i.shifter.rm, i.shifter.type, Found(i.shifter.rs), FALSE>>
    [] OTHER -> <<>>

\* What a shift must leave of x: its bits in r and the last one out in the carry.
\* An amount of none in the instruction means all places, or one through the carry.
MovedExactly(kind, x, amount, c, encoded, r, carry) ==
  LET given == amount % 2 ^ AmountWidth
      n == IF encoded /\ given = 0 /\ kind \in {"LSR", "ASR"} THEN Width ELSE given
      through == encoded /\ given = 0 /\ kind = "ROR"
  IN  /\ \A k \in Bits :
           Bit(r, k) <=> IF through THEN IF k = Width - 1 THEN c ELSE Bit(x, k + 1)
                         ELSE ShiftedBit(kind, x, n, k)
      /\ carry = CASE through -> Bit(x, 0)
                   [] ~through /\ n = 0 -> c
                   [] OTHER -> ShiftedOut(kind, x, n)

ShiftsExactly ==
  LET i == ran'.instr
      s == ShiftOf(i)
  IN  s # <<>> /\ 15 \notin {i.rd, s[1]} /\ Plainly
      => MovedExactly(s[2], cpu.reg[s[1]], s[3], cpu.cpsr.c, s[4], cpu'.reg[i.rd], cpu'.cpsr.c)

\* Shifts move every bit to its place and leave the last bit shifted out in
\* the carry, for every amount: none, the width of a word, more than that,
\* the zeros an encoding gives another meaning, and registers whose upper
\* bits do not count (DoShift and the four shifts).
ShiftsAreExact == [][ShiftsExactly]_cpuVars

\* A block transfer as its mnemonic describes it: the registers, the base,
\* whether the words lie above it and whether the word at it is left out.
Block(i) ==
  CASE i.op = "BlockDataTransfer" ->
         [load |-> i.load, regs |-> i.list, base |-> i.rn, up |-> i.add, before |-> i.pre,
          back |-> i.writeback]
    [] i.op = "PushPop" ->
         [load |-> i.pop, base |-> 13, up |-> i.pop, before |-> ~i.pop, back |-> TRUE,
          regs |-> i.list \cup (CASE ~i.r -> {} [] i.r /\ i.pop -> {15} [] OTHER -> {14})]
    [] i.op = "LoadStoreMultiple" ->
         [load |-> i.load, regs |-> i.list, base |-> i.rb, up |-> TRUE, before |-> FALSE,
          back |-> TRUE]

\* A block transfer puts the lowest register at the lowest address and the
\* others above it without a gap, on the side of the base its mnemonic names;
\* every word reaches or comes from its own register in the bank that is
\* meant, and the base ends at the far end of the block unless it was loaded
\* (ARM_BlockDataTransfer, which turns every direction into an ascending one,
\* and the Thumb handlers, which count by hand).
BlocksInOrder ==
  [][LET i == ran'.instr
         block == Block(i)
         n == Cardinality(block.regs)
         base == cpu.reg[block.base]
         regs == SetToSortSeq(block.regs, <)
         low == base + (IF block.up THEN 0 ELSE 0 - 4 * n) + (IF block.up = block.before THEN 4 ELSE 0)
         units == SelectSeq(cpu'.bus, LAMBDA a : a.kind \in {"read", "write"})
         Held(c, r) == File(c)[Slot(ran'.bank, r)]
     IN  /\ i.op \in {"BlockDataTransfer", "PushPop", "LoadStoreMultiple"}
         /\ block.regs # {} /\ ran'.bank # "invalid" /\ ~ldmUsermode(cpu)
         => /\ Len(units) = n
            /\ \A k \in 1 .. n :
                 /\ units[k].at = Wrap(low + 4 * (k - 1))
                 /\ block.load /\ regs[k] # 15 => Held(cpu', regs[k]) = units[k].value
                 /\ ~block.load /\ regs[k] \notin {15, block.base} =>
                      units[k].value = Held(cpu, regs[k])
            /\ block.back /\ ~(block.load /\ block.base \in block.regs) =>
                 cpu'.reg[block.base] = Wrap(IF block.up THEN base + 4 * n ELSE base - 4 * n)]_cpuVars
=============================================================================
