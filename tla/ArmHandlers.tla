------------------------------ MODULE ArmHandlers ------------------------------
(***************************************************************************)
(* The handlers of the 32-bit instructions (internal/arm/handler32.go).  A *)
(* handler maps the CPU after the fetch to the CPU after the instruction.  *)
(* An instruction is a record of the fields its encoding has.              *)
(***************************************************************************)
EXTENDS Cpu

\* ADD, ADC, SUB, SBC and the logical operations, by the name of the opcode.
Computed(code, a, b, carry, p) ==
  LET borrow == IF p.c THEN 0 ELSE 1 IN
  CASE code = "SUB" -> Subtracted(a, b, 0)
    [] code = "CMP" -> Subtracted(a, b, 0)
    [] code = "RSB" -> Subtracted(b, a, 0)
    [] code = "ADD" -> Added(a, b, 0)
    [] code = "CMN" -> Added(a, b, 0)
    [] code = "ADC" -> Added(a, b, 1 - borrow)
    [] code = "SBC" -> Subtracted(a, b, borrow)
    [] code = "RSC" -> Subtracted(b, a, borrow)
    [] code \in {"AND", "TST"} -> Logical(And(a, b), carry, p.v)
    [] code \in {"EOR", "TEQ"} -> Logical(Xor(a, b), carry, p.v)
    [] code = "ORR" -> Logical(Or(a, b), carry, p.v)
    [] code = "BIC" -> Logical(And(a, Not(b)), carry, p.v)
    [] code = "MOV" -> Logical(b, carry, p.v)
    [] code = "MVN" -> Logical(Not(b), carry, p.v)

Tests == {"TST", "TEQ", "CMP", "CMN"}

\* The second operand, as c sees the registers; the amount was read earlier.
Shifted(c, s, amount) ==
  IF s.kind = "immediate" THEN Immediate(s.value, s.rot, c.cpsr.c)
  ELSE DoShift(s.type, GetReg(c, s.rm), amount, c.cpsr.c, s.kind = "amount")

ARM_DataProcessing(c, i) ==
  LET byRegister == i.shifter.kind = "register"
      amount ==
        CASE byRegister -> GetReg(c, i.shifter.rs)
          [] i.shifter.kind = "amount" -> i.shifter.amount
          [] OTHER -> 0
      c1 == IF byRegister THEN Nonsequential(Idle(Advance(c, 4))) ELSE Sequential(c)
      op2 == Shifted(c1, i.shifter, amount)
      a == Computed(i.code, GetReg(c1, i.rn), op2.value, op2.carry, c.cpsr)
      test == i.code \in Tests
      c2 == IF i.s \/ test THEN SetFlags(c1, a) ELSE c1
      c3 == IF test THEN c2 ELSE SetReg(c2, i.rd, a.value)
      c4 == IF i.s /\ i.rd = 15 THEN RestorePSR(c3) ELSE c3
  IN  CASE i.rd = 15 /\ ~test -> ReloadSame(c4)
        [] byRegister /\ (i.rd # 15 \/ test) -> c4
        [] OTHER -> Advance(c4, 4)

\* The fields of q that a transfer to a status register selects.
Merged(p, q, i) ==
  [b \in DOMAIN p |->
     IF IF b \in {"mode", "t", "f", "i"} THEN i.control ELSE i.flags
     THEN q[b] ELSE p[b]]

MRS(c, i) == SetReg(c, i.rd, PSRWord(IF i.useSPSR THEN GetSPSR(c) ELSE c.cpsr))

MSR(c, i) ==
  LET op == WordPSR(IF i.shifter.kind = "immediate"
                    THEN Immediate(i.shifter.value, i.shifter.rot, FALSE).value
                    ELSE GetReg(c, i.shifter.rm))
      \* the modes of four bits do not exist
      real == [op EXCEPT !.mode = IF @ \div 16 = 1 THEN @ ELSE @ + 16]
      fields == [i EXCEPT !.control = i.control /\ c.cpsr.mode # ModeNumber.usr]
      c1 == IF fields.control THEN SwitchMode(c, real.mode) ELSE c
  IN  CASE ~i.useSPSR -> [c1 EXCEPT !.cpsr = Merged(@, real, fields)]
        [] i.useSPSR /\ (c.pSpsr = "none" \/ c.cpuModeInvalid) -> c
        [] OTHER -> [c EXCEPT !.spsr[c.pSpsr] = Merged(GetSPSR(c), op, i)]

ARM_StatusTransfer(c, i) ==
  Advance(Sequential(IF i.toStatus THEN MSR(c, i) ELSE MRS(c, i)), 4)

\* A handler that has written a register the program may use as the pc.
Reloading(c, rs) == IF 15 \in rs THEN Reload(c, FALSE) ELSE c

ARM_Multiply(c, i) ==
  LET c1 == Idle(Advance(Nonsequential(c), 4))
      sum == Added(Product(GetReg(Advance(c, 4), i.rm), GetReg(Advance(c, 4), i.rs)),
                   IF i.accumulate THEN GetReg(c1, i.rn) ELSE 0, 0)
      c2 == IF i.s THEN SetFlags(c1, Logical(sum.value, c.booth, c.cpsr.v)) ELSE c1
  IN  Reloading(SetReg(c2, i.rd, sum.value), {i.rd})

ARM_MultiplyLong(c, i) ==
  LET c1 == Idle(Idle(Advance(Nonsequential(c), 4)))
      p == LongProduct(i.signExtend, GetReg(Advance(c, 4), i.rm), GetReg(Advance(c, 4), i.rs),
                       IF i.accumulate THEN GetReg(c1, i.hi) ELSE 0,
                       IF i.accumulate THEN GetReg(c1, i.lo) ELSE 0)
      flags == [n |-> Negative(p.hi), z |-> p.hi = 0 /\ p.lo = 0,
                c |-> c.booth, v |-> c.cpsr.v]
      c2 == IF i.s THEN SetFlags(c1, flags) ELSE c1
  IN  Reloading(SetReg(SetReg(c2, i.lo, p.lo), i.hi, p.hi), {i.lo, i.hi})

\* What a store leaves on the bus.
Narrow(kind, value) ==
  CASE kind = "byte" -> value % 2 ^ ByteBits
    [] kind = "halfRotate" -> value % 2 ^ HalfBits
    [] OTHER -> value

ARM_SingleDataSwap(c, i) ==
  LET c1 == Advance(Nonsequential(c), 4)
      at == GetReg(c1, i.rn)
      kind == IF i.byte THEN "byte" ELSE "wordRotate"
      c2 == Read(c1, kind, at)
      c3 == Idle(Write(c2, at, Narrow(kind, GetReg(c2, i.rm))))
  IN  Reloading(SetReg(c3, i.rd, ReadAs(c1, kind, at)), {i.rd})

ARM_BranchAndExchange(c, i) ==
  LET address == GetReg(c, i.rm) IN
    IF address % 2 = 1
    THEN Jump([c EXCEPT !.cpsr.t = TRUE], address - 1, TRUE)
    ELSE Jump(c, address, FALSE)

\* The loads and stores of one register.  There are no signed stores: their
\* encodings only take time.
Transferred(c, i, distance) ==
  LET offset == IF i.add THEN distance ELSE Wrap(0 - distance)
      address == IF i.pre THEN Wrap(GetReg(c, i.rn) + offset) ELSE GetReg(c, i.rn)
      c1 == Advance(Nonsequential(c), 4)
      Rebased(x) ==
        IF i.writeback \/ ~i.pre THEN SetReg(x, i.rn, Wrap(GetReg(x, i.rn) + offset)) ELSE x
      loaded == Idle(Rebased(Read(c1, i.kind, address)))
  IN  CASE i.load -> Reloading(SetReg(loaded, i.rd, ReadAs(c1, i.kind, address)), {i.rd})
        [] ~i.load /\ i.kind = "byteSigned" -> Idle(Rebased(Idle(c1)))
        [] ~i.load /\ i.kind = "halfSigned" -> Rebased(Idle(c1))
        [] OTHER -> Rebased(Write(c1, address, Narrow(i.kind, GetReg(c1, i.rd))))

ARM_HalfwordSignedTransfer(c, i) ==
  Transferred(c, i, IF i.shifter.kind = "immediate" THEN i.shifter.value
                    ELSE GetReg(c, i.shifter.rm))

ARM_SingleDataTransfer(c, i) ==
  Transferred(c, i, IF i.shifter.kind = "immediate" THEN i.shifter.value
                    ELSE Shifted(c, i.shifter, i.shifter.amount).value)

ARM_BranchAndLink(c, i) ==
  LET c1 == IF i.link THEN SetReg(c, 14, Wrap(c.reg[15] - 4)) ELSE c IN
    Jump(c1, Wrap(c.reg[15] + 4 * i.offset), FALSE)

\* Whether the address moves before each unit, when all go upwards.  A bug:
\* leaving the bit as it is for the descending ones.
PreAsEncoded(i) == i.pre
PreUpwards(i) == i.pre = i.add

\* The unit of a block for register r: the registers of the list, the lowest at
\* the lowest address; the base is written back with the first.
BlockUnit(c, i, list, low, far, r) ==
  LET Rebased(x) == IF i.writeback /\ Below(list, r) = 0 THEN SetReg(x, i.rn, far) ELSE x
      at == Wrap(low + 4 * (Below(list, r) + (IF PreUpwards(i) THEN 1 ELSE 0)))
  IN  IF i.load THEN SetReg(Rebased(Read(c, "word", at)), r, ReadAs(c, "word", at))
      ELSE Rebased(Write(c, at, GetReg(c, r)))

BlockUnits(c, i, list, low, far) ==
  LET moved[n \in 0 .. 16] ==
        CASE n = 0 -> c
          [] n > 0 /\ n - 1 \in list -> BlockUnit(moved[n - 1], i, list, low, far, n - 1)
          [] OTHER -> moved[n - 1]
  IN  moved[16]

\* Several registers.  An empty list stands for the pc and counts as sixteen.
ARM_BlockDataTransfer(c, i) ==
  LET list == IF i.list = {} THEN {15} ELSE i.list
      bytes == IF i.list = {} THEN 64 ELSE 4 * Cardinality(i.list)
      switch == /\ i.userMode
                /\ ~(i.load /\ 15 \in list)
                /\ c.cpsr.mode \notin {ModeNumber.usr, ModeNumber.sys}
      base == GetReg(c, i.rn)
      far == Wrap(IF i.add THEN base + bytes ELSE base - bytes)
      c1 == IF switch THEN SwitchMode(c, ModeNumber.usr) ELSE c
      moved == BlockUnits(Advance(Nonsequential(c1), 4), i, list, IF i.add THEN base ELSE far, far)
      loaded == IF switch THEN [Idle(moved) EXCEPT !.conflict = 2] ELSE Idle(moved)
      returned == IF i.userMode THEN RestorePSR(loaded) ELSE loaded
      c2 == CASE ~i.load -> moved
              [] i.load /\ 15 \in list -> ReloadSame(returned)
              [] OTHER -> loaded
  IN  IF switch THEN SwitchMode(c2, c.cpsr.mode) ELSE c2

ARM_Undefined(c, i) ==
  Jump(SetReg(Enter(c, "und"), 14, Wrap(c.reg[15] - 4)), 4, FALSE)

ARM_SWI(c, i) ==
  Jump(SetReg(Enter(c, "svc"), 14, Wrap(c.reg[15] - 4)), 8, FALSE)
=============================================================================
