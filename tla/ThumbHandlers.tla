----------------------------- MODULE ThumbHandlers -----------------------------
(***************************************************************************)
(* The handlers of the 16-bit instructions (internal/arm/handler16.go).    *)
(* They use the registers as they are, without GetReg and SetReg.          *)
(***************************************************************************)
EXTENDS Cpu

\* The pc and the next access after an instruction that did nothing else on
\* the bus, and before one that will.
Stepped(c) == Advance(Sequential(c), 2)
Hurried(c) == Advance(Sequential(c), 2)    \* a bug: nothing told to the bus
Busy(c) == Advance(Nonsequential(c), 2)

\* The flags of a computation, and its value into a register.
Keep(c, a, rd) == PutReg(SetFlags(c, a), rd, a.value)

Thumb_MoveShiftedRegister(c, i) ==
  LET s == DoShift(i.type, c.reg[i.rs], i.amount, c.cpsr.c, TRUE) IN
    Stepped(Keep(c, Logical(s.value, s.carry, c.cpsr.v), i.rd))

Thumb_AddSub(c, i) ==
  LET operand == IF i.immediate THEN i.field3 ELSE c.reg[i.field3] IN
    Stepped(Keep(c, IF i.subtract THEN Subtracted(c.reg[i.rs], operand, 0)
                    ELSE Added(c.reg[i.rs], operand, 0), i.rd))

Thumb_Op3(c, i) ==
  Stepped(
    CASE i.code = "MOV" -> Keep(c, Logical(i.value, c.cpsr.c, c.cpsr.v), i.rd)
      [] i.code = "CMP" -> SetFlags(c, Subtracted(c.reg[i.rd], i.value, 0))
      [] i.code = "ADD" -> Keep(c, Added(c.reg[i.rd], i.value, 0), i.rd)
      [] i.code = "SUB" -> Keep(c, Subtracted(c.reg[i.rd], i.value, 0), i.rd))

Thumb_ALU(c, i) ==
  LET a == c.reg[i.rd]
      b == c.reg[i.rs]
      s == DoShift(i.code, a, b, c.cpsr.c, FALSE)
      Flags(r) == Logical(r, c.cpsr.c, c.cpsr.v)
      borrow == IF c.cpsr.c THEN 0 ELSE 1
      working == Idle(Busy(c))
  IN
    CASE i.code = "AND" -> Keep(Stepped(c), Flags(And(a, b)), i.rd)
      [] i.code = "EOR" -> Keep(Stepped(c), Flags(Xor(a, b)), i.rd)
      [] i.code = "ORR" -> Keep(Stepped(c), Flags(Or(a, b)), i.rd)
      [] i.code = "BIC" -> Keep(Stepped(c), Flags(And(a, Not(b))), i.rd)
      [] i.code = "MVN" -> Keep(Stepped(c), Flags(Not(b)), i.rd)
      [] i.code = "TST" -> SetFlags(Stepped(c), Flags(And(a, b)))
      [] i.code = "ADC" -> Keep(Stepped(c), Added(a, b, 1 - borrow), i.rd)
      [] i.code = "SBC" -> Keep(Stepped(c), Subtracted(a, b, borrow), i.rd)
      [] i.code = "NEG" -> Keep(Stepped(c), Subtracted(0, b, 0), i.rd)
      [] i.code = "CMP" -> SetFlags(Stepped(c), Subtracted(a, b, 0))
      [] i.code = "CMN" -> SetFlags(Stepped(c), Added(a, b, 0))
      [] i.code = "MUL" -> Keep(working, Logical(Product(a, b), c.booth, c.cpsr.v), i.rd)
      [] i.code \in ShiftKind -> Keep(working, Logical(s.value, s.carry, c.cpsr.v), i.rd)

\* r15 as an operand has its lowest bit clear.
Thumb_HighRegisterOps_BX(c, i) ==
  LET operand == IF i.rs = 15 THEN Aligned(c.reg[15], 2) ELSE c.reg[i.rs]
      value == IF i.code = "ADD" THEN Wrap(c.reg[i.rd] + operand) ELSE operand
  IN
    CASE i.code = "BX" /\ operand % 2 = 1 -> Jump(c, operand - 1, TRUE)
      [] i.code = "BX" /\ operand % 2 = 0 ->
           Jump([c EXCEPT !.cpsr.t = FALSE], operand, FALSE)
      [] i.code = "CMP" -> Stepped(SetFlags(c, Subtracted(c.reg[i.rd], operand, 0)))
      [] i.code \in {"ADD", "MOV"} /\ i.rd = 15 -> Jump(c, Aligned(value, 2), TRUE)
      [] OTHER -> Stepped(PutReg(c, i.rd, value))

Load(c, kind, at, rd) ==
  PutReg(Idle(Read(Busy(c), kind, at)), rd, ReadAs(c, kind, at))

Store(c, kind, at, rd) ==
  LET value == c.reg[rd] IN
    Write(Busy(c), at, CASE kind = "byte" -> value % 2 ^ ByteBits
                         [] kind = "half" -> value % 2 ^ HalfBits
                         [] OTHER -> value)

PCAligned(c) == Aligned(c.reg[15], 4) + (c.reg[15] % 2)         \* r15 & ^2

Thumb_LoadStoreRelativePC(c, i) == Load(c, "word", Wrap(PCAligned(c) + 4 * i.offset), i.rd)

Thumb_LoadStoreOffsetReg(c, i) ==
  LET at == Wrap(c.reg[i.rb] + c.reg[i.ro]) IN
    IF i.load THEN Load(c, i.kind, at, i.rd) ELSE Store(c, i.kind, at, i.rd)

\* A store is one of a halfword; the loads are signed or of a halfword.
Thumb_LoadStoreSigned(c, i) ==
  LET at == Wrap(c.reg[i.rb] + c.reg[i.ro]) IN
    IF i.load THEN Load(c, i.kind, at, i.rd) ELSE Store(c, "half", at, i.rd)

Thumb_LoadStoreOffsetImm(c, i) ==
  LET at == Wrap(c.reg[i.rb] + i.offset * (IF i.kind = "byte" THEN 1 ELSE 4)) IN
    IF i.load THEN Load(c, i.kind, at, i.rd) ELSE Store(c, i.kind, at, i.rd)

Thumb_LoadStoreHword(c, i) ==
  LET at == Wrap(c.reg[i.rb] + 2 * i.offset) IN
    IF i.load THEN Load(c, "halfRotate", at, i.rd) ELSE Store(c, "half", at, i.rd)

Thumb_LoadStoreRelativeToSP(c, i) ==
  LET at == Wrap(c.reg[13] + 4 * i.offset) IN
    IF i.load THEN Load(c, "wordRotate", at, i.rd) ELSE Store(c, "word", at, i.rd)

Thumb_LoadAddress(c, i) ==
  LET base == IF i.sp THEN c.reg[13] ELSE PCAligned(c) IN
    Stepped(PutReg(c, i.rd, Wrap(base + 4 * i.offset)))

Thumb_AddOffsetToSP(c, i) ==
  Stepped(PutReg(c, 13, Wrap(IF i.sub THEN c.reg[13] - 4 * i.offset
                             ELSE c.reg[13] + 4 * i.offset)))

\* The units of a block: the registers of the list, the lowest at the lowest
\* address.
Address(list, low, r) == Wrap(low + 4 * Below(list, r))

Unit(what, c, list, low, r) ==
  LET at == Address(list, low, r) IN
    IF what = "load" THEN PutReg(Read(c, "word", at), r, ReadAs(c, "word", at))
    ELSE Write(c, at, c.reg[r])

Units(what, c, list, low) ==
  LET moved[n \in 0 .. 8] ==
        CASE n = 0 -> c
          [] n > 0 /\ n - 1 \in list -> Unit(what, moved[n - 1], list, low, n - 1)
          [] OTHER -> moved[n - 1]
  IN  moved[8]

\* An empty list moves the pc and counts as sixteen registers.
Thumb_PushPop(c, i) ==
  LET sp == c.reg[13]
      units == Cardinality(i.list)
      high == Wrap(sp + 4 * units)
      popped == Units("load", Busy(c), i.list, sp)
      low == Wrap(sp - 4 * (IF i.r THEN units + 1 ELSE units))
      pushed == Units("store", PutReg(Busy(c), 13, low), i.list, low)
      nothing == i.list = {} /\ ~i.r
      bottom == Wrap(sp - 64)
      jumped == Jump(Read(Busy(c), "word", sp), ReadAs(c, "word", sp), TRUE)
  IN
    CASE nothing /\ i.pop -> PutReg(jumped, 13, Wrap(sp + 64))
      [] nothing /\ ~i.pop ->
           LET c1 == PutReg(Busy(c), 13, bottom) IN Write(c1, bottom, c1.reg[15])
      [] ~nothing /\ i.pop /\ i.r ->
           Jump(Idle(PutReg(Read(popped, "word", high), 13, Wrap(high + 4))),
                Aligned(ReadAs(c, "word", high), 2), TRUE)
      [] ~nothing /\ i.pop /\ ~i.r -> PutReg(Idle(popped), 13, high)
      [] ~nothing /\ ~i.pop /\ i.r -> Write(pushed, Wrap(low + 4 * units), c.reg[14])
      [] ~nothing /\ ~i.pop /\ ~i.r -> pushed

\* The base is written back after the first store, and not if it was loaded.
Thumb_LoadStoreMultiple(c, i) ==
  LET base == c.reg[i.rb]
      far == Wrap(base + (IF i.list = {} THEN 64 ELSE 4 * Cardinality(i.list)))
      loaded == Idle(Units("load", Busy(c), i.list, base))
      lowest == Min(i.list)
      first == PutReg(Write(Busy(c), base, c.reg[lowest]), i.rb, far)
  IN
    CASE i.list = {} /\ i.load ->
           PutReg(Jump(Read(Busy(c), "word", base), ReadAs(c, "word", base), TRUE), i.rb, far)
      [] i.list = {} /\ ~i.load ->
           PutReg(Write(Busy(c), base, Wrap(c.reg[15] + 2)), i.rb, far)
      [] i.list # {} /\ i.load -> IF i.rb \in i.list THEN loaded ELSE PutReg(loaded, i.rb, far)
      [] i.list # {} /\ ~i.load -> Units("store", first, i.list \ {lowest}, Wrap(base + 4))

Thumb_ConditionalBranch(c, i) ==
  IF CheckCondition(i.condition, c.cpsr)
  THEN Jump(c, Wrap(c.reg[15] + 2 * i.offset), TRUE) ELSE Stepped(c)

Thumb_SWI(c, i) ==
  LET c1 == [Enter(c, "svc") EXCEPT !.cpsr.t = FALSE] IN
    Jump(PutReg(c1, 14, Wrap(c.reg[15] - 2)), 8, FALSE)

Thumb_UnconditionalBranch(c, i) == Jump(c, Wrap(c.reg[15] + 2 * i.offset), TRUE)

\* A call in two halves: the first leaves the far part of the distance in
\* r14, the second jumps and leaves the return address there.
Thumb_LongBranchLink(c, i) ==
  IF ~i.second
  THEN Stepped(PutReg(c, 14, Wrap(c.reg[15] + 4096 * i.offset)))
  ELSE Jump(PutReg(c, 14, 2 * (Wrap(c.reg[15] - 2) \div 2) + 1),
            Aligned(Wrap(c.reg[14] + 2 * i.offset), 2), TRUE)
=============================================================================
