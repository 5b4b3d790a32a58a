--------------------------------- MODULE MCCpu ---------------------------------
(***************************************************************************)
(* Arm7tdmi with words of twelve bits, which hold a status register and    *)
(* the exception vectors, in scenarios that each run a few instructions.   *)
(***************************************************************************)
EXTENDS Arm7tdmi

Imm(v) == [kind |-> "immediate", value |-> v, rot |-> 0]
Rot(v, n) == [kind |-> "immediate", value |-> v, rot |-> n]
Reg(r) == [kind |-> "amount", rm |-> r, type |-> "LSL", amount |-> 0]
By(r, t, n) == [kind |-> "amount", rm |-> r, type |-> t, amount |-> n]
ByReg(r, t, s) == [kind |-> "register", rm |-> r, type |-> t, rs |-> s]

If(cond, code, s, rd, rn, shifter) ==
  [op |-> "DataProcessing", cond |-> cond, code |-> code, s |-> s, rd |-> rd, rn |-> rn,
   shifter |-> shifter]
Op(code, s, rd, rn, shifter) == If("AL", code, s, rd, rn, shifter)
Status(to, spsr, control, flags, rd, shifter) ==
  [op |-> "StatusTransfer", cond |-> "AL", toStatus |-> to, useSPSR |-> spsr,
   control |-> control, flags |-> flags, rd |-> rd, shifter |-> shifter]
ToMode(m) == Status(TRUE, FALSE, TRUE, FALSE, 0, Imm(m))
Swi == [op |-> "SWI", cond |-> "AL"]
Und == [op |-> "Undefined", cond |-> "AL"]
Bx(r) == [op |-> "BranchAndExchange", cond |-> "AL", rm |-> r]
Bl(link, n) == [op |-> "BranchAndLink", cond |-> "AL", link |-> link, offset |-> n]
Mem(op, load, kind, pre, add, wb, rd, rn, shifter) ==
  [op |-> op, cond |-> "AL", load |-> load, kind |-> kind, pre |-> pre, add |-> add,
   writeback |-> wb, rd |-> rd, rn |-> rn, shifter |-> shifter]
Multi(load, pre, add, user, wb, rn, list) ==
  [op |-> "BlockDataTransfer", cond |-> "AL", load |-> load, pre |-> pre, add |-> add,
   userMode |-> user, writeback |-> wb, rn |-> rn, list |-> list]

T(op, f) == [x \in {"op"} \cup DOMAIN f |-> IF x = "op" THEN op ELSE f[x]]
TAlu(code, rd, rs) == T("ALU", [code |-> code, rd |-> rd, rs |-> rs])
THigh(code, rd, rs) == T("HighRegisterOps_BX", [code |-> code, rd |-> rd, rs |-> rs])
TBlock(load, rb, list) == T("LoadStoreMultiple", [load |-> load, rb |-> rb, list |-> list])
TPush(pop, r, list) == T("PushPop", [pop |-> pop, r |-> r, list |-> list])
TMem(op, load, kind, rd) ==
  T(op, [load |-> load, kind |-> kind, rd |-> rd, rb |-> 1, ro |-> 2, offset |-> 3])
TSwi == T("SWI", [cond |-> "AL"])

\* A CPU at `entry`, in a mode, with its first registers, interrupts enabled.
Machine(mode, thumb, carry, r, entry) ==
  LET c == SwitchMode(ResetState, mode) IN
  Ended(Jump([c EXCEPT !.cpsr.i = FALSE, !.cpsr.t = thumb, !.cpsr.c = carry,
                       !.reg = [x \in 0 .. 15 |-> IF x \in DOMAIN r THEN r[x] ELSE @[x]]],
             entry, thumb))

Some(start, arm, thumb, contents, booth, waits, irq, saves, depth) ==
  [start |-> {[c EXCEPT !.bus = <<>>, !.sequential = FALSE] : c \in start},
   arm |-> arm, thumb |-> thumb, contents |-> contents, booth |-> booth,
   waits |-> waits, irq |-> irq, saves |-> saves, depth |-> depth]
Plain(start, arm, thumb, contents, depth) ==
  Some(start, arm, thumb, contents, {FALSE}, {FALSE}, FALSE, FALSE, depth)

M == ModeNumber
Low(a, b, c) == (0 :> a) @@ (1 :> b) @@ (2 :> c)
Edge == {0, 1, 5, 2047, 2048, 2049, 4095}

Exceptions ==
  Some({Machine(M.usr, t, FALSE, Low(0, 513, 512), 256) : t \in BOOLEAN},
       {Swi, Und, Bx(1), If("EQ", "ADD", TRUE, 0, 0, Imm(1)),
        Op("SUB", TRUE, 15, 14, Imm(4)), Op("MOV", TRUE, 15, 14, Reg(14)),
        ToMode(M.svc), ToMode(M.irq)},
       {TSwi, THigh("BX", 0, 2), TAlu("CMP", 0, 1)}, {0}, {FALSE}, {FALSE}, TRUE, FALSE, 5)

Saves ==
  Some({Machine(M.irq, FALSE, FALSE, Low(1, 2, 3), 256)},
       {Op("MOV", FALSE, 13, 0, Imm(7)), ToMode(M.fiq), ToMode(16 + 4), Swi},
       {}, {0}, {FALSE}, {FALSE}, TRUE, TRUE, 3)

Banking ==
  Plain({Machine(M.svc, FALSE, FALSE, Low(3, 2, 1), 256)},
        {ToMode(M[x]) : x \in DOMAIN M} \cup {ToMode(16 + 5)}
          \cup {Op("ADD", TRUE, r, r, Imm(r)) : r \in {8, 13}}
          \cup {Op("MOV", FALSE, 14, 0, Imm(9)), Status(TRUE, TRUE, TRUE, TRUE, 0, Imm(M.sys)),
                Status(FALSE, TRUE, FALSE, FALSE, 8, Imm(0)), Op("MOV", TRUE, 15, 14, Reg(14))},
        {}, {0}, 4)

UserBank ==
  Some({Machine(m, FALSE, FALSE, Low(64, 5, 6), 256) : m \in {M.fiq, M.svc, M.sys}},
       {Multi(load, FALSE, TRUE, TRUE, FALSE, 0, {1, 8, 13, 14}) : load \in BOOLEAN}
         \cup {Multi(TRUE, FALSE, TRUE, TRUE, FALSE, 0, l) : l \in {{}, {1, 14, 15}}}
         \cup {Op("ADD", FALSE, 13, 8, Imm(1)), Op("MOV", FALSE, 8, 0, Reg(14)),
               ToMode(M.usr), ToMode(M.irq), Op("MOV", TRUE, 15, 14, Reg(14))},
       {}, {16, 1037}, {FALSE}, BOOLEAN, TRUE, FALSE, 3)

Sum ==
  Plain({Machine(M.usr, t, k, Low(a, b, b), 256) : t, k \in BOOLEAN, a, b \in Edge},
        {Op(code, TRUE, 3, 0, Reg(1)) :
           code \in {"SUB", "RSB", "ADD", "ADC", "SBC", "RSC", "CMP", "CMN"}}
          \cup {Op("SUB", TRUE, 3, 15, Reg(1)), Op("ADC", TRUE, 3, 1, Reg(15))},
        {TAlu(code, 0, 1) : code \in {"ADC", "SBC", "NEG", "CMP", "CMN"}}
          \cup {T("Op3", [code |-> code, rd |-> 0, value |-> 5]) : code \in {"CMP", "ADD", "SUB", "MOV"}}
          \cup {T("AddSub", [immediate |-> TRUE, subtract |-> sub, field3 |-> 5, rd |-> 3, rs |-> 0]) :
                  sub \in BOOLEAN}, {0}, 1)

Shifting ==
  Plain({Machine(M.usr, t, k, Low(a, n, 0), 256) :
           t, k \in BOOLEAN, a \in {1, 2048, 2731, 4095}, n \in {0, 1, 11, 12, 13, 14, 24, 31, 32, 37}},
        {Op("MOV", TRUE, 3, 0, ByReg(0, kind, 1)) : kind \in ShiftKind}
          \cup {Op("MOV", TRUE, 3, 0, By(0, kind, n)) : kind \in ShiftKind, n \in {0, 1, 11}},
        {TAlu(kind, 0, 1) : kind \in ShiftKind}
          \cup {T("MoveShiftedRegister", [type |-> kind, rd |-> 3, rs |-> 0, amount |-> n]) :
                  kind \in ShiftKind \ {"ROR"}, n \in {0, 1, 11}}, {0}, 1)

Lists == {{}, {0}, {1, 2}, {0, 1, 13}, {0, 2, 15}, {1, 14, 15}}

Blocks ==
  Plain({Machine(M.usr, t, FALSE, Low(3, 128, 7) @@ (13 :> 200) @@ (14 :> 77), 256) : t \in BOOLEAN},
        {Multi(load, pre, add, FALSE, wb, 1, l) : load, pre, add, wb \in BOOLEAN, l \in Lists},
        {TBlock(load, 1, l) : load \in BOOLEAN, l \in {{}, {0, 2}, {1, 2}, {0, 1}}}
          \cup {TPush(pop, r, l) : pop, r \in BOOLEAN, l \in {{}, {0}, {1, 2, 5}}}, {513}, 2)

Rest ==
  Some({Machine(M.sys, t, TRUE, Low(3, 130, 3) @@ (5 :> 513) @@ (6 :> 516), 256) : t \in BOOLEAN},
       {Mem("SingleDataTransfer", load, kind, pre, TRUE, FALSE, rd, 1, By(2, "LSL", 1)) :
          load, pre \in BOOLEAN, kind \in {"byte", "wordRotate"}, rd \in {0, 15}}
         \cup {Mem("HalfwordSignedTransfer", load, kind, TRUE, FALSE, TRUE, 0, 1, Imm(3)) :
                 load \in BOOLEAN, kind \in {"halfRotate", "byteSigned", "halfSigned"}}
         \cup {[op |-> "Multiply", cond |-> "AL", accumulate |-> TRUE, s |-> TRUE, rd |-> 3,
                rn |-> 0, rm |-> 1, rs |-> 2],
               [op |-> "MultiplyLong", cond |-> "AL", accumulate |-> TRUE, signExtend |-> TRUE,
                s |-> TRUE, lo |-> 3, hi |-> 4, rm |-> 1, rs |-> 2],
               [op |-> "SingleDataSwap", cond |-> "AL", byte |-> FALSE, rd |-> 0, rn |-> 1, rm |-> 2],
               Bl(TRUE, 5), Bl(FALSE, -3), Bx(5), Op("ADD", FALSE, 15, 6, ByReg(0, "LSL", 2)),
               Op("TST", TRUE, 0, 0, ByReg(1, "LSR", 2)), Op("EOR", TRUE, 0, 0, Rot(3, 2)),
               Op("BIC", TRUE, 0, 1, Reg(2)), Op("ORR", TRUE, 0, 1, Reg(2)), Op("AND", TRUE, 0, 1, Reg(2)),
               Op("MVN", TRUE, 0, 0, Reg(2)), Op("TEQ", TRUE, 0, 1, Reg(2))},
       {TMem(op, load, kind, 0) : op \in {"LoadStoreOffsetReg", "LoadStoreOffsetImm"},
          load \in BOOLEAN, kind \in {"byte", "wordRotate"}}
         \cup {TMem("LoadStoreSigned", load, kind, 0) :
                 load \in BOOLEAN, kind \in {"byteSigned", "halfRotate", "halfSigned"}}
         \cup {TMem(op, load, "word", 0) :
                 op \in {"LoadStoreHword", "LoadStoreRelativeToSP"}, load \in BOOLEAN}
         \cup {TMem("LoadStoreRelativePC", TRUE, "word", 0), TAlu("MUL", 0, 1), TAlu("MVN", 3, 0),
               TAlu("AND", 0, 1), TAlu("EOR", 0, 1), TAlu("ORR", 0, 1), TAlu("BIC", 0, 1), TAlu("TST", 0, 1),
               T("LoadAddress", [sp |-> FALSE, rd |-> 0, offset |-> 2]),
               T("LoadAddress", [sp |-> TRUE, rd |-> 0, offset |-> 2]),
               T("AddOffsetToSP", [sub |-> TRUE, offset |-> 2]),
               T("ConditionalBranch", [condition |-> "CS", offset |-> -6]),
               T("ConditionalBranch", [condition |-> "CC", offset |-> 6]),
               T("UnconditionalBranch", [offset |-> 9]),
               T("LongBranchLink", [second |-> FALSE, offset |-> -1]),
               T("LongBranchLink", [second |-> TRUE, offset |-> 7]),
               THigh("BX", 0, 5), THigh("BX", 0, 6), THigh("BX", 0, 15), THigh("ADD", 15, 6),
               THigh("MOV", 8, 5), THigh("CMP", 8, 5), TSwi},
       {0, 1027}, BOOLEAN, {FALSE}, FALSE, FALSE, 2)

MCScenario ==
  [exceptions |-> Exceptions, saves |-> Saves, banking |-> Banking, userBank |-> UserBank,
   sum |-> Sum, shifting |-> Shifting, blocks |-> Blocks, rest |-> Rest]
=============================================================================
