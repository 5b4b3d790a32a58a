---------------------------------- MODULE Cpu ----------------------------------
(***************************************************************************)
(* The state of the CPU (internal/arm/state.go, arm7tdmi.go) and the       *)
(* operations every instruction is made of: the banked registers, the      *)
(* change of mode, the pipeline and its accesses to the bus.  A CPU is a   *)
(* record; an operation is a function from one to another.                 *)
(*                                                                         *)
(* Beside the fields of ARM7TDMI the record holds what the bus does in the *)
(* course of one Run: `bus`, the accesses so far; `slow`, whether they     *)
(* take more than a cycle each; `contents`, what memory holds; and `booth`,*)
(* the carry a multiplication would leave.  Memory is arbitrary: the words *)
(* read differ from step to step.                                          *)
(***************************************************************************)
EXTENDS Alu, Banks, Sequences

\* A status register: mode, Thumb bit, the two masks, the four flags.
PSR == [mode : 0 .. 31, t : BOOLEAN, f : BOOLEAN, i : BOOLEAN,
        n : BOOLEAN, z : BOOLEAN, c : BOOLEAN, v : BOOLEAN]

ZeroPSR == [mode |-> 0, t |-> FALSE, f |-> FALSE, i |-> FALSE,
            n |-> FALSE, z |-> FALSE, c |-> FALSE, v |-> FALSE]

\* The bits of a status register in a word: the mode in bits 0 to 4, then T,
\* F and I, the flags in the top four.  The bits between are reserved.
StatusBits == [t |-> 5, f |-> 6, i |-> 7,
               v |-> Width - 4, c |-> Width - 3, z |-> Width - 2, n |-> Width - 1]

PSRWord(p) ==
  p.mode + OfBits({StatusBits[b] : b \in {x \in DOMAIN StatusBits : p[x]}})

WordPSR(w) ==
  [b \in DOMAIN ZeroPSR |->
     IF b = "mode" THEN w % 32 ELSE Bit(w, StatusBits[b])]

PSROr(p, q) == WordPSR(Or(PSRWord(p), PSRWord(q)))

\* What the pipeline holds: the place an opcode was fetched from, or one of
\* the two instructions Reset puts there, whose condition never holds.
Nop == [at |-> 0, thumb |-> FALSE, nop |-> TRUE]
Fetched(at, thumb) ==
  [at |-> Aligned(at, IF thumb THEN 2 ELSE 4), thumb |-> thumb, nop |-> FALSE]

Banked == 8 .. 14

ResetState ==
  [reg |-> [r \in 0 .. 15 |-> 0],
   bank |-> [b \in Bank |-> [r \in Banked |-> 0]],
   cpsr |-> [ZeroPSR EXCEPT !.mode = ModeNumber.svc, !.i = TRUE, !.f = TRUE],
   spsr |-> [b \in Bank |-> ZeroPSR],
   pSpsr |-> "svc",         \* the bank; "none" stands for the CPSR itself
   conflict |-> 0,          \* cycles left until ldmUsermode is cleared
   cpuModeInvalid |-> FALSE,
   pipe |-> <<Nop, Nop>>,
   sequential |-> FALSE,    \* Pipe.Access
   irqLine |-> FALSE,
   latchIrqDisable |-> TRUE,
   bus |-> <<>>, slow |-> FALSE, contents |-> 0, booth |-> FALSE]

ldmUsermode(c) == c.conflict # 0
-----------------------------------------------------------------------------
\* Accesses.  The cycles they take may end the conflict.
Touch(c, kind, at, value) ==
  [c EXCEPT !.bus = Append(@, [kind |-> kind, at |-> at, value |-> value]),
            !.conflict = IF @ = 0 \/ c.slow THEN 0 ELSE @ - 1]

Idle(c) == Touch(c, "idle", 0, 0)
Code(c, at, thumb) == Touch(c, "code", Fetched(at, thumb), 0)

\* Memory: the word at an address.
Contents(c, at) == Wrap(c.contents + Aligned(at, 4))
ReadAs(c, kind, at) == Loaded(kind, Contents(c, at), at)
Read(c, kind, at) == Touch(c, "read", at, ReadAs(c, kind, at))
Write(c, at, value) == Touch(c, "write", at, value)

\* The registers of a list below r: the units that come before its own.
Below(list, r) == Cardinality({x \in list : x < r})
-----------------------------------------------------------------------------
\* r8 to r12 are the user's but in FIQ mode: the banks they go to and come
\* from when the mode changes, if they move at all.
NoneMove(old, new) == <<>>
FiveMove(old, new) ==
  CASE old = "fiq" -> <<"fiq", "none">>
    [] new = "fiq" -> <<"none", "fiq">>
    [] OTHER -> <<>>

\* SwitchMode: bank the registers of the mode that is left, fetch those of
\* the mode that is entered.
SwitchMode(c, mode) ==
  LET old == BankOf(c.cpsr.mode)
      new == BankOf(mode)
      five == FiveMove(old, new)
      banked ==
        [b \in DOMAIN c.bank |->
          [r \in Banked |->
            IF \/ r \in 8 .. 12 /\ five # <<>> /\ b = five[1]
               \/ r \in 13 .. 14 /\ b = old
            THEN c.reg[r] ELSE c.bank[b][r]]]
      entered ==
        [r \in 0 .. 15 |->
          CASE r \in Banked /\ new = "invalid" -> 0
            [] r \in 13 .. 14 /\ new # "invalid" -> banked[new][r]
            [] r \in 8 .. 12 /\ new # "invalid" /\ five # <<>> -> banked[five[2]][r]
            [] OTHER -> c.reg[r]]
      selected == [c EXCEPT !.cpsr.mode = mode, !.pSpsr = new]
  IN  IF old = new THEN selected
      ELSE [selected EXCEPT
              !.bank = banked, !.reg = entered,
              !.cpuModeInvalid = (new = "invalid"),
              !.spsr = IF new = "invalid" THEN [@ EXCEPT ![new] = ZeroPSR] ELSE @]

GetReg(c, r) ==
  IF ldmUsermode(c) /\ r \in Banked THEN Or(c.reg[r], c.bank["none"][r]) ELSE c.reg[r]

SetReg(c, r, value) ==
  [c EXCEPT
    !.bank = IF ldmUsermode(c) /\ r \in Banked THEN [@ EXCEPT !["none"][r] = value] ELSE @,
    !.reg = IF c.cpuModeInvalid /\ r \in Banked THEN @ ELSE [@ EXCEPT ![r] = value]]

\* The Thumb handlers store straight into the register.
PutReg(c, r, value) == [c EXCEPT !.reg[r] = value]

GetSPSR(c) ==
  LET p == IF c.pSpsr = "none" THEN c.cpsr ELSE c.spsr[c.pSpsr]
      q == [p EXCEPT !.mode = IF @ \div 16 = 1 THEN @ ELSE @ + 16]
  IN  IF ldmUsermode(c) THEN PSROr(q, c.cpsr) ELSE q

\* The last step of a return from an exception.
RestorePSR(c) ==
  LET p == GetSPSR(c) IN [SwitchMode(c, p.mode) EXCEPT !.cpsr = p]

SetFlags(c, a) ==
  [c EXCEPT !.cpsr.n = a.n, !.cpsr.z = a.z, !.cpsr.c = a.c, !.cpsr.v = a.v]

\* The condition table.
CheckCondition(cond, p) ==
  CASE cond = "EQ" -> p.z      [] cond = "NE" -> ~p.z
    [] cond = "CS" -> p.c      [] cond = "CC" -> ~p.c
    [] cond = "MI" -> p.n      [] cond = "PL" -> ~p.n
    [] cond = "VS" -> p.v      [] cond = "VC" -> ~p.v
    [] cond = "HI" -> p.c /\ ~p.z
    [] cond = "LS" -> ~p.c \/ p.z
    [] cond = "GE" -> p.n = p.v
    [] cond = "LT" -> p.n # p.v
    [] cond = "GT" -> ~(p.z \/ p.n # p.v)
    [] cond = "LE" -> p.z \/ p.n # p.v
    [] cond = "AL" -> TRUE
    [] cond = "NV" -> FALSE
-----------------------------------------------------------------------------
\* r15 moves on; the access that fetches next is or is not a sequential one.
Advance(c, n) == [c EXCEPT !.reg[15] = Wrap(@ + n)]
Sequential(c) == [c EXCEPT !.sequential = TRUE]
Nonsequential(c) == [c EXCEPT !.sequential = FALSE]

\* ReloadPipeline16 and ReloadPipeline32.
Reload(c, thumb) ==
  LET width == IF thumb THEN 2 ELSE 4
      pc == c.reg[15]
      next == Wrap(pc + width)
      c1 == Code(Code(c, pc, thumb), next, thumb)
  IN  [Advance(c1, 2 * width) EXCEPT
         !.pipe = <<Fetched(pc, thumb), Fetched(next, thumb)>>,
         !.sequential = TRUE,
         !.latchIrqDisable = c.cpsr.i]

Jump(c, at, thumb) == Reload(PutReg(c, 15, at), thumb)

\* A jump that may also have changed the state.  A bug: forgetting that.
ReloadArm(c) == Reload(c, FALSE)
ReloadSame(c) == Reload(c, c.cpsr.t)

\* The entry to an exception, but for the return address: the status is
\* saved, the mode changes, interrupts are masked.
Enter(c, name) ==
  LET saved == [c EXCEPT !.spsr[name] = c.cpsr] IN
    [SwitchMode(saved, ModeNumber[name]) EXCEPT !.cpsr.i = TRUE]

\* A bug: the return address of the ARM state in both states.
InterruptedAsArm(c) ==
  LET c1 == Enter(Code(c, c.reg[15], c.cpsr.t), "irq") IN
    Jump(SetReg([c1 EXCEPT !.cpsr.t = FALSE], 14, Wrap(c.reg[15] - 4)), 24, FALSE)

\* SignalIRQ, where latchIrqDisable is FALSE.
Interrupted(c) ==
  LET c1 == Enter(Code(c, c.reg[15], c.cpsr.t), "irq")
      link == IF c.cpsr.t THEN c.reg[15] ELSE Wrap(c.reg[15] - 4)
  IN  Jump(SetReg([c1 EXCEPT !.cpsr.t = FALSE], 14, link), 24, FALSE)

\* The part of Run before the handler: the pipeline moves on and the next
\* opcode is fetched.
FetchedNext(c) ==
  LET c1 == [c EXCEPT !.latchIrqDisable = c.cpsr.i,
                      !.reg[15] = Aligned(@, 2)]
      pc == c1.reg[15]
  IN  [Code(c1, pc, c.cpsr.t) EXCEPT !.pipe = <<c.pipe[2], Fetched(pc, c.cpsr.t)>>]

\* The part of Run after a condition that does not hold.
Skipped(c) == Advance(Sequential(c), 4)

\* LoadState: three flags are not saved.
Restored(saved) ==
  [saved EXCEPT !.pSpsr = BankOf(saved.cpsr.mode), !.conflict = 0,
                !.cpuModeInvalid = FALSE, !.latchIrqDisable = saved.cpsr.i]
=============================================================================
