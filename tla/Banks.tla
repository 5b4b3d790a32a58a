--------------------------------- MODULE Banks ---------------------------------
(***************************************************************************)
(* The modes of the CPU and the banks of registers they select             *)
(* (internal/arm/state.go, arm7tdmi.go).                                   *)
(***************************************************************************)
EXTENDS Integers

ModeNumber ==
  [usr |-> 16, fiq |-> 17, irq |-> 18, svc |-> 19, abt |-> 23, und |-> 27, sys |-> 31]

Bank == {"none", "fiq", "svc", "abt", "irq", "und", "invalid"}
RealBank == Bank \ {"invalid"}

\* GetRegisterBankByMode: user and system mode share their registers.
BankOf(mode) ==
  IF \E name \in DOMAIN ModeNumber : ModeNumber[name] = mode
  THEN LET name == CHOOSE m \in DOMAIN ModeNumber : ModeNumber[m] = mode IN
       IF name \in {"usr", "sys"} THEN "none" ELSE name
  ELSE "invalid"

\* The slot register r of a bank lives in.  The saved status counts as a
\* register, which every bank but "none" has.
SavedStatus == 16

Slot(bank, r) ==
  CASE r = SavedStatus -> <<bank, r>>
    [] r \in 0 .. 7 -> <<"none", r>>
    [] r \in 8 .. 12 -> <<IF bank = "fiq" THEN bank ELSE "none", r>>
    [] r \in 13 .. 14 -> <<bank, r>>

Slots ==
  {<<"none", r>> : r \in 0 .. 14} \cup {<<"fiq", r>> : r \in 8 .. 12}
    \cup {<<b, r>> : b \in RealBank \ {"none"}, r \in {13, 14, SavedStatus}}
=============================================================================
