------------------------------- MODULE Registers -------------------------------
(***************************************************************************)
(* What the CPU's banked registers promise: one flat file in which every   *)
(* register of every mode has a slot of its own, and no copying.  A mode   *)
(* only selects the slots its instructions name.  Two warts of the program *)
(* are part of the promise: a mode that does not exist destroys r8 to r12, *)
(* and for a moment after a load of the user's registers a store to a      *)
(* banked register also reaches the user's.                                *)
(***************************************************************************)
EXTENDS Banks

VARIABLES
  file,       \* [Slots -> words and saved status]
  mode,       \* the five mode bits
  status,     \* the whole status register
  conflict,   \* banked stores also reach the user's registers
  backup,     \* the file in the save state
  doing       \* what the last step was: [kind, bank, named]

vars == <<file, mode, status, conflict, backup, doing>>

Init == TRUE

Destroyed == IF BankOf(mode') = "invalid" THEN {<<"none", r>> : r \in 8 .. 12} ELSE {}

\* The slots that stores to the named registers of a bank reach.
Reach(bank, named) ==
  {Slot(bank, r) : r \in named}
    \cup IF conflict THEN {Slot("none", r) : r \in named \cap (8 .. 14)} ELSE {}

OnlyWrites(named) ==
  \A s \in Slots \ (Reach(doing'.bank, named) \cup Destroyed) : file'[s] = file[s]

\* An instruction writes the registers it names, in the bank it names them.
Instruction ==
  /\ doing'.kind = "instruction"
  /\ OnlyWrites(doing'.named)
  /\ backup' = backup

\* An exception saves the status, and the return address, in its own bank.
Exception ==
  /\ doing'.kind = "exception"
  /\ BankOf(mode') = doing'.bank
  /\ OnlyWrites({14, SavedStatus})
  /\ file'[<<doing'.bank, SavedStatus>>] = status
  /\ backup' = backup

Save == doing'.kind = "save" /\ backup' = file /\ file' = file
Load == doing'.kind = "load" /\ file' = backup /\ backup' = backup

Reset == doing'.kind = "reset" /\ backup' = backup

Next == Instruction \/ Exception \/ Save \/ Load \/ Reset

Spec == Init /\ [][Next]_vars
=============================================================================
