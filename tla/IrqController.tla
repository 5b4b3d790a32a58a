----------------------------- MODULE IrqController -----------------------------
(***************************************************************************)
(* The registers of internal/irq/irq.go and what its handlers do to them,  *)
(* as functions from one state of the controller to the next, and the      *)
(* events a handler schedules.  Registers of interrupt bits are sets of    *)
(* sources; an event is [due, pri, kind, on].                              *)
(***************************************************************************)
EXTENDS Integers

CONSTANT Source   \* interrupt sources: bits of IE and IF

Controller ==
  [pendingIME : BOOLEAN, pendingIE : SUBSET Source, pendingIF : SUBSET Source,
   regIME : BOOLEAN, regIE : SUBSET Source, regIF : SUBSET Source,
   irqLine : BOOLEAN, irqAvailable : BOOLEAN]

Kind == {"WriteIO", "UpdateIEAndIF", "UpdateIRQLine"}

Reset ==
  [pendingIME |-> FALSE, pendingIE |-> {}, pendingIF |-> {},
   regIME |-> FALSE, regIE |-> {}, regIF |-> {},
   irqLine |-> FALSE, irqAvailable |-> FALSE]

Requested(r) == r.regIE \cap r.regIF # {}

\* Mutant: a store to IF sets the flags instead of clearing those written 1.
WriteIFSets(r, v) == [r EXCEPT !.pendingIF = v]

WriteIE(r, v)  == [r EXCEPT !.pendingIE = v]
WriteIF(r, v)  == [r EXCEPT !.pendingIF = @ \ v]
WriteIME(r, v) == [r EXCEPT !.pendingIME = v]
Raised(r, s)   == [r EXCEPT !.pendingIF = @ \cup {s}]

\* What each register write and each raised source schedules: the commit of
\* the pending registers, after the raised ones of the same cycle.
WriteCommit == [due |-> 1, pri |-> 1, kind |-> "WriteIO", on |-> FALSE]
RaiseCommit == [due |-> 1, pri |-> 0, kind |-> "WriteIO", on |-> FALSE]

\* Mutant: the commit forgets the flags.
CommittedWithoutIF(r) ==
  LET c == [r EXCEPT !.regIME = r.pendingIME, !.regIE = r.pendingIE]
  IN  [c EXCEPT !.irqLine = c.regIME /\ Requested(c)]

\* Mutant: the line follows the pending registers' master enable only.
CommittedLineIME(r) ==
  LET c == [r EXCEPT !.regIME = r.pendingIME, !.regIE = r.pendingIE,
                     !.regIF = r.pendingIF]
  IN  [c EXCEPT !.irqLine = r.regIME /\ Requested(c)]

\* onWriteIO
Committed(r) ==
  LET c == [r EXCEPT !.regIME = r.pendingIME, !.regIE = r.pendingIE,
                     !.regIF = r.pendingIF]
  IN  [c EXCEPT !.irqLine = c.regIME /\ Requested(c)]

\* CopyState leaves irqLine out.
CopyState(r) ==
  [f \in DOMAIN r \ {"irqLine"} |-> r[f]]

\* LoadState rebuilds it.
LoadState(s) ==
  [f \in DOMAIN Reset |->
     IF f = "irqLine" THEN s.regIME /\ s.regIE \cap s.regIF # {} ELSE s[f]]

\* The event by which onWriteIO, having gone from r to c, has ShouldUnhaltCPU
\* updated, if it has to.
AvailabilityUpdates(r, c) ==
  IF r.irqAvailable # Requested(c)
  THEN {[due |-> 1, pri |-> 0, kind |-> "UpdateIEAndIF", on |-> Requested(c)]}
  ELSE {}

\* Mutant: the line is only ever asserted.
LineUpdatesAssertOnly(r, c) ==
  IF c.irqLine /\ ~r.irqLine
  THEN {[due |-> 2, pri |-> 0, kind |-> "UpdateIRQLine", on |-> TRUE]}
  ELSE {}

\* The event by which it has the CPU's line updated, if it has to.
LineUpdates(r, c) ==
  IF r.irqLine # c.irqLine
  THEN {[due |-> 2, pri |-> 0, kind |-> "UpdateIRQLine", on |-> c.irqLine]}
  ELSE {}
=============================================================================
