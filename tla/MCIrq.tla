--------------------------------- MODULE MCIrq ---------------------------------
(***************************************************************************)
(* Irq with two sources and at most five of the controller's events        *)
(* queued: a word store to IE and IF, a raise in the same cycle and what   *)
(* their commits schedule.                                                 *)
(***************************************************************************)
EXTENDS Irq
=============================================================================
