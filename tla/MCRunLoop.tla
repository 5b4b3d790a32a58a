------------------------------ MODULE MCRunLoop --------------------------------
(***************************************************************************)
(* RunLoop with calls of a few cycles, transfers that outlast a call, and  *)
(* events that fire during a step, at its end and after it.                *)
(***************************************************************************)
EXTENDS RunLoop
=============================================================================
