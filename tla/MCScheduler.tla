------------------------------ MODULE MCScheduler ------------------------------
(***************************************************************************)
(* Scheduler on a small instance: up to four events beside the sentinel,   *)
(* so that a pop leaves two levels of the heap to sink through, and the    *)
(* negative advance of Core.Run beside an ordinary one.                    *)
(***************************************************************************)
EXTENDS Scheduler

MCDelay == {1, 2}
MCCycles == {-1, 2}
MCPri == {0, 1}
=============================================================================
