------------------------------- MODULE MCIrqHeap -------------------------------
(***************************************************************************)
(* IrqHeap with one source and room for the controller's events and a few  *)
(* of the other components'.                                               *)
(***************************************************************************)
EXTENDS IrqHeap

MCDelay == {1, 2, 3}
MCPri == {0}
=============================================================================
