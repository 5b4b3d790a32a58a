--------------------------------- MODULE MCLines ---------------------------------
(***************************************************************************)
(* Lines with a frame of ten short lines.                                  *)
(***************************************************************************)
EXTENDS Lines
=============================================================================
