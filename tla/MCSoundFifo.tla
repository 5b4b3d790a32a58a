------------------------------ MODULE MCSoundFifo ------------------------------
(***************************************************************************)
(* SoundFifo with a ring of three words of two samples.                    *)
(***************************************************************************)
EXTENDS SoundFifo
=============================================================================
