--------------------------------- MODULE MCDma ---------------------------------
(***************************************************************************)
(* Dma with a sound FIFO's channel and the video channel, which it may     *)
(* interrupt; two activations of one channel may be under way at a time.   *)
(***************************************************************************)
EXTENDS Dma

MCChannel == {1, 3}
MCTiming == [c \in MCChannel |-> IF c = 1 THEN {"special"}
                                           ELSE {"immediate", "hblank"}]
=============================================================================
