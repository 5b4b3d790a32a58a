----------------------------- MODULE SampleStream -----------------------------
(***************************************************************************)
(* What a direct sound channel promises (apu.OnTimerOverflow with its      *)
(* WordFIFO and Pipe): one stream of samples, heard in the order they were *)
(* written.  Words are written whole; when Depth of them are waiting one   *)
(* more discards them, all but the rest of the word being played.          *)
(***************************************************************************)
EXTENDS Integers, Sequences

CONSTANTS
  Depth,    \* words the FIFO holds
  Size,     \* samples in a word
  Byte      \* sample values

VARIABLES
  samples,  \* still to be heard
  latch     \* heard now

Word == [0 .. Size - 1 -> Byte]
Samples(w) == [i \in 1 .. Size |-> w[i - 1]]
Waiting == Len(samples) \div Size
Rest == SubSeq(samples, 1, Len(samples) % Size)

Init == samples = <<>> /\ latch = 0

Write(w) ==
  /\ samples' = IF Waiting < Depth THEN samples \o Samples(w) ELSE Rest
  /\ UNCHANGED latch

Discard == samples' = Rest /\ UNCHANGED latch

\* Silence when the program does not keep up.
Hear ==
  IF samples = <<>> THEN latch' = 0 /\ UNCHANGED samples
  ELSE latch' = Head(samples) /\ samples' = Tail(samples)

Next == (\E w \in Word : Write(w)) \/ Discard \/ Hear
Spec == Init /\ [][Next]_<<samples, latch>>
=============================================================================
