------------------------------- MODULE SoundFifo -------------------------------
(***************************************************************************)
(* A direct sound channel of internal/apu with the DMA channel that feeds  *)
(* it: the WordFIFO, the pipe a word is played from, the requests that     *)
(* OnTimerOverflow makes, their activations in the scheduler, and the      *)
(* blocks of words that DMA writes.                                        *)
(*                                                                         *)
(* The DMA channel is enabled with repetition; DMA.tla models the writing  *)
(* of its registers and its competition with the others, which here is     *)
(* that cycles may pass without it (Tick against Serve).  Timer and        *)
(* program act at any moment.                                              *)
(***************************************************************************)
EXTENDS Agenda, Sequences

CONSTANTS
  Depth,      \* fifoLen
  Low,        \* a FIFO of at most this many words asks for more
  Block,      \* words in a block, of a FIFO's DMA always 4 in the code
  Size,       \* samples in a word
  Byte,       \* sample values, 0 is silence
  Delay,      \* from a request to its activation
  UnitCycles  \* a read and a write take at least

ASSUME FifoAssumption ==
  /\ Depth \in Nat \ {0} /\ Low \in 0 .. Depth /\ Block \in 1 .. Depth
  /\ Low + Block <= Depth
  /\ Size \in Nat \ {0} /\ 0 \in Byte
  /\ Delay \in Nat \ {0} /\ UnitCycles \in Nat \ {0}

\* What is requested before the first word of a block is written is activated
\* before the last one is.
ASSUME DelayAssumption == Delay <= (Block - 1) * UnitCycles

VARIABLES
  fifo,     \* WordFIFO: data, rdPtr, wrPtr, count
  pipe,     \* Pipe: word, size
  latch,    \* the sample that is heard
  master,   \* SOUNDCNT.MasterEnable
  queue,    \* activations of the DMA channel that are scheduled
  runnable, \* its bit in runnableSet
  left,     \* latch.length: words of the block still to be written
  spent,    \* cycles the current word's read and write have had
  disturbed \* history: a request came, or a program wrote, when it was too late

dma == <<queue, runnable, left, spent>>
vars == <<fifo, pipe, latch, master, queue, runnable, left, spent, disturbed>>

Index == 0 .. Depth - 1
Word == [0 .. Size - 1 -> Byte]
Silence == [i \in 0 .. Size - 1 |-> 0]

TypeOK ==
  /\ fifo \in [data : [Index -> Word], rdPtr : Index, wrPtr : Index, count : 0 .. Depth]
  /\ fifo.wrPtr = (fifo.rdPtr + fifo.count) % Depth
  /\ pipe \in [word : Word, size : 0 .. Size]
  /\ latch \in Byte
  /\ master \in BOOLEAN
  /\ queue \subseteq [due : 0 .. Delay, pri : {0}]
  /\ runnable \in BOOLEAN
  /\ left \in 1 .. Block
  /\ spent \in 0 .. UnitCycles
  /\ disturbed \in BOOLEAN
-----------------------------------------------------------------------------
\* WordFIFO

EmptyFIFO == [data |-> [i \in Index |-> Silence], rdPtr |-> 0, wrPtr |-> 0, count |-> 0]
After(ptr) == IF ptr + 1 = Depth THEN 0 ELSE ptr + 1

\* A word too many resets the FIFO.
WriteWord(f, w) ==
  IF f.count < Depth
  THEN [f EXCEPT !.data[f.wrPtr] = w, !.wrPtr = After(@), !.count = @ + 1]
  ELSE EmptyFIFO

\* What is not written of the word is what the slot held a round ago.
WriteByte(f, offset, b) == WriteWord(f, [f.data[f.wrPtr] EXCEPT ![offset] = b])

\* Two bytes are replaced, by the value's low byte and a zero.
WriteHalf(f, offset, b) ==
  WriteWord(f, [i \in 0 .. Size - 1 |-> IF i = offset THEN b
                                        ELSE IF i = offset + 1 THEN 0
                                        ELSE f.data[f.wrPtr][i]])

\* ReadWord, for the callers' case of a FIFO that is not empty.
Popped(f) == [f EXCEPT !.rdPtr = After(@), !.count = @ - 1]

\* Mutant: the ring is stored as it lies, but read from index 0.
ReloadedAsItLies(f) == [f EXCEPT !.rdPtr = 0, !.wrPtr = f.count % Depth]

\* CopyState stores the words in the order they will be read, LoadState takes
\* them back from index 0.
Reloaded(f) ==
  [data |-> [i \in Index |-> f.data[(f.rdPtr + i) % Depth]],
   rdPtr |-> 0, wrPtr |-> f.count % Depth, count |-> f.count]
-----------------------------------------------------------------------------
\* The timer: APU.OnTimerOverflow

\* Mutant: a FIFO asks for more a word too early.
AsksEarly(f) == f.count <= Low + 1

\* Mutant: an empty FIFO is not looked at.
AsksUnlessEmpty(f) == f.count \in 1 .. Low

Asks(f) == f.count <= Low

Request ==
  IF Asks(fifo)
  THEN /\ queue' = queue \cup {[due |-> Delay, pri |-> 0]}
       /\ disturbed' = (disturbed \/ left < Block)
  ELSE UNCHANGED <<queue, disturbed>>

\* The pipe from which the next sample comes.
Refilled ==
  IF pipe.size = 0 /\ fifo.count > 0
  THEN [word |-> fifo.data[fifo.rdPtr], size |-> Size]
  ELSE pipe

Shifted(p) ==
  IF p.size = 0 THEN p
  ELSE [word |-> [i \in 0 .. Size - 1 |-> IF i < Size - 1 THEN p.word[i + 1] ELSE 0],
        size |-> p.size - 1]

OnTimerOverflow ==
  /\ master
  /\ Request
  /\ fifo' = IF pipe.size = 0 /\ fifo.count > 0 THEN Popped(fifo) ELSE fifo
  /\ latch' = Refilled.word[0]
  /\ pipe' = Shifted(Refilled)
  /\ UNCHANGED <<master, runnable, left, spent>>
-----------------------------------------------------------------------------
\* The DMA channel

\* onActivated: an activation of a channel that is runnable adds nothing.
OnActivated ==
  /\ \E e \in DueNow(queue) : queue' = queue \ {e}
  /\ runnable' = TRUE
  /\ UNCHANGED <<fifo, pipe, latch, master, left, spent, disturbed>>

\* A cycle of the CPU's or of another channel's
Tick ==
  /\ DueNow(queue) = {}
  /\ queue' = Elapsed(queue, 1)
  /\ UNCHANGED <<fifo, pipe, latch, master, runnable, left, spent, disturbed>>

\* A cycle of this channel's accesses
Serve ==
  /\ runnable /\ spent < UnitCycles
  /\ DueNow(queue) = {}
  /\ queue' = Elapsed(queue, 1)
  /\ spent' = spent + 1
  /\ UNCHANGED <<fifo, pipe, latch, master, runnable, left, disturbed>>

\* The end of runChannel's loop body: the word arrives if sound is on.
Store(w) ==
  /\ spent = UnitCycles
  /\ DueNow(queue) = {}
  /\ fifo' = IF master THEN WriteWord(fifo, w) ELSE fifo
  /\ spent' = 0
  /\ IF left > 1
     THEN left' = left - 1 /\ UNCHANGED runnable
     ELSE left' = Block /\ runnable' = FALSE
  /\ UNCHANGED <<pipe, latch, master, queue, disturbed>>
-----------------------------------------------------------------------------
\* The program

\* Words, halves and bytes written to FIFO_A or FIFO_B
CPUWrites ==
  /\ master
  /\ \E w \in Word, b \in Byte, offset \in 0 .. Size - 1 :
       fifo' \in {WriteWord(fifo, w), WriteHalf(fifo, offset, b), WriteByte(fifo, offset, b)}
  /\ disturbed' = (disturbed \/ queue # {} \/ runnable)
  /\ UNCHANGED <<pipe, latch, master>> /\ UNCHANGED dma

\* SOUNDCNT_H's reset bit, and SOUNDCNT_X: the pipe keeps what it has.
ResetFIFO == fifo' = EmptyFIFO /\ UNCHANGED <<pipe, latch, master, disturbed>> /\ UNCHANGED dma

WriteMasterEnable(on) ==
  /\ master' = on
  /\ fifo' = IF master /\ ~on THEN EmptyFIFO ELSE fifo
  /\ UNCHANGED <<pipe, latch, disturbed>> /\ UNCHANGED dma

\* APU.CopyState and LoadState of the same core
SaveAndLoad ==
  /\ fifo' = Reloaded(fifo)
  /\ UNCHANGED <<pipe, latch, master, disturbed>> /\ UNCHANGED dma
-----------------------------------------------------------------------------
Init ==
  /\ fifo = EmptyFIFO
  /\ pipe = [word |-> Silence, size |-> 0]
  /\ latch = 0
  /\ master = FALSE
  /\ queue = {} /\ runnable = FALSE /\ left = Block /\ spent = 0
  /\ disturbed = FALSE

StoreSome == \E w \in Word : Store(w)

Next ==
  \/ OnTimerOverflow \/ OnActivated \/ Tick \/ Serve \/ StoreSome
  \/ CPUWrites \/ ResetFIFO \/ SaveAndLoad
  \/ \E on \in BOOLEAN : WriteMasterEnable(on)

\* The timer goes on, callbacks that are due are called, time passes, and the
\* blocks of channels with precedence end (Dma!TopServed): the channel gets cycles.
Fairness ==
  /\ WF_vars(OnTimerOverflow) /\ WF_vars(OnActivated) /\ WF_vars(Tick)
  /\ SF_vars(Serve) /\ SF_vars(StoreSome)

Spec == Init /\ [][Next]_vars
FairSpec == Spec /\ Fairness
-----------------------------------------------------------------------------
(***************************************************************************)
(* The stream: what is left of the pipe's word, then the words in the ring *)
(* from the read pointer on.  Every operation, also saving and loading,    *)
(* does to it what SampleStream allows: no sample is lost, repeated or     *)
(* heard out of order, except that a full FIFO is discarded.               *)
(***************************************************************************)
WordAt(k) == fifo.data[(fifo.rdPtr + k) % Depth]
Stream ==
  LET queued == [k \in 1 .. fifo.count * Size |->
                   WordAt((k - 1) \div Size)[(k - 1) % Size]]
  IN  [i \in 1 .. pipe.size |-> pipe.word[i - 1]] \o queued

Ideal == INSTANCE SampleStream WITH samples <- Stream
ImplementsStream == Ideal!Spec

\* A refill fits: the words that are on their way never find the FIFO full,
\* although a request is made at every overflow and requests coalesce only in
\* the runnable set.  What can break it is a request in the middle of a block,
\* from a FIFO that ran dry meanwhile, since the next block may then follow at
\* once; or a program that writes to a FIFO with a refill under way.
RefillFits ==
  (~disturbed /\ runnable) => fifo.count + left <= Depth

\* An empty FIFO is filled, if sound stays on: no request is lost.
EmptyIsRefilled == (master /\ fifo.count = 0) ~> (fifo.count > 0 \/ ~master)
=============================================================================
