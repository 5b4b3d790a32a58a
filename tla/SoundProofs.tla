------------------------------ MODULE SoundProofs ------------------------------
(***************************************************************************)
(* Proofs about a direct sound channel with its DMA, for rings, blocks and *)
(* words of any size and any timing: the ring keeps its shape, the words   *)
(* of a refill find room, and what is heard is the stream of what was      *)
(* written.                                                                *)
(***************************************************************************)
EXTENDS SoundFifo, Psg, FiniteSetTheorems, SequenceTheorems, TLAPS

Ring == [data : [Index -> Word], rdPtr : Index, wrPtr : Index, count : 0 .. Depth]
Round(f) == f.wrPtr = (f.rdPtr + f.count) % Depth

\* The cycles that the block under way needs at least.
Remaining == (left - 1) * UnitCycles + (UnitCycles - spent)

\* Unless the FIFO was disturbed, what is scheduled while a block is under way
\* comes before its end, and what is scheduled otherwise finds few words.
RefillsOnce ==
  ~disturbed =>
    /\ runnable => \A e \in queue : e.due <= Remaining
    /\ ~runnable => left = Block /\ (queue # {} => fifo.count <= Low)

\* A word's read and write have no cycles left while the channel does not run.
Pauses == ~runnable => left = Block /\ spent = 0

IInv == TypeOK /\ RefillFits /\ RefillsOnce /\ Pauses
-----------------------------------------------------------------------------
\* Remainders of what lies within two rounds of the ring.
Folded(x) == IF x < Depth THEN x ELSE x - Depth

LEMMA WithinTwoRounds == \A x \in 0 .. 2 * Depth - 1 : x % Depth = Folded(x)
BY FifoAssumption DEF Folded

LEMMA EmptyIsRing == EmptyFIFO \in Ring /\ Round(EmptyFIFO) /\ EmptyFIFO.count = 0
<1>1. 0 \in Index /\ 0 \in 0 .. Depth /\ Silence \in Word
  BY FifoAssumption DEF Index, Silence, Word
<1>2. [i \in Index |-> Silence] \in [Index -> Word]
  BY <1>1
<1>3. (0 + 0) % Depth = 0
  BY FifoAssumption
<1>4. QED
  BY <1>1, <1>2, <1>3 DEF EmptyFIFO, Ring, Round

LEMMA WriteWordKeeps ==
  ASSUME NEW f \in Ring, Round(f), NEW w \in Word
  PROVE  /\ WriteWord(f, w) \in Ring /\ Round(WriteWord(f, w))
         /\ f.count < Depth => WriteWord(f, w).count = f.count + 1
<1>1. CASE f.count < Depth
  <2> DEFINE g == [f EXCEPT !.data[f.wrPtr] = w, !.wrPtr = After(@), !.count = @ + 1]
  <2>1. WriteWord(f, w) = g
    BY <1>1 DEF WriteWord
  <2>2. /\ f.rdPtr \in Index /\ f.wrPtr \in Index /\ f.count \in 0 .. Depth
        /\ f.data \in [Index -> Word]
    BY DEF Ring
  <2>3. After(f.wrPtr) \in Index /\ f.count + 1 \in 0 .. Depth
    BY <1>1, <2>2, FifoAssumption DEF After, Index
  <2>4. [f.data EXCEPT ![f.wrPtr] = w] \in [Index -> Word]
    BY <2>2
  <2>5. /\ g \in Ring
        /\ g.rdPtr = f.rdPtr /\ g.wrPtr = After(f.wrPtr) /\ g.count = f.count + 1
    BY <2>3, <2>4 DEF Ring
  <2>6. After(f.wrPtr) = (f.rdPtr + (f.count + 1)) % Depth
    <3>1. /\ f.rdPtr + f.count \in 0 .. 2 * Depth - 1
          /\ f.rdPtr + (f.count + 1) \in 0 .. 2 * Depth - 1
      BY <1>1, <2>2, FifoAssumption DEF Index
    <3>2. f.wrPtr = (f.rdPtr + f.count) % Depth
      BY DEF Round
    <3>3. f.wrPtr = Folded(f.rdPtr + f.count)
      BY <3>1, <3>2, WithinTwoRounds, Zenon
    <3>4. (f.rdPtr + (f.count + 1)) % Depth = Folded(f.rdPtr + (f.count + 1))
      BY <3>1, WithinTwoRounds, Zenon
    <3> DEFINE next == (f.rdPtr + (f.count + 1)) % Depth
    <3>5. next = Folded(f.rdPtr + (f.count + 1))
      BY <3>4
    <3> HIDE DEF next
    <3>6. After(f.wrPtr) = next
      BY <1>1, <2>2, <3>3, <3>5, FifoAssumption DEF After, Index, Folded
    <3>7. QED
      BY <3>6 DEF next
  <2>7. QED
    BY <1>1, <2>1, <2>5, <2>6 DEF Round
<1>2. CASE ~(f.count < Depth)
  BY <1>2, EmptyIsRing DEF WriteWord
<1>3. QED
  BY <1>1, <1>2

LEMMA PoppedKeeps ==
  ASSUME NEW f \in Ring, Round(f), f.count > 0
  PROVE  /\ Popped(f) \in Ring /\ Round(Popped(f))
         /\ Popped(f).count = f.count - 1
<1>1. f.rdPtr \in Index /\ f.wrPtr \in Index /\ f.count \in 1 .. Depth
  BY FifoAssumption DEF Ring
<1>2. After(f.rdPtr) \in Index /\ f.count - 1 \in 0 .. Depth
  BY <1>1, FifoAssumption DEF After, Index
<1>3. /\ Popped(f) \in Ring /\ Popped(f).rdPtr = After(f.rdPtr)
      /\ Popped(f).wrPtr = f.wrPtr /\ Popped(f).count = f.count - 1
  BY <1>2 DEF Popped, Ring
<1>4. (f.rdPtr + f.count) % Depth = (After(f.rdPtr) + (f.count - 1)) % Depth
  <2>1. /\ f.rdPtr + f.count \in 0 .. 2 * Depth - 1
        /\ After(f.rdPtr) + (f.count - 1) \in 0 .. 2 * Depth - 1
    BY <1>1, <1>2, FifoAssumption DEF Index
  <2>2. (f.rdPtr + f.count) % Depth = Folded(f.rdPtr + f.count)
    BY <2>1, WithinTwoRounds, Zenon
  <2>3. (After(f.rdPtr) + (f.count - 1)) % Depth = Folded(After(f.rdPtr) + (f.count - 1))
    BY <2>1, WithinTwoRounds, Zenon
  <2>4. QED
    <3>1. Folded(f.rdPtr + f.count) = Folded(After(f.rdPtr) + (f.count - 1))
      BY <1>1, FifoAssumption DEF After, Index, Folded
    <3>2. QED
      BY <2>2, <2>3, <3>1, Zenon
<1>5. QED
  BY <1>3, <1>4 DEF Round

LEMMA ReloadedKeeps ==
  ASSUME NEW f \in Ring
  PROVE  Reloaded(f) \in Ring /\ Round(Reloaded(f)) /\ Reloaded(f).count = f.count
<1>1. f.rdPtr \in Index /\ f.count \in 0 .. Depth /\ f.data \in [Index -> Word]
  BY DEF Ring
<1>2. \A x \in Nat : x % Depth \in Index
  BY FifoAssumption DEF Index
<1>3. [i \in Index |-> f.data[(f.rdPtr + i) % Depth]] \in [Index -> Word]
  <2>1. ASSUME NEW i \in Index PROVE f.rdPtr + i \in Nat
    BY <1>1, FifoAssumption DEF Index
  <2>2. QED
    BY <1>1, <1>2, <2>1
<1>4. 0 \in Index /\ f.count % Depth \in Index
  <2>1. f.count \in Nat
    BY <1>1, FifoAssumption
  <2>2. 0 \in Index
    BY FifoAssumption DEF Index
  <2>3. QED
    BY <1>2, <2>1, <2>2, Zenon
<1>5. /\ Reloaded(f) \in Ring /\ Reloaded(f).count = f.count
      /\ Reloaded(f).rdPtr = 0 /\ Reloaded(f).wrPtr = f.count % Depth
  BY <1>1, <1>3, <1>4 DEF Reloaded, Ring
<1>6. 0 + f.count = f.count
  BY <1>1
<1>7. QED
  BY <1>5, <1>6 DEF Round
-----------------------------------------------------------------------------
\* The parts of the invariant in the words of the lemmas.
LEMMA TypesOfFifo == TypeOK <=>
  /\ fifo \in Ring /\ Round(fifo)
  /\ pipe \in [word : Word, size : 0 .. Size] /\ latch \in Byte /\ master \in BOOLEAN
  /\ queue \subseteq [due : 0 .. Delay, pri : {0}]
  /\ runnable \in BOOLEAN /\ left \in 1 .. Block /\ spent \in 0 .. UnitCycles
  /\ disturbed \in BOOLEAN
BY DEF TypeOK, Ring, Round

\* A cycle brings every event nearer.
LEMMA ElapsedOnce ==
  ASSUME queue \subseteq [due : 0 .. Delay, pri : {0}], DueNow(queue) = {}
  PROVE  /\ Elapsed(queue, 1) \subseteq [due : 0 .. Delay, pri : {0}]
         /\ \A e \in Elapsed(queue, 1) : \E d \in queue : e.due = d.due - 1
<1>1. ASSUME NEW d \in queue
      PROVE  /\ [d EXCEPT !.due = @ - 1] \in [due : 0 .. Delay, pri : {0}]
             /\ [d EXCEPT !.due = @ - 1].due = d.due - 1
  <2>1. d \in [due : 0 .. Delay, pri : {0}] /\ d.due # 0
    BY DEF DueNow
  <2>2. d.due - 1 \in 0 .. Delay
    BY <2>1, FifoAssumption
  <2>3. QED
    BY <2>1, <2>2
<1>2. Elapsed(queue, 1) = {[d EXCEPT !.due = @ - 1] : d \in queue}
  BY DEF Elapsed
<1>3. QED
  BY <1>1, <1>2

LEMMA InvInit == Init => IInv
<1> SUFFICES ASSUME Init PROVE IInv
  OBVIOUS
<1>1. fifo \in Ring /\ Round(fifo)
  BY EmptyIsRing DEF Init
<1>2. 0 \in 0 .. Size /\ 0 \in Byte /\ Block \in 1 .. Block /\ 0 \in 0 .. UnitCycles
  BY FifoAssumption
<1>3. Silence \in Word
  BY FifoAssumption DEF Silence, Word
<1>4. pipe \in [word : Word, size : 0 .. Size]
  BY <1>2, <1>3 DEF Init
<1>5. master \in BOOLEAN /\ runnable \in BOOLEAN /\ disturbed \in BOOLEAN /\ ~runnable
  BY Zenon DEF Init
<1>6. latch \in Byte /\ queue = {} /\ left = Block /\ spent = 0
  BY <1>2 DEF Init
<1>7. TypeOK
  BY <1>1, <1>2, <1>4, <1>5, <1>6, TypesOfFifo
<1>8. QED
  BY <1>5, <1>6, <1>7 DEF IInv, RefillFits, RefillsOnce, Pauses
-----------------------------------------------------------------------------
\* The pipe holds a word and at most its samples.
LEMMA PipeKeeps ==
  ASSUME TypeOK
  PROVE  /\ Refilled \in [word : Word, size : 0 .. Size]
         /\ Refilled.word[0] \in Byte
         /\ Shifted(Refilled) \in [word : Word, size : 0 .. Size]
<1>1. /\ fifo.data \in [Index -> Word] /\ fifo.rdPtr \in Index
      /\ pipe \in [word : Word, size : 0 .. Size]
  BY DEF TypeOK
<1>2. Refilled \in [word : Word, size : 0 .. Size]
  <2>1. fifo.data[fifo.rdPtr] \in Word /\ Size \in 0 .. Size
    BY <1>1, FifoAssumption
  <2>2. QED
    BY <1>1, <2>1 DEF Refilled
<1> DEFINE p == Refilled
<1>3. p \in [word : Word, size : 0 .. Size]
  BY <1>2
<1> HIDE DEF p
<1>4. p.word[0] \in Byte
  BY <1>3, FifoAssumption DEF Word
<1>5. Shifted(p) \in [word : Word, size : 0 .. Size]
  <2>1. CASE p.size = 0
    BY <1>3, <2>1 DEF Shifted
  <2>2. CASE p.size # 0
    <3>1. p.word \in [0 .. Size - 1 -> Byte] /\ p.size - 1 \in 0 .. Size
      BY <1>3, <2>2, FifoAssumption DEF Word
    <3>2. \A j \in 0 .. Size - 1 : (IF j < Size - 1 THEN p.word[j + 1] ELSE 0) \in Byte
      BY <3>1, FifoAssumption
    <3>3. [j \in 0 .. Size - 1 |-> IF j < Size - 1 THEN p.word[j + 1] ELSE 0] \in Word
      BY <3>2 DEF Word
    <3>4. QED
      BY <2>2, <3>1, <3>3 DEF Shifted
  <2>3. QED
    BY <2>1, <2>2
<1>6. QED
  BY <1>3, <1>4, <1>5 DEF p

\* An overflow's request does no harm: while a block is under way it comes too
\* early to matter or the FIFO is disturbed, otherwise the FIFO has few words.
LEMMA OnTimerOverflowKeeps == IInv /\ OnTimerOverflow => IInv'
<1> SUFFICES ASSUME IInv, OnTimerOverflow PROVE IInv'
  OBVIOUS
<1>1. TypeOK /\ RefillFits /\ RefillsOnce /\ Pauses
  BY DEF IInv
<1>2. /\ fifo \in Ring /\ Round(fifo)
      /\ pipe \in [word : Word, size : 0 .. Size] /\ latch \in Byte /\ master \in BOOLEAN
      /\ queue \subseteq [due : 0 .. Delay, pri : {0}]
      /\ runnable \in BOOLEAN /\ left \in 1 .. Block /\ spent \in 0 .. UnitCycles
      /\ disturbed \in BOOLEAN
  BY <1>1, TypesOfFifo
<1>3. UNCHANGED <<master, runnable, left, spent>>
  BY DEF OnTimerOverflow
<1>4. /\ fifo' \in Ring /\ Round(fifo)'
      /\ fifo'.count <= fifo.count /\ fifo.count \in 0 .. Depth /\ fifo'.count \in 0 .. Depth
  <2>1. fifo' = IF pipe.size = 0 /\ fifo.count > 0 THEN Popped(fifo) ELSE fifo
    BY DEF OnTimerOverflow
  <2>2. fifo.count \in 0 .. Depth
    BY <1>2 DEF Ring
  <2>3. CASE pipe.size = 0 /\ fifo.count > 0
    <3>1. fifo' = Popped(fifo)
      BY <2>1, <2>3
    <3>2. Popped(fifo) \in Ring /\ Round(Popped(fifo)) /\ Popped(fifo).count = fifo.count - 1
      BY <1>2, <2>3, PoppedKeeps
    <3>3. QED
      BY <2>2, <2>3, <3>1, <3>2, FifoAssumption DEF Round
  <2>4. CASE ~(pipe.size = 0 /\ fifo.count > 0)
    BY <1>2, <2>1, <2>2, <2>4 DEF Round
  <2>5. QED
    BY <2>3, <2>4
<1>5. latch' \in Byte /\ pipe' \in [word : Word, size : 0 .. Size]
  BY <1>1, PipeKeeps DEF OnTimerOverflow
<1>6. /\ queue' \subseteq [due : 0 .. Delay, pri : {0}]
      /\ disturbed' \in BOOLEAN
      /\ ~disturbed' => /\ ~disturbed
                        /\ \A e \in queue' : e \in queue \/ (e.due = Delay /\ left = Block)
                        /\ queue' # {} => queue # {} \/ fifo.count <= Low
  <2>1. CASE Asks(fifo)
    <3>1. /\ queue' = queue \cup {[due |-> Delay, pri |-> 0]}
          /\ disturbed' = (disturbed \/ left < Block)
      BY <2>1 DEF OnTimerOverflow, Request
    <3>2. disturbed' \in BOOLEAN /\ (~disturbed' => ~disturbed /\ ~(left < Block))
      BY <3>1, Zenon
    <3>3. ~(left < Block) => left = Block
      BY <1>2, FifoAssumption
    <3>4. Delay \in 0 .. Delay
      BY FifoAssumption
    <3>5. fifo.count <= Low
      BY <2>1 DEF Asks
    <3>6. QED
      BY <1>2, <3>1, <3>2, <3>3, <3>4, <3>5
  <2>2. CASE ~Asks(fifo)
    BY <1>2, <2>2 DEF OnTimerOverflow, Request
  <2>3. QED
    BY <2>1, <2>2
<1>7. TypeOK'
  <2>1. /\ fifo' \in Ring /\ Round(fifo)'
        /\ pipe' \in [word : Word, size : 0 .. Size] /\ latch' \in Byte /\ master' \in BOOLEAN
        /\ queue' \subseteq [due : 0 .. Delay, pri : {0}]
        /\ runnable' \in BOOLEAN /\ left' \in 1 .. Block /\ spent' \in 0 .. UnitCycles
        /\ disturbed' \in BOOLEAN
    BY <1>2, <1>3, <1>4, <1>5, <1>6
  <2>2. QED
    BY <2>1 DEF TypeOK, Ring, Round
<1>8. RefillFits'
  BY <1>1, <1>2, <1>3, <1>4, <1>6, FifoAssumption DEF RefillFits
<1>9. left = Block => Remaining >= Delay /\ Remaining \in Int
  <2> DEFINE rest == (Block - 1) * UnitCycles
  <2>1. rest \in Int /\ Delay <= rest
    BY FifoAssumption, DelayAssumption
  <2>2. left = Block => Remaining = rest + (UnitCycles - spent)
    BY DEF Remaining
  <2> HIDE DEF rest
  <2>3. QED
    BY <1>2, <2>1, <2>2, FifoAssumption
<1>10. RefillsOnce'
  <2>1. Remaining' = Remaining
    BY <1>3 DEF Remaining
  <2>2. ASSUME ~disturbed', runnable, NEW e \in queue' PROVE e.due <= Remaining
    <3>1. ~disturbed /\ (e \in queue \/ (e.due = Delay /\ left = Block))
      BY <1>6, <2>2
    <3>2. CASE e \in queue
      BY <1>1, <2>2, <3>1, <3>2 DEF RefillsOnce
    <3>3. CASE e.due = Delay /\ left = Block
      BY <1>9, <3>3, FifoAssumption
    <3>4. QED
      BY <3>1, <3>2, <3>3
  <2>3. ASSUME ~disturbed', ~runnable
        PROVE  left = Block /\ (queue' # {} => fifo'.count <= Low)
    BY <1>1, <1>4, <1>6, <2>3, FifoAssumption DEF RefillsOnce
  <2>4. QED
    BY <1>3, <2>1, <2>2, <2>3 DEF RefillsOnce
<1>11. Pauses'
  BY <1>1, <1>3 DEF Pauses
<1>12. QED
  BY <1>7, <1>8, <1>10, <1>11 DEF IInv

\* An activation starts a block, for which there is room, or finds one under way.
LEMMA OnActivatedKeeps == IInv /\ OnActivated => IInv'
<1> SUFFICES ASSUME IInv, OnActivated PROVE IInv'
  OBVIOUS
<1>1. TypeOK /\ RefillFits /\ RefillsOnce /\ Pauses
  BY DEF IInv
<1>2. /\ fifo \in Ring /\ Round(fifo)
      /\ pipe \in [word : Word, size : 0 .. Size] /\ latch \in Byte /\ master \in BOOLEAN
      /\ queue \subseteq [due : 0 .. Delay, pri : {0}]
      /\ runnable \in BOOLEAN /\ left \in 1 .. Block /\ spent \in 0 .. UnitCycles
      /\ disturbed \in BOOLEAN
  BY <1>1, TypesOfFifo
<1>3. UNCHANGED <<fifo, pipe, latch, master, left, spent, disturbed>> /\ runnable'
  BY DEF OnActivated
<1>4. PICK e \in queue : queue' = queue \ {e}
  BY DEF OnActivated, DueNow
<1>5. TypeOK'
  <2>1. runnable' = TRUE
    BY DEF OnActivated
  <2>2. runnable' \in BOOLEAN
    BY <2>1, Zenon
  <2>3. queue' \subseteq [due : 0 .. Delay, pri : {0}]
    BY <1>2, <1>4
  <2>4. QED
    BY <1>2, <1>3, <2>2, <2>3 DEF TypeOK, Ring, Round
<1>6. CASE runnable
  BY <1>1, <1>3, <1>4, <1>5, <1>6 DEF IInv, RefillFits, RefillsOnce, Remaining, Pauses
<1>7. CASE ~runnable
  <2>1. left = Block /\ spent = 0
    BY <1>1, <1>7 DEF Pauses
  <2>2. ~disturbed => fifo.count <= Low
    BY <1>1, <1>4, <1>7 DEF RefillsOnce
  <2>3. fifo.count \in 0 .. Depth
    BY <1>2 DEF Ring
  <2>4. RefillFits'
    BY <1>3, <2>1, <2>2, <2>3, FifoAssumption DEF RefillFits
  <2>5. Remaining' >= Delay
    <3> DEFINE rest == (Block - 1) * UnitCycles
    <3>1. rest \in Int /\ Delay <= rest
      BY FifoAssumption, DelayAssumption
    <3>2. Remaining' = rest + (UnitCycles - spent)
      BY <1>3, <2>1 DEF Remaining
    <3> HIDE DEF rest
    <3>3. QED
      BY <2>1, <3>1, <3>2, FifoAssumption
  <2>6. \A d \in queue' : d.due <= Delay /\ d.due \in Int
    BY <1>2, <1>4, FifoAssumption
  <2>7. Remaining' \in Int
    BY <1>2, <1>3, FifoAssumption DEF Remaining
  <2>8. RefillsOnce'
    BY <1>3, <2>5, <2>6, <2>7, FifoAssumption DEF RefillsOnce
  <2>9. Pauses'
    BY <1>3 DEF Pauses
  <2>10. QED
    BY <1>5, <2>4, <2>8, <2>9 DEF IInv
<1>8. QED
  BY <1>6, <1>7

\* Time that passes without the channel brings activations nearer, and the
\* channel's own cycles do so no faster than its block goes on.
LEMMA TimeKeeps == IInv /\ (Tick \/ Serve) => IInv'
<1> SUFFICES ASSUME IInv, Tick \/ Serve PROVE IInv'
  OBVIOUS
<1>1. TypeOK /\ RefillFits /\ RefillsOnce /\ Pauses
  BY DEF IInv
<1>2. /\ fifo \in Ring /\ Round(fifo)
      /\ pipe \in [word : Word, size : 0 .. Size] /\ latch \in Byte /\ master \in BOOLEAN
      /\ queue \subseteq [due : 0 .. Delay, pri : {0}]
      /\ runnable \in BOOLEAN /\ left \in 1 .. Block /\ spent \in 0 .. UnitCycles
      /\ disturbed \in BOOLEAN
  BY <1>1, TypesOfFifo
<1>3. /\ UNCHANGED <<fifo, pipe, latch, master, runnable, left, disturbed>>
      /\ queue' = Elapsed(queue, 1) /\ DueNow(queue) = {}
      /\ spent' = spent \/ (runnable /\ spent < UnitCycles /\ spent' = spent + 1)
  BY DEF Tick, Serve
<1>4. /\ queue' \subseteq [due : 0 .. Delay, pri : {0}]
      /\ \A e \in queue' : \E d \in queue : e.due = d.due - 1
  BY <1>2, <1>3, ElapsedOnce
<1>5. spent' \in 0 .. UnitCycles
  BY <1>2, <1>3, FifoAssumption
<1>6. TypeOK'
  BY <1>2, <1>3, <1>4, <1>5 DEF TypeOK, Ring, Round
<1>7. RefillFits' /\ Pauses'
  BY <1>1, <1>3 DEF RefillFits, Pauses
<1>8. Remaining \in Int /\ Remaining' >= Remaining - 1 /\ Remaining' \in Int
  <2> DEFINE rest == (left - 1) * UnitCycles
  <2>1. rest \in Int
    BY <1>2, FifoAssumption
  <2>2. Remaining = rest + (UnitCycles - spent) /\ Remaining' = rest + (UnitCycles - spent')
    BY <1>3 DEF Remaining
  <2>3. spent' = spent \/ spent' = spent + 1
    BY <1>3
  <2>4. spent \in Int /\ spent' \in Int /\ UnitCycles \in Int
    BY <1>2, <1>5, FifoAssumption
  <2> HIDE DEF rest
  <2>5. Remaining \in Int
    BY <2>1, <2>2, <2>4
  <2>6. Remaining' \in Int
    BY <2>1, <2>2, <2>4
  <2>7. Remaining' >= Remaining - 1
    <3> DEFINE now == Remaining
               then == Remaining'
    <3>1. now \in Int /\ then \in Int /\ (then = now \/ then = now - 1)
      <4>1. CASE spent' = spent
        BY <2>2, <2>5, <4>1
      <4>2. CASE spent' = spent + 1
        BY <2>1, <2>2, <2>4, <4>2
      <4>3. QED
        BY <2>3, <2>5, <2>6, <4>1, <4>2
    <3> HIDE DEF now, then
    <3>2. then >= now - 1
      BY <3>1
    <3>3. QED
      BY <3>2 DEF now, then
  <2>8. QED
    BY <2>5, <2>6, <2>7
<1>9. RefillsOnce'
  <2>1. ASSUME ~disturbed, runnable, NEW e \in queue' PROVE e.due <= Remaining'
    <3>1. PICK d \in queue : e.due = d.due - 1
      BY <1>4
    <3>2. d.due <= Remaining /\ d.due \in Int
      BY <1>1, <1>2, <2>1, FifoAssumption DEF RefillsOnce
    <3>3. QED
      BY <1>8, <3>1, <3>2
  <2>2. ASSUME ~disturbed, ~runnable PROVE left = Block /\ (queue' # {} => fifo.count <= Low)
    BY <1>1, <1>4, <2>2 DEF RefillsOnce
  <2>3. QED
    BY <1>3, <2>1, <2>2 DEF RefillsOnce
<1>10. QED
  BY <1>6, <1>7, <1>9 DEF IInv

\* A word arrives.  With the last one no activation is left over.
LEMMA StoreKeeps ==
  ASSUME IInv, NEW w \in Word, Store(w)
  PROVE  IInv'
<1>1. TypeOK /\ RefillFits /\ RefillsOnce /\ Pauses
  BY DEF IInv
<1>2. /\ fifo \in Ring /\ Round(fifo)
      /\ pipe \in [word : Word, size : 0 .. Size] /\ latch \in Byte /\ master \in BOOLEAN
      /\ queue \subseteq [due : 0 .. Delay, pri : {0}]
      /\ runnable \in BOOLEAN /\ left \in 1 .. Block /\ spent \in 0 .. UnitCycles
      /\ disturbed \in BOOLEAN
  BY <1>1, TypesOfFifo
<1>3. /\ UNCHANGED <<pipe, latch, master, queue, disturbed>>
      /\ spent = UnitCycles /\ spent' = 0 /\ DueNow(queue) = {}
      /\ fifo' = IF master THEN WriteWord(fifo, w) ELSE fifo
      /\ \/ left > 1 /\ left' = left - 1 /\ runnable' = runnable
         \/ ~(left > 1) /\ left' = Block /\ runnable' = FALSE
  BY DEF Store
<1>4. runnable
  BY <1>1, <1>3, FifoAssumption DEF Pauses
<1>5. fifo.count \in 0 .. Depth
  BY <1>2 DEF Ring
<1>6. /\ fifo' \in Ring /\ Round(fifo)'
      /\ ~disturbed => fifo'.count \in {fifo.count, fifo.count + 1}
  <2>1. CASE master
    <3>1. fifo' = WriteWord(fifo, w)
      BY <1>3, <2>1
    <3>2. /\ WriteWord(fifo, w) \in Ring /\ Round(WriteWord(fifo, w))
          /\ fifo.count < Depth => WriteWord(fifo, w).count = fifo.count + 1
      BY <1>2, WriteWordKeeps
    <3>3. ~disturbed => fifo.count < Depth
      BY <1>1, <1>2, <1>4, <1>5, FifoAssumption DEF RefillFits
    <3>4. QED
      BY <3>1, <3>2, <3>3 DEF Round
  <2>2. CASE ~master
    BY <1>2, <1>3, <2>2 DEF Round
  <2>3. QED
    BY <2>1, <2>2
<1>7. fifo'.count \in 0 .. Depth
  BY <1>6 DEF Ring
<1>8. left' \in 1 .. Block /\ 0 \in 0 .. UnitCycles
  BY <1>2, <1>3, FifoAssumption
<1>9. runnable' \in BOOLEAN
  BY <1>2, <1>3, Zenon
<1>10. TypeOK'
  BY <1>2, <1>3, <1>6, <1>8, <1>9 DEF TypeOK, Ring, Round
<1>11. CASE left > 1
  <2>1. left' = left - 1 /\ runnable'
    BY <1>3, <1>4, <1>11
  <2>2. RefillFits'
    BY <1>1, <1>2, <1>3, <1>4, <1>5, <1>6, <1>7, <2>1, FifoAssumption DEF RefillFits
  <2>3. Remaining' = Remaining
    <3>1. left \in Int /\ UnitCycles \in Int
      BY <1>2, FifoAssumption
    <3>2. (left - 1) * UnitCycles = (left - 1 - 1) * UnitCycles + UnitCycles
      BY <3>1
    <3>3. /\ Remaining = (left - 1) * UnitCycles + (UnitCycles - UnitCycles)
          /\ Remaining' = (left - 1 - 1) * UnitCycles + (UnitCycles - 0)
      BY <1>3, <2>1 DEF Remaining
    <3> DEFINE a == (left - 1) * UnitCycles
               b == (left - 1 - 1) * UnitCycles
    <3>4. a \in Int /\ b \in Int /\ a = b + UnitCycles
      BY <3>1, <3>2
    <3>5. Remaining = a + (UnitCycles - UnitCycles) /\ Remaining' = b + (UnitCycles - 0)
      BY <3>3
    <3> HIDE DEF a, b
    <3>6. QED
      BY <3>1, <3>4, <3>5
  <2>4. RefillsOnce'
    BY <1>1, <1>3, <1>4, <2>1, <2>3 DEF RefillsOnce
  <2>5. Pauses'
    BY <2>1 DEF Pauses
  <2>6. QED
    BY <1>10, <2>2, <2>4, <2>5 DEF IInv
<1>12. CASE ~(left > 1)
  <2>1. left = 1 /\ left' = Block /\ ~runnable'
    BY <1>2, <1>3, <1>12
  <2>2. Remaining = 0
    BY <1>3, <2>1, FifoAssumption DEF Remaining
  <2>3. ~disturbed => queue = {}
    <3>1. ASSUME ~disturbed, NEW e \in queue PROVE FALSE
      <4>1. e.due <= 0
        BY <1>1, <1>4, <2>2, <3>1 DEF RefillsOnce
      <4>2. e.due \in 0 .. Delay /\ e.due # 0
        BY <1>2, <1>3 DEF DueNow
      <4>3. QED
        BY <4>1, <4>2, FifoAssumption
    <3>2. QED
      BY <3>1
  <2>4. RefillFits' /\ RefillsOnce' /\ Pauses'
    BY <1>3, <2>1, <2>3 DEF RefillFits, RefillsOnce, Pauses
  <2>5. QED
    BY <1>10, <2>4 DEF IInv
<1>13. QED
  BY <1>11, <1>12
-----------------------------------------------------------------------------
\* What the program does to the FIFO while the channel stands still.
LEMMA FifoChanges ==
  ASSUME IInv, fifo' \in Ring, Round(fifo)', master' \in BOOLEAN,
         UNCHANGED <<pipe, latch>>, UNCHANGED dma,
         disturbed' \in BOOLEAN, disturbed => disturbed',
         ~disturbed' => fifo'.count <= fifo.count \/ (queue = {} /\ ~runnable)
  PROVE  IInv'
<1>1. TypeOK /\ RefillFits /\ RefillsOnce /\ Pauses
  BY DEF IInv
<1>2. /\ fifo \in Ring
      /\ pipe \in [word : Word, size : 0 .. Size] /\ latch \in Byte
      /\ queue \subseteq [due : 0 .. Delay, pri : {0}]
      /\ runnable \in BOOLEAN /\ left \in 1 .. Block /\ spent \in 0 .. UnitCycles
  BY <1>1, TypesOfFifo
<1>3. UNCHANGED <<pipe, latch, queue, runnable, left, spent>>
  BY DEF dma
<1>4. fifo.count \in 0 .. Depth /\ fifo'.count \in 0 .. Depth
  BY <1>2 DEF Ring
<1>5. TypeOK'
  BY <1>2, <1>3 DEF TypeOK, Ring, Round
<1>6. RefillFits'
  BY <1>1, <1>2, <1>3, <1>4, FifoAssumption DEF RefillFits
<1>7. RefillsOnce'
  <2>1. Remaining' = Remaining
    BY <1>3 DEF Remaining
  <2>2. CASE disturbed'
    BY <2>2 DEF RefillsOnce
  <2>3. CASE ~disturbed' /\ runnable
    BY <1>1, <1>3, <2>1, <2>3 DEF RefillsOnce
  <2>4. CASE ~disturbed' /\ ~runnable
    BY <1>1, <1>3, <1>4, <2>4, FifoAssumption DEF RefillsOnce
  <2>5. QED
    BY <2>2, <2>3, <2>4
<1>8. Pauses'
  BY <1>1, <1>3 DEF Pauses
<1>9. QED
  BY <1>5, <1>6, <1>7, <1>8 DEF IInv

\* Halves and bytes are written as whole words.
LEMMA CPUWritesWord ==
  ASSUME fifo \in Ring, CPUWrites
  PROVE  \E v \in Word : fifo' = WriteWord(fifo, v)
<1>1. PICK w \in Word, b \in Byte, offset \in 0 .. Size - 1 :
        fifo' \in {WriteWord(fifo, w), WriteHalf(fifo, offset, b), WriteByte(fifo, offset, b)}
  BY DEF CPUWrites
<1>2. fifo.data[fifo.wrPtr] \in Word
  BY DEF Ring
<1>3. [fifo.data[fifo.wrPtr] EXCEPT ![offset] = b] \in Word
  BY <1>2 DEF Word
<1>4. [i \in 0 .. Size - 1 |-> IF i = offset THEN b
                               ELSE IF i = offset + 1 THEN 0
                               ELSE fifo.data[fifo.wrPtr][i]] \in Word
  BY <1>2, FifoAssumption DEF Word
<1>5. QED
  BY <1>1, <1>3, <1>4 DEF WriteHalf, WriteByte

\* A program's word is added where none is on its way, or disturbs the FIFO.
LEMMA CPUWritesKeeps == IInv /\ CPUWrites => IInv'
<1> SUFFICES ASSUME IInv, CPUWrites PROVE IInv'
  OBVIOUS
<1>1. fifo \in Ring /\ Round(fifo) /\ master \in BOOLEAN /\ disturbed \in BOOLEAN
  BY TypesOfFifo DEF IInv
<1>2. fifo' \in Ring /\ Round(fifo)'
  <2>1. PICK v \in Word : fifo' = WriteWord(fifo, v)
    BY <1>1, CPUWritesWord
  <2>2. WriteWord(fifo, v) \in Ring /\ Round(WriteWord(fifo, v))
    BY <1>1, WriteWordKeeps
  <2>3. QED
    BY <2>1, <2>2 DEF Round
<1>3. disturbed' = (disturbed \/ queue # {} \/ runnable)
  BY DEF CPUWrites
<1>4. /\ disturbed' \in BOOLEAN /\ (disturbed => disturbed')
      /\ ~disturbed' => queue = {} /\ ~runnable
  BY <1>3, Zenon
<1>5. UNCHANGED <<pipe, latch, master>> /\ UNCHANGED dma
  BY DEF CPUWrites
<1>6. QED
  BY <1>1, <1>2, <1>4, <1>5, FifoChanges

\* Resetting, saving and loading, and switching sound leave no more words than
\* there were.
LEMMA ProgramKeeps ==
  ASSUME IInv, ResetFIFO \/ SaveAndLoad \/ (\E on \in BOOLEAN : WriteMasterEnable(on))
  PROVE  IInv'
<1>1. /\ fifo \in Ring /\ Round(fifo) /\ master \in BOOLEAN /\ disturbed \in BOOLEAN
      /\ fifo.count \in 0 .. Depth
  BY TypesOfFifo DEF IInv, Ring
<1>2. /\ UNCHANGED <<pipe, latch>> /\ UNCHANGED dma /\ disturbed' = disturbed
      /\ master' \in BOOLEAN
  <2>1. ASSUME NEW on \in BOOLEAN, WriteMasterEnable(on) PROVE master' \in BOOLEAN
    <3>1. master' = on
      BY <2>1 DEF WriteMasterEnable
    <3>2. QED
      BY <3>1, Zenon
  <2>2. ASSUME ResetFIFO \/ SaveAndLoad PROVE master' \in BOOLEAN
    BY <1>1, <2>2 DEF ResetFIFO, SaveAndLoad
  <2>3. UNCHANGED <<pipe, latch>> /\ UNCHANGED dma /\ disturbed' = disturbed
    BY DEF ResetFIFO, SaveAndLoad, WriteMasterEnable
  <2>4. QED
    BY <2>1, <2>2, <2>3
<1>3. fifo' \in {fifo, EmptyFIFO, Reloaded(fifo)}
  BY DEF ResetFIFO, SaveAndLoad, WriteMasterEnable
<1>4. Reloaded(fifo) \in Ring /\ Round(Reloaded(fifo)) /\ Reloaded(fifo).count = fifo.count
  BY <1>1, ReloadedKeeps
<1>5. fifo' \in Ring /\ Round(fifo') /\ fifo'.count <= fifo.count
  BY <1>1, <1>3, <1>4, EmptyIsRing, FifoAssumption
<1>6. Round(fifo)'
  BY <1>5 DEF Round
<1>7. disturbed' \in BOOLEAN /\ (disturbed => disturbed')
  BY <1>1, <1>2
<1>8. QED
  BY <1>2, <1>5, <1>6, <1>7, FifoChanges
-----------------------------------------------------------------------------
LEMMA InvStep == IInv /\ [Next]_vars => IInv'
<1> SUFFICES ASSUME IInv, [Next]_vars PROVE IInv'
  OBVIOUS
<1>1. CASE OnTimerOverflow
  BY <1>1, OnTimerOverflowKeeps
<1>2. CASE OnActivated
  BY <1>2, OnActivatedKeeps
<1>3. CASE Tick \/ Serve
  BY <1>3, TimeKeeps
<1>4. CASE StoreSome
  BY <1>4, StoreKeeps DEF StoreSome
<1>5. CASE CPUWrites
  BY <1>5, CPUWritesKeeps
<1>6. CASE ResetFIFO \/ SaveAndLoad \/ (\E on \in BOOLEAN : WriteMasterEnable(on))
  BY <1>6, ProgramKeeps
<1>7. CASE UNCHANGED vars
  BY <1>7 DEF vars, IInv, TypeOK, RefillFits, RefillsOnce, Remaining, Pauses
<1>8. QED
  BY <1>1, <1>2, <1>3, <1>4, <1>5, <1>6, <1>7 DEF Next

LEMMA InvHolds == Spec => []IInv
BY InvInit, InvStep, PTL DEF Spec

\* The ring keeps its shape: the write pointer is always count words after the
\* read pointer, whatever timer, DMA, program, saving and loading do to it, and
\* block counter and pipe stay within their bounds.
THEOREM FifoTypeCorrect == Spec => []TypeOK
<1>1. IInv => TypeOK
  BY DEF IInv
<1>2. QED
  BY <1>1, InvHolds, PTL

\* The words that a DMA block still has to write find room in the FIFO, for
\* every ring, block and timing that the assumptions allow, unless a request or
\* a write of the program's came in the middle of a block: onTimerOverflow asks
\* only when Low words or fewer are left, and what it asks for is over before
\* the block is.
THEOREM RefillsFit == Spec => []RefillFits
<1>1. IInv => RefillFits
  BY DEF IInv
<1>2. QED
  BY <1>1, InvHolds, PTL
-----------------------------------------------------------------------------
(***************************************************************************)
(* The channel implements SampleStream.                                    *)
(***************************************************************************)
\* Whole words and a rest.
LEMMA Parts ==
  ASSUME NEW q \in Nat, NEW r \in 0 .. Size - 1
  PROVE  (q * Size + r) \div Size = q /\ (q * Size + r) % Size = r
<1> DEFINE n == q * Size + r
           d == n \div Size
           m == n % Size
           qs == q * Size
           ds == d * Size
<1>1. Size \in Nat /\ Size > 0
  BY FifoAssumption
<1>2. qs \in Nat
  BY <1>1
<1>3. n \in Nat
  BY <1>1, <1>2
<1>4. d \in Int /\ m \in 0 .. Size - 1 /\ n = d * Size + m
  BY <1>1, <1>3
<1>5. d < q => ds <= qs - Size
  BY <1>1, <1>4
<1>6. d > q => ds >= qs + Size
  BY <1>1, <1>4
<1>7. ds \in Int /\ n = ds + m /\ n = qs + r
  BY <1>1, <1>4
<1> HIDE DEF n, qs, ds, d, m
<1>8. d = q
  BY <1>1, <1>2, <1>3, <1>4, <1>5, <1>6, <1>7
<1>9. m = r
  BY <1>2, <1>4, <1>7, <1>8 DEF qs, ds
<1>10. QED
  BY <1>8, <1>9 DEF n, d, m

\* The word that the n-th queued sample belongs to, and its place there; a
\* word on, the place is the same.
LEMMA PartsOf ==
  ASSUME NEW k \in Nat, NEW n \in 0 .. k * Size - 1
  PROVE  /\ n \div Size \in 0 .. k - 1 /\ n % Size \in 0 .. Size - 1
         /\ (n + Size) \div Size = n \div Size + 1 /\ (n + Size) % Size = n % Size
<1> DEFINE d == n \div Size
           m == n % Size
           ds == d * Size
           ks == k * Size
<1>1. Size \in Nat /\ Size > 0
  BY FifoAssumption
<1>2. ks \in Nat
  BY <1>1
<1>3. n \in Nat /\ n < ks
  BY <1>2
<1>4. d \in Int /\ m \in 0 .. Size - 1 /\ n = d * Size + m
  BY <1>1, <1>3
<1>5. d < 0 => ds <= -Size
  BY <1>1, <1>4
<1>6. d >= k => ds >= ks
  BY <1>1, <1>4
<1>7. ds \in Int /\ n = ds + m
  BY <1>1, <1>4
<1>8. ds + Size = (d + 1) * Size
  BY <1>1, <1>4
<1> HIDE DEF ks, ds, d, m
<1>9. d \in 0 .. k - 1
  BY <1>1, <1>2, <1>3, <1>4, <1>5, <1>6, <1>7
<1>10. n + Size = (d + 1) * Size + m
  BY <1>1, <1>4, <1>7, <1>8
<1>11. (n + Size) \div Size = d + 1 /\ (n + Size) % Size = m
  <2>1. d + 1 \in Nat
    BY <1>9
  <2>2. ((d + 1) * Size + m) \div Size = d + 1 /\ ((d + 1) * Size + m) % Size = m
    BY <1>4, <2>1, Parts
  <2>3. QED
    BY <1>10, <2>2, Zenon
<1>12. QED
  BY <1>4, <1>9, <1>11 DEF d, m
-----------------------------------------------------------------------------
\* The stream of a pipe p and a ring f.
Length(p, f) == p.size + f.count * Size
Slot(f, d) == (f.rdPtr + d) % Depth
Queued(f, n) == f.data[Slot(f, n \div Size)][n % Size]
Nth(p, f, i) == IF i <= p.size THEN p.word[i - 1] ELSE Queued(f, i - 1 - p.size)
Flat(p, f) == [i \in 1 .. Length(p, f) |-> Nth(p, f, i)]

Pipe == [word : Word, size : 0 .. Size]

\* The slots that hold words are different ones.
LEMMA SlotsDiffer ==
  ASSUME NEW f \in Ring, NEW d \in 0 .. Depth, NEW e \in 0 .. Depth, Slot(f, d) = Slot(f, e), d < e
  PROVE  d = 0 /\ e = Depth
<1>1. f.rdPtr \in 0 .. Depth - 1 /\ Depth \in Nat \ {0}
  BY FifoAssumption DEF Ring, Index
<1>2. f.rdPtr + d \in 0 .. 2 * Depth - 1 /\ f.rdPtr + e \in 0 .. 2 * Depth - 1
  BY <1>1
<1>3. Slot(f, d) = Folded(f.rdPtr + d) /\ Slot(f, e) = Folded(f.rdPtr + e)
  BY <1>2, WithinTwoRounds DEF Slot
<1> DEFINE sd == Slot(f, d)
           se == Slot(f, e)
<1>4. sd = Folded(f.rdPtr + d) /\ se = Folded(f.rdPtr + e) /\ sd = se
  BY <1>3
<1> HIDE DEF sd, se
<1>5. QED
  BY <1>1, <1>4 DEF Folded

LEMMA SlotInIndex ==
  ASSUME NEW f \in Ring, NEW d \in Nat
  PROVE  Slot(f, d) \in Index
BY FifoAssumption DEF Ring, Index, Slot

LEMMA QueuedInByte ==
  ASSUME NEW f \in Ring, NEW n \in 0 .. f.count * Size - 1
  PROVE  Queued(f, n) \in Byte
<1>1. f.count \in Nat
  BY FifoAssumption DEF Ring
<1>2. n \div Size \in 0 .. f.count - 1 /\ n % Size \in 0 .. Size - 1
  BY <1>1, PartsOf
<1> DEFINE d == n \div Size
           m == n % Size
<1>3. d \in Nat /\ m \in 0 .. Size - 1
  BY <1>1, <1>2
<1> HIDE DEF d, m
<1>4. Slot(f, d) \in Index
  BY <1>3, SlotInIndex
<1>5. f.data[Slot(f, d)] \in Word
  BY <1>4 DEF Ring
<1>6. f.data[Slot(f, d)][m] \in Byte
  BY <1>3, <1>5 DEF Word
<1>7. QED
  BY <1>6 DEF Queued, d, m

LEMMA LengthInNat ==
  ASSUME NEW p \in Pipe, NEW f \in Ring
  PROVE  /\ Length(p, f) \in Nat /\ f.count * Size \in Nat /\ p.size \in Nat
         /\ Length(p, f) = p.size + f.count * Size
<1>1. Size \in Nat /\ f.count \in Nat /\ p.size \in Nat
  BY FifoAssumption DEF Ring, Pipe
<1>2. f.count * Size \in Nat
  BY <1>1
<1>3. QED
  BY <1>1, <1>2 DEF Length

LEMMA FlatIsSeq ==
  ASSUME NEW p \in Pipe, NEW f \in Ring
  PROVE  /\ Flat(p, f) \in Seq(Byte) /\ Len(Flat(p, f)) = Length(p, f)
         /\ \A i \in 1 .. Length(p, f) : Flat(p, f)[i] = Nth(p, f, i)
<1>1. /\ Length(p, f) \in Nat /\ f.count * Size \in Nat /\ p.size \in 0 .. Size
      /\ Length(p, f) = p.size + f.count * Size
  BY LengthInNat DEF Pipe
<1>2. ASSUME NEW i \in 1 .. Length(p, f) PROVE Nth(p, f, i) \in Byte
  <2>1. CASE i <= p.size
    <3>1. i - 1 \in 0 .. Size - 1
      BY <1>1, <2>1, FifoAssumption
    <3>2. p.word[i - 1] \in Byte
      BY <3>1 DEF Pipe, Word
    <3>3. QED
      BY <2>1, <3>2 DEF Nth
  <2>2. CASE ~(i <= p.size)
    <3>1. i - 1 - p.size \in 0 .. f.count * Size - 1
      BY <1>1, <2>2, FifoAssumption
    <3>2. QED
      BY <2>2, <3>1, QueuedInByte DEF Nth
  <2>3. QED
    BY <2>1, <2>2
<1>3. Flat(p, f) \in [1 .. Length(p, f) -> Byte]
  BY <1>2 DEF Flat
<1>4. Flat(p, f) \in Seq(Byte)
  BY <1>1, <1>3, SeqDef
<1>5. Len(Flat(p, f)) = Length(p, f)
  <2>1. DOMAIN Flat(p, f) = 1 .. Length(p, f)
    BY DEF Flat
  <2>2. DOMAIN Flat(p, f) = 1 .. Len(Flat(p, f)) /\ Len(Flat(p, f)) \in Nat
    BY <1>4, LenProperties
  <2>3. QED
    BY <1>1, <2>1, <2>2
<1>6. QED
  BY <1>4, <1>5 DEF Flat

\* The stream is what is left in the pipe, then the words of the ring.
LEMMA StreamIsFlat ==
  ASSUME NEW p \in Pipe, NEW f \in Ring
  PROVE  LET WordAtOf(k) == f.data[(f.rdPtr + k) % Depth]
             queued == [k \in 1 .. f.count * Size |->
                          WordAtOf((k - 1) \div Size)[(k - 1) % Size]]
         IN  [i \in 1 .. p.size |-> p.word[i - 1]] \o queued = Flat(p, f)
<1> DEFINE rest == [i \in 1 .. p.size |-> p.word[i - 1]]
           queued == [k \in 1 .. f.count * Size |-> Queued(f, k - 1)]
<1>1. /\ Length(p, f) \in Nat /\ f.count * Size \in Nat /\ p.size \in 0 .. Size
      /\ Length(p, f) = p.size + f.count * Size
  BY LengthInNat DEF Pipe
<1> DEFINE n == f.count * Size
<1>2. rest \in Seq(Byte) /\ Len(rest) = p.size
  <2>1. ASSUME NEW i \in 1 .. p.size PROVE p.word[i - 1] \in Byte
    <3>1. i - 1 \in 0 .. Size - 1
      BY <1>1, FifoAssumption
    <3>2. QED
      BY <3>1 DEF Pipe, Word
  <2>2. rest \in [1 .. p.size -> Byte]
    BY <2>1
  <2>3. p.size \in Nat
    BY <1>1, FifoAssumption
  <2>4. rest \in Seq(Byte)
    BY <2>2, <2>3, SeqDef
  <2>5. DOMAIN rest = 1 .. Len(rest) /\ Len(rest) \in Nat /\ DOMAIN rest = 1 .. p.size
    BY <2>4, LenProperties
  <2>6. QED
    BY <2>3, <2>4, <2>5
<1>3. queued \in Seq(Byte) /\ Len(queued) = n
  <2> HIDE DEF n
  <2>1. n \in Nat /\ n = f.count * Size
    BY <1>1 DEF n
  <2>2. ASSUME NEW k \in 1 .. n PROVE Queued(f, k - 1) \in Byte
    <3>1. k - 1 \in 0 .. f.count * Size - 1
      BY <2>1
    <3>2. QED
      BY <3>1, QueuedInByte
  <2>3. queued \in [1 .. n -> Byte]
    BY <2>1, <2>2
  <2>4. queued \in Seq(Byte)
    BY <2>1, <2>3, SeqDef
  <2>5. DOMAIN queued = 1 .. Len(queued) /\ Len(queued) \in Nat
    BY <2>4, LenProperties
  <2>6. DOMAIN queued = 1 .. n
    BY <2>3
  <2>7. QED
    BY <2>1, <2>4, <2>5, <2>6
<1>4. /\ rest \o queued \in Seq(Byte) /\ Len(rest \o queued) = p.size + n
      /\ \A i \in 1 .. p.size + n :
           (rest \o queued)[i] = IF i <= p.size THEN rest[i] ELSE queued[i - p.size]
  <2> HIDE DEF rest, queued, n
  <2>1. /\ rest \o queued \in Seq(Byte)
        /\ Len(rest \o queued) = Len(rest) + Len(queued)
        /\ \A i \in 1 .. Len(rest) + Len(queued) :
             (rest \o queued)[i] = IF i <= Len(rest) THEN rest[i] ELSE queued[i - Len(rest)]
    BY <1>2, <1>3, ConcatProperties, Zenon
  <2>2. QED
    BY <1>2, <1>3, <2>1, Zenon
<1>5. ASSUME NEW i \in 1 .. Length(p, f)
      PROVE  (rest \o queued)[i] = Flat(p, f)[i]
  <2>1. Flat(p, f)[i] = Nth(p, f, i)
    BY FlatIsSeq
  <2>2. CASE i <= p.size
    <3>1. rest[i] = p.word[i - 1]
      BY <1>1, <2>2
    <3>2. QED
      BY <1>1, <1>4, <2>1, <2>2, <3>1 DEF Nth
  <2>3. CASE ~(i <= p.size)
    <3>1. i - p.size \in 1 .. n
      BY <1>1, <2>3
    <3>2. queued[i - p.size] = Queued(f, i - p.size - 1)
      BY <3>1
    <3>3. i - p.size - 1 = i - 1 - p.size
      BY <1>1, FifoAssumption
    <3>4. QED
      BY <1>1, <1>4, <2>1, <2>3, <3>2, <3>3 DEF Nth
  <2>4. QED
    BY <2>2, <2>3
<1>6. rest \o queued = Flat(p, f)
  <2> HIDE DEF rest, queued
  <2>1. Len(rest \o queued) = Len(Flat(p, f)) /\ Len(rest \o queued) = Length(p, f)
    BY <1>1, <1>4, FlatIsSeq
  <2>2. QED
    BY <1>4, <1>5, <2>1, FlatIsSeq, SeqEqual
<1>7. QED
  BY <1>6 DEF Queued, Slot
-----------------------------------------------------------------------------
\* A word that finds room comes last.
LEMMA WrittenLast ==
  ASSUME NEW p \in Pipe, NEW f \in Ring, Round(f), NEW w \in Word, f.count < Depth
  PROVE  Flat(p, WriteWord(f, w)) = Flat(p, f) \o [i \in 1 .. Size |-> w[i - 1]]
<1> DEFINE g == WriteWord(f, w)
           last == [i \in 1 .. Size |-> w[i - 1]]
           n == f.count * Size
<1>1. /\ f.count \in Nat /\ p.size \in 0 .. Size /\ Size \in Nat \ {0}
      /\ f.rdPtr \in Index /\ f.wrPtr \in Index /\ f.data \in [Index -> Word]
  BY FifoAssumption DEF Ring, Pipe
<1>2. g \in Ring /\ g.count = f.count + 1
  BY WriteWordKeeps
<1>3. g.rdPtr = f.rdPtr /\ g.data = [f.data EXCEPT ![f.wrPtr] = w]
  BY DEF WriteWord, Ring
<1>4. (f.count + 1) * Size = n + Size /\ n \in Nat
  BY <1>1
<1>5. /\ Length(p, f) = p.size + n /\ Length(p, g) = p.size + n + Size
  BY <1>1, <1>2, <1>4 DEF Length
<1>6. last \in Seq(Byte) /\ Len(last) = Size /\ \A i \in 1 .. Size : last[i] = w[i - 1]
  <2>1. last \in [1 .. Size -> Byte]
    BY <1>1 DEF Word
  <2>2. last \in Seq(Byte)
    BY <1>1, <2>1, SeqDef
  <2>3. DOMAIN last = 1 .. Len(last) /\ Len(last) \in Nat /\ DOMAIN last = 1 .. Size
    BY <2>2, LenProperties
  <2>4. QED
    BY <1>1, <2>2, <2>3
<1>7. ASSUME NEW m \in 0 .. n - 1 PROVE Queued(g, m) = Queued(f, m)
  <2> DEFINE d == m \div Size
  <2>1. d \in 0 .. f.count - 1
    BY <1>1, PartsOf
  <2> HIDE DEF d
  <2>2. d \in 0 .. Depth /\ f.count \in 0 .. Depth /\ d < f.count
    BY <1>1, <2>1, FifoAssumption
  <2>3. Slot(f, d) # Slot(f, f.count)
    BY <2>2, SlotsDiffer
  <2>4. f.wrPtr = Slot(f, f.count)
    BY DEF Round, Slot
  <2>5. Slot(g, d) = Slot(f, d) /\ Slot(f, d) \in Index
    BY <1>3, <2>2, SlotInIndex DEF Slot
  <2>6. g.data[Slot(g, d)] = f.data[Slot(f, d)]
    BY <1>1, <1>3, <2>3, <2>4, <2>5
  <2>7. QED
    BY <2>6 DEF Queued, d
<1>8. ASSUME NEW r \in 0 .. Size - 1 PROVE Queued(g, n + r) = w[r]
  <2>1. (n + r) \div Size = f.count /\ (n + r) % Size = r
    BY <1>1, Parts
  <2>2. Slot(g, f.count) = f.wrPtr
    BY <1>3 DEF Round, Slot
  <2>3. g.data[f.wrPtr] = w
    BY <1>1, <1>3
  <2>4. Queued(g, n + r) = g.data[Slot(g, f.count)][r]
    BY <2>1, Zenon DEF Queued
  <2>5. QED
    BY <2>2, <2>3, <2>4
<1> HIDE DEF g, last, n
<1>9. /\ Flat(p, f) \in Seq(Byte) /\ Len(Flat(p, f)) = p.size + n
      /\ \A i \in 1 .. p.size + n : Flat(p, f)[i] = Nth(p, f, i)
  BY <1>5, FlatIsSeq
<1>10. /\ Flat(p, g) \in Seq(Byte) /\ Len(Flat(p, g)) = p.size + n + Size
       /\ \A i \in 1 .. p.size + n + Size : Flat(p, g)[i] = Nth(p, g, i)
  BY <1>2, <1>5, FlatIsSeq
<1> DEFINE both == Flat(p, f) \o last
<1>11. /\ both \in Seq(Byte)
       /\ Len(both) = p.size + n + Size
       /\ \A i \in 1 .. p.size + n + Size :
            both[i] = IF i <= p.size + n THEN Flat(p, f)[i] ELSE last[i - (p.size + n)]
  <2>1. /\ both \in Seq(Byte)
        /\ Len(both) = Len(Flat(p, f)) + Len(last)
        /\ \A i \in 1 .. Len(Flat(p, f)) + Len(last) :
             both[i] = IF i <= Len(Flat(p, f)) THEN Flat(p, f)[i] ELSE last[i - Len(Flat(p, f))]
    BY <1>6, <1>9, ConcatProperties, Zenon
  <2>2. QED
    BY <1>6, <1>9, <2>1, Zenon
<1>12. ASSUME NEW i \in 1 .. p.size + n + Size PROVE both[i] = Flat(p, g)[i]
  <2> HIDE DEF both
  <2>1. CASE i <= p.size
    <3>1. i \in 1 .. p.size + n
      BY <1>1, <1>4, <2>1
    <3>2. QED
      BY <1>9, <1>10, <1>11, <2>1, <3>1 DEF Nth
  <2>2. CASE ~(i <= p.size) /\ i <= p.size + n
    <3>1. i \in 1 .. p.size + n /\ i - 1 - p.size \in 0 .. n - 1
      BY <1>1, <1>4, <2>2
    <3>2. QED
      BY <1>7, <1>9, <1>10, <1>11, <2>2, <3>1 DEF Nth
  <2>3. CASE ~(i <= p.size + n)
    <3>1. /\ ~(i <= p.size) /\ i - (p.size + n) - 1 \in 0 .. Size - 1
          /\ i - (p.size + n) \in 1 .. Size
          /\ i - 1 - p.size = n + (i - (p.size + n) - 1)
      BY <1>1, <1>4, <2>3
    <3>2. Queued(g, i - 1 - p.size) = w[i - (p.size + n) - 1]
      BY <1>8, <3>1
    <3>3. last[i - (p.size + n)] = w[i - (p.size + n) - 1]
      BY <1>6, <3>1
    <3>4. QED
      BY <1>10, <1>11, <2>3, <3>1, <3>2, <3>3 DEF Nth
  <2>4. QED
    BY <2>1, <2>2, <2>3
<1>13. both = Flat(p, g)
  <2> HIDE DEF both
  <2>1. QED
    BY <1>10, <1>11, <1>12, SeqEqual
<1>14. QED
  BY <1>13 DEF g, last, both

\* Saving and loading turns the ring and keeps the order of its words.
LEMMA ReloadedFlat ==
  ASSUME NEW p \in Pipe, NEW f \in Ring, Round(f)
  PROVE  Flat(p, Reloaded(f)) = Flat(p, f)
<1> DEFINE g == Reloaded(f)
<1>1. /\ f.count \in 0 .. Depth /\ f.count \in Nat /\ p.size \in 0 .. Size
  BY FifoAssumption DEF Ring, Pipe
<1>2. g \in Ring /\ g.count = f.count
  BY ReloadedKeeps
<1>3. g.rdPtr = 0 /\ g.data = [i \in Index |-> f.data[Slot(f, i)]]
  BY DEF Reloaded, Slot
<1>4. ASSUME NEW m \in 0 .. f.count * Size - 1 PROVE Queued(g, m) = Queued(f, m)
  <2> DEFINE d == m \div Size
  <2>1. d \in 0 .. f.count - 1
    BY <1>1, PartsOf
  <2> HIDE DEF d
  <2>2. d \in Index
    BY <1>1, <2>1, FifoAssumption DEF Index
  <2>3. Slot(g, d) = d
    BY <1>3, <2>2, FifoAssumption DEF Slot, Index
  <2>4. g.data[Slot(g, d)] = f.data[Slot(f, d)]
    BY <1>3, <2>2, <2>3
  <2>5. QED
    BY <2>4 DEF Queued, d
<1>5. Length(p, g) = Length(p, f)
  BY <1>2 DEF Length
<1> HIDE DEF g
<1>6. ASSUME NEW i \in 1 .. Length(p, f) PROVE Nth(p, g, i) = Nth(p, f, i)
  <2>1. CASE i <= p.size
    BY <2>1 DEF Nth
  <2>2. CASE ~(i <= p.size)
    <3>1. i - 1 - p.size \in 0 .. f.count * Size - 1
      BY <1>1, <2>2, LengthInNat, FifoAssumption
    <3>2. QED
      BY <1>4, <2>2, <3>1 DEF Nth
  <2>3. QED
    BY <2>1, <2>2
<1>7. Flat(p, g) = Flat(p, f)
  BY <1>5, <1>6 DEF Flat
<1>8. QED
  BY <1>7 DEF g

\* A word moves from the ring to the empty pipe.
LEMMA RefilledFlat ==
  ASSUME NEW p \in Pipe, NEW f \in Ring, Round(f), p.size = 0, f.count > 0
  PROVE  Flat([word |-> f.data[f.rdPtr], size |-> Size], Popped(f)) = Flat(p, f)
<1> DEFINE r == [word |-> f.data[f.rdPtr], size |-> Size]
           g == Popped(f)
           n == (f.count - 1) * Size
<1>1. /\ f.count \in 1 .. Depth /\ f.count - 1 \in Nat /\ Size \in Nat \ {0}
      /\ f.rdPtr \in Index /\ f.data \in [Index -> Word]
  BY FifoAssumption DEF Ring, Pipe
<1>2. g \in Ring /\ g.count = f.count - 1
  BY PoppedKeeps
<1>3. g.rdPtr = After(f.rdPtr) /\ g.data = f.data
  BY DEF Popped, Ring
<1>4. f.count * Size = n + Size /\ n \in Nat
  <2> DEFINE c == f.count - 1
  <2>1. c \in Nat /\ f.count = c + 1 /\ Size \in Nat
    BY <1>1
  <2> HIDE DEF c
  <2>2. (c + 1) * Size = c * Size + Size /\ c * Size \in Nat
    BY <2>1
  <2>3. QED
    BY <2>1, <2>2 DEF c
<1>5. Length(p, f) = n + Size /\ Length(r, g) = n + Size
  BY <1>1, <1>2, <1>4 DEF Length
<1>6. ASSUME NEW m \in 0 .. n - 1 PROVE Queued(g, m) = Queued(f, m + Size)
  <2> DEFINE d == m \div Size
             e == m % Size
  <2>1. /\ d \in 0 .. f.count - 2
        /\ (m + Size) \div Size = d + 1 /\ (m + Size) % Size = e
    <3>1. /\ d \in 0 .. (f.count - 1) - 1
          /\ (m + Size) \div Size = d + 1 /\ (m + Size) % Size = e
      BY <1>1, PartsOf
    <3> HIDE DEF d, e
    <3>2. d \in 0 .. f.count - 2
      BY <1>1, <3>1
    <3>3. QED
      BY <3>1, <3>2
  <2>2. Queued(g, m) = g.data[Slot(g, d)][e]
    BY DEF Queued
  <2>3. Queued(f, m + Size) = f.data[Slot(f, d + 1)][e]
    BY <2>1, Zenon DEF Queued
  <2> HIDE DEF d, e
  <2>4. Slot(g, d) = Slot(f, d + 1)
    <3> HIDE DEF g
    <3>0. /\ d \in 0 .. Depth - 2 /\ Depth \in Nat \ {0} /\ f.rdPtr \in 0 .. Depth - 1
          /\ After(f.rdPtr) = IF f.rdPtr + 1 = Depth THEN 0 ELSE f.rdPtr + 1
      BY <1>1, <2>1, FifoAssumption DEF Index, After
    <3>1. /\ f.rdPtr + (d + 1) \in 0 .. 2 * Depth - 1
          /\ After(f.rdPtr) + d \in 0 .. 2 * Depth - 1
      BY <3>0
    <3>2. /\ Slot(f, d + 1) = Folded(f.rdPtr + (d + 1))
          /\ Slot(g, d) = Folded(After(f.rdPtr) + d)
      BY <1>3, <3>1, WithinTwoRounds, Zenon DEF Slot
    <3>3. Folded(f.rdPtr + (d + 1)) = Folded(After(f.rdPtr) + d)
      BY <3>0 DEF Folded
    <3>4. QED
      BY <3>2, <3>3
  <2>5. QED
    BY <1>3, <2>2, <2>3, <2>4
<1>7. ASSUME NEW i \in 0 .. Size - 1 PROVE Queued(f, i) = f.data[f.rdPtr][i]
  <2>1. 0 * Size + i = i /\ 0 \in Nat
    BY <1>1
  <2>2. (0 * Size + i) \div Size = 0 /\ (0 * Size + i) % Size = i
    BY <2>1, Parts
  <2>3. i \div Size = 0 /\ i % Size = i
    BY <2>1, <2>2, Zenon
  <2>4. Slot(f, 0) = f.rdPtr
    <3>1. f.rdPtr + 0 \in 0 .. 2 * Depth - 1 /\ f.rdPtr + 0 = f.rdPtr /\ f.rdPtr < Depth
      BY <1>1, FifoAssumption DEF Index
    <3>2. Slot(f, 0) = Folded(f.rdPtr + 0)
      BY <3>1, WithinTwoRounds, Zenon DEF Slot
    <3>3. QED
      BY <3>1, <3>2 DEF Folded
  <2>5. Queued(f, i) = f.data[Slot(f, 0)][i]
    BY <2>3, Zenon DEF Queued
  <2>6. QED
    BY <2>4, <2>5
<1>8. r.size = Size /\ r.word = f.data[f.rdPtr]
  OBVIOUS
<1> HIDE DEF r, g, n
<1>9. ASSUME NEW i \in 1 .. n + Size PROVE Nth(r, g, i) = Nth(p, f, i)
  <2>1. ~(i <= p.size) /\ i - 1 - p.size = i - 1
    BY <1>1, <1>4
  <2>2. Nth(p, f, i) = Queued(f, i - 1)
    BY <2>1 DEF Nth
  <2>3. CASE i <= Size
    <3>1. i - 1 \in 0 .. Size - 1
      BY <1>1, <1>4, <2>3
    <3>2. QED
      BY <1>7, <1>8, <2>2, <2>3, <3>1 DEF Nth
  <2>4. CASE ~(i <= Size)
    <3>1. i - 1 - Size \in 0 .. n - 1 /\ (i - 1 - Size) + Size = i - 1
      BY <1>1, <1>4, <2>4
    <3>2. Queued(g, i - 1 - Size) = Queued(f, i - 1)
      BY <1>6, <3>1
    <3>3. QED
      BY <1>8, <2>2, <2>4, <3>2 DEF Nth
  <2>5. QED
    BY <2>3, <2>4
<1>10. Flat(r, g) = Flat(p, f)
  BY <1>5, <1>9 DEF Flat
<1>11. QED
  BY <1>10 DEF r, g

\* A sample is played.
LEMMA ShiftedFlat ==
  ASSUME NEW p \in Pipe, NEW f \in Ring, p.size > 0
  PROVE  /\ Shifted(p) \in Pipe /\ Shifted(p).size = p.size - 1
         /\ Flat(p, f) # <<>> /\ Head(Flat(p, f)) = p.word[0]
         /\ Tail(Flat(p, f)) = Flat(Shifted(p), f)
<1> DEFINE q == Shifted(p)
           word == [i \in 0 .. Size - 1 |-> IF i < Size - 1 THEN p.word[i + 1] ELSE 0]
<1>1. p.size \in 1 .. Size /\ Size \in Nat \ {0} /\ p.word \in Word
  BY FifoAssumption DEF Pipe
<1>2. q.size = p.size - 1 /\ q.word = word /\ q = [word |-> word, size |-> p.size - 1]
  BY <1>1 DEF Shifted
<1>3. q \in Pipe
  <2>1. word \in Word
    <3>1. ASSUME NEW i \in 0 .. Size - 1, i < Size - 1 PROVE p.word[i + 1] \in Byte
      <4>1. i + 1 \in 0 .. Size - 1
        BY <1>1, <3>1
      <4>2. QED
        BY <1>1, <4>1 DEF Word
    <3>2. QED
      BY <3>1, FifoAssumption DEF Word
  <2>2. p.size - 1 \in 0 .. Size
    BY <1>1
  <2> HIDE DEF q, word
  <2>3. QED
    BY <1>2, <2>1, <2>2 DEF Pipe
<1> HIDE DEF q
<1>4. /\ Length(p, f) \in Nat /\ Length(q, f) = Length(p, f) - 1 /\ Length(p, f) >= 1
  <2>1. Length(p, f) = p.size + f.count * Size /\ f.count * Size \in Nat
    BY LengthInNat
  <2>2. Length(q, f) = q.size + f.count * Size
    BY DEF Length
  <2> DEFINE n == f.count * Size
  <2>3. Length(p, f) = p.size + n /\ n \in Nat /\ Length(q, f) = q.size + n
    BY <2>1, <2>2
  <2> HIDE DEF n
  <2>4. QED
    BY <1>1, <1>2, <2>3
<1>5. /\ Flat(p, f) \in Seq(Byte) /\ Len(Flat(p, f)) = Length(p, f)
      /\ Flat(q, f) \in Seq(Byte) /\ Len(Flat(q, f)) = Length(p, f) - 1
      /\ \A i \in 1 .. Length(p, f) : Flat(p, f)[i] = Nth(p, f, i)
      /\ \A i \in 1 .. Length(p, f) - 1 : Flat(q, f)[i] = Nth(q, f, i)
  BY <1>3, <1>4, FlatIsSeq
<1>6. ASSUME NEW i \in 1 .. Length(p, f) - 1 PROVE Nth(p, f, i + 1) = Nth(q, f, i)
  <2>1. i \in Nat /\ i >= 1
    BY <1>4
  <2>2. CASE i <= q.size
    <3>1. i + 1 <= p.size /\ i - 1 \in 0 .. Size - 1 /\ i - 1 < Size - 1
      BY <1>1, <1>2, <2>1, <2>2
    <3>2. q.word[i - 1] = p.word[(i - 1) + 1]
      BY <1>2, <3>1
    <3>3. (i - 1) + 1 = (i + 1) - 1
      BY <2>1
    <3>4. QED
      BY <2>2, <3>1, <3>2, <3>3 DEF Nth
  <2>3. CASE ~(i <= q.size)
    <3>1. ~(i + 1 <= p.size) /\ (i + 1) - 1 - p.size = i - 1 - q.size
      BY <1>1, <1>2, <2>1, <2>3
    <3>2. QED
      BY <2>3, <3>1 DEF Nth
  <2>4. QED
    BY <2>2, <2>3
<1>7. Flat(p, f) # <<>>
  BY <1>4, <1>5, EmptySeq
<1>8. Head(Flat(p, f)) = p.word[0]
  <2>1. 1 \in 1 .. Length(p, f) /\ 1 <= p.size /\ 1 - 1 = 0
    BY <1>1, <1>4
  <2>2. Flat(p, f)[1] = p.word[0]
    BY <1>5, <2>1 DEF Nth
  <2>3. QED
    BY <1>5, <1>7, <2>2, HeadTailProperties
<1>9. Tail(Flat(p, f)) = Flat(q, f)
  <2>1. /\ Tail(Flat(p, f)) \in Seq(Byte) /\ Len(Tail(Flat(p, f))) = Length(p, f) - 1
        /\ \A i \in 1 .. Length(p, f) - 1 : Tail(Flat(p, f))[i] = Flat(p, f)[i + 1]
    BY <1>5, <1>7, HeadTailProperties
  <2>2. ASSUME NEW i \in 1 .. Length(p, f) - 1 PROVE Tail(Flat(p, f))[i] = Flat(q, f)[i]
    <3>1. i + 1 \in 1 .. Length(p, f)
      BY <1>4
    <3>2. QED
      BY <1>5, <1>6, <2>1, <3>1
  <2>3. QED
    BY <1>5, <2>1, <2>2, SeqEqual
<1>10. QED
  BY <1>2, <1>3, <1>7, <1>8, <1>9 DEF q

\* Discarding leaves what is left in the pipe.
LEMMA EmptiedFlat ==
  ASSUME NEW p \in Pipe, NEW f \in Ring, p.size < Size
  PROVE  /\ Flat(p, EmptyFIFO) = SubSeq(Flat(p, f), 1, Len(Flat(p, f)) % Size)
         /\ Len(Flat(p, f)) \div Size = f.count
<1>1. /\ p.size \in 0 .. Size - 1 /\ f.count \in Nat /\ p.size \in Nat
      /\ f.count * Size \in Nat /\ Length(p, f) = f.count * Size + p.size
  BY LengthInNat, FifoAssumption DEF Pipe, Ring
<1>2. Len(Flat(p, f)) = f.count * Size + p.size
  BY <1>1, FlatIsSeq
<1>3. /\ (f.count * Size + p.size) \div Size = f.count
      /\ (f.count * Size + p.size) % Size = p.size
  BY <1>1, Parts
<1>4. Len(Flat(p, f)) \div Size = f.count /\ Len(Flat(p, f)) % Size = p.size
  BY <1>2, <1>3, Zenon
<1>5. EmptyFIFO \in Ring /\ EmptyFIFO.count = 0
  BY EmptyIsRing
<1>6. Length(p, EmptyFIFO) = p.size
  BY <1>1, <1>5, FifoAssumption DEF Length
<1>7. /\ Flat(p, f) \in Seq(Byte) /\ Len(Flat(p, f)) >= p.size
      /\ \A i \in 1 .. p.size : Flat(p, f)[i] = p.word[i - 1]
  <2> DEFINE n == f.count * Size
  <2>1. n \in Nat /\ Length(p, f) = n + p.size
    BY <1>1
  <2> HIDE DEF n
  <2>2. 1 .. p.size \subseteq 1 .. Length(p, f) /\ Length(p, f) >= p.size
    BY <1>1, <2>1
  <2>3. QED
    BY <2>2, FlatIsSeq DEF Nth
<1>8. /\ Flat(p, EmptyFIFO) \in Seq(Byte) /\ Len(Flat(p, EmptyFIFO)) = p.size
      /\ \A i \in 1 .. p.size : Flat(p, EmptyFIFO)[i] = p.word[i - 1]
  <2>1. /\ Flat(p, EmptyFIFO) \in Seq(Byte) /\ Len(Flat(p, EmptyFIFO)) = p.size
        /\ \A i \in 1 .. p.size : Flat(p, EmptyFIFO)[i] = Nth(p, EmptyFIFO, i)
    BY <1>5, <1>6, FlatIsSeq
  <2>2. ASSUME NEW i \in 1 .. p.size PROVE Nth(p, EmptyFIFO, i) = p.word[i - 1]
    <3>1. i <= p.size
      BY <1>1
    <3>2. QED
      BY <3>1 DEF Nth
  <2>3. QED
    BY <2>1, <2>2
<1> DEFINE rest == SubSeq(Flat(p, f), 1, p.size)
<1>9. /\ rest \in Seq(Byte) /\ Len(rest) = p.size
      /\ \A i \in 1 .. p.size : rest[i] = Flat(p, f)[i]
  <2>1. 1 \in 1 .. Len(Flat(p, f)) + 1 /\ p.size \in 0 .. Len(Flat(p, f))
        /\ p.size \in 1 - 1 .. Len(Flat(p, f))
    BY <1>1, <1>2, <1>7
  <2>2. QED
    BY <1>1, <1>7, <2>1, SubSeqProperties
<1>10. rest = Flat(p, EmptyFIFO)
  <2> HIDE DEF rest
  <2>1. QED
    BY <1>7, <1>8, <1>9, SeqEqual
<1>11. QED
  BY <1>4, <1>10
-----------------------------------------------------------------------------
\* Between two samples the pipe holds less than a word, followed by silence,
\* which is heard once the FIFO has run dry.
Drained ==
  /\ pipe.size < Size
  /\ \A i \in pipe.size .. Size - 1 : pipe.word[i] = 0

LEMMA DrainedStep == IInv /\ Drained /\ [Next]_vars => Drained'
<1> SUFFICES ASSUME IInv, Drained, [Next]_vars PROVE Drained'
  OBVIOUS
<1>1. /\ pipe \in Pipe /\ fifo \in Ring /\ Size \in Nat \ {0}
  BY TypesOfFifo, FifoAssumption DEF IInv, Pipe
<1>2. CASE UNCHANGED pipe
  BY <1>2 DEF Drained
<1>3. CASE OnTimerOverflow
  <2> DEFINE p == Refilled
  <2>1. /\ p = pipe \/ p.size = Size
        /\ p.size \in 0 .. Size
    BY <1>1 DEF Refilled, Pipe
  <2>2. pipe' = Shifted(p)
    BY <1>3 DEF OnTimerOverflow
  <2> HIDE DEF p
  <2>3. CASE p.size = 0
    BY <1>1, <2>1, <2>2, <2>3 DEF Shifted, Drained
  <2>4. CASE p.size # 0
    <3>1. /\ pipe'.size = p.size - 1
          /\ pipe'.word = [i \in 0 .. Size - 1 |-> IF i < Size - 1 THEN p.word[i + 1] ELSE 0]
      BY <2>2, <2>4 DEF Shifted
    <3>2. ASSUME NEW i \in pipe'.size .. Size - 1 PROVE pipe'.word[i] = 0
      <4>1. CASE i < Size - 1
        <5>1. p = pipe /\ i + 1 \in p.size .. Size - 1
          BY <1>1, <2>1, <2>4, <3>1, <4>1
        <5>2. pipe'.word[i] = p.word[i + 1]
          BY <1>1, <2>1, <2>4, <3>1, <4>1
        <5>3. QED
          BY <5>1, <5>2 DEF Drained
      <4>2. CASE ~(i < Size - 1)
        BY <1>1, <2>1, <2>4, <3>1, <4>2
      <4>3. QED
        BY <4>1, <4>2
    <3>3. QED
      BY <1>1, <2>1, <3>1, <3>2 DEF Drained
  <2>5. QED
    BY <2>3, <2>4
<1>4. QED
  BY <1>2, <1>3 DEF Next, vars, OnActivated, Tick, Serve, StoreSome, Store, CPUWrites, ResetFIFO,
                    SaveAndLoad, WriteMasterEnable

LEMMA StreamTyped ==
  ASSUME IInv PROVE Stream = Flat(pipe, fifo)
<1>1. pipe \in Pipe /\ fifo \in Ring
  BY TypesOfFifo DEF IInv, Pipe
<1>2. QED
  BY <1>1, StreamIsFlat DEF Stream, WordAt

LEMMA DrainedInit == Init => Drained
BY FifoAssumption DEF Init, Drained, Silence

\* A word that is written is added at the end, or discards the ones that wait.
LEMMA WriteImplements ==
  ASSUME IInv, Drained, NEW w \in Word, fifo' = WriteWord(fifo, w), UNCHANGED <<pipe, latch>>,
         Stream' = Flat(pipe', fifo')
  PROVE  Ideal!Write(w)
<1>1. pipe \in Pipe /\ fifo \in Ring /\ Round(fifo) /\ Stream = Flat(pipe, fifo)
  BY TypesOfFifo, StreamTyped DEF IInv, Pipe
<1>2. /\ Flat(pipe, EmptyFIFO) = Ideal!Rest
      /\ Ideal!Waiting = fifo.count
  BY <1>1, EmptiedFlat DEF Drained, Ideal!Rest, Ideal!Waiting
<1>3. Stream' = Flat(pipe, WriteWord(fifo, w))
  BY Zenon
<1>4. CASE fifo.count < Depth
  <2>1. Stream' = Stream \o [i \in 1 .. Size |-> w[i - 1]]
    BY <1>1, <1>3, <1>4, WrittenLast
  <2>2. QED
    BY <1>2, <1>4, <2>1 DEF Ideal!Write, Ideal!Samples
<1>5. CASE ~(fifo.count < Depth)
  BY <1>2, <1>3, <1>5 DEF Ideal!Write, WriteWord
<1>6. QED
  BY <1>4, <1>5

\* What empties the ring discards what waits.
LEMMA DiscardImplements ==
  ASSUME IInv, Drained, fifo' = EmptyFIFO, UNCHANGED <<pipe, latch>>, Stream' = Flat(pipe', fifo')
  PROVE  Ideal!Discard
<1>1. pipe \in Pipe /\ fifo \in Ring /\ Stream = Flat(pipe, fifo)
  BY TypesOfFifo, StreamTyped DEF IInv, Pipe
<1>2. Flat(pipe, EmptyFIFO) = Ideal!Rest
  BY <1>1, EmptiedFlat DEF Drained, Ideal!Rest
<1>3. QED
  BY <1>2 DEF Ideal!Discard

\* The sample that is heard is the first of the stream.
LEMMA HearImplements ==
  ASSUME IInv, Drained, OnTimerOverflow, Stream' = Flat(pipe', fifo')
  PROVE  Ideal!Hear
<1>1. /\ pipe \in Pipe /\ fifo \in Ring /\ Round(fifo) /\ Stream = Flat(pipe, fifo)
      /\ Size \in Nat \ {0} /\ pipe.size \in 0 .. Size - 1 /\ fifo.count \in Nat
  BY TypesOfFifo, StreamTyped, FifoAssumption DEF IInv, Pipe, Drained, Ring
<1> DEFINE f == IF pipe.size = 0 /\ fifo.count > 0 THEN Popped(fifo) ELSE fifo
<1>2. latch' = Refilled.word[0] /\ pipe' = Shifted(Refilled) /\ fifo' = f
  BY DEF OnTimerOverflow
<1>3. Refilled \in Pipe /\ f \in Ring /\ Flat(Refilled, f) = Stream
  <2>1. CASE pipe.size = 0 /\ fifo.count > 0
    <3>1. Refilled = [word |-> fifo.data[fifo.rdPtr], size |-> Size] /\ f = Popped(fifo)
      BY <2>1 DEF Refilled
    <3>2. fifo.data[fifo.rdPtr] \in Word /\ Size \in 0 .. Size
      BY <1>1 DEF Ring
    <3>3. Refilled \in Pipe
      BY <3>1, <3>2 DEF Pipe
    <3>4. f \in Ring
      BY <1>1, <2>1, <3>1, PoppedKeeps
    <3>5. Flat(Refilled, f) = Flat(pipe, fifo)
      BY <1>1, <2>1, <3>1, RefilledFlat
    <3>6. QED
      BY <1>1, <3>3, <3>4, <3>5
  <2>2. CASE ~(pipe.size = 0 /\ fifo.count > 0)
    BY <1>1, <2>2 DEF Refilled
  <2>3. QED
    BY <2>1, <2>2
<1> HIDE DEF f
<1>4. CASE Refilled.size > 0
  <2>1. /\ Stream # <<>> /\ Head(Stream) = Refilled.word[0]
        /\ Tail(Stream) = Flat(Shifted(Refilled), f)
    BY <1>3, <1>4, ShiftedFlat
  <2>2. Stream' = Tail(Stream)
    BY <1>2, <2>1, Zenon
  <2>3. QED
    BY <1>2, <2>1, <2>2, Zenon DEF Ideal!Hear
<1>5. CASE ~(Refilled.size > 0)
  <2>1. Refilled = pipe /\ pipe.size = 0 /\ fifo.count = 0 /\ f = fifo
    BY <1>1, <1>5 DEF Refilled, f
  <2>2. pipe' = pipe /\ fifo' = fifo
    BY <1>2, <2>1 DEF Shifted
  <2>3. pipe.word[0] = 0
    BY <1>1, <2>1 DEF Drained
  <2>4. Stream = <<>>
    <3>1. Len(Flat(pipe, fifo)) = 0 /\ Flat(pipe, fifo) \in Seq(Byte)
      BY <1>1, <2>1, FlatIsSeq DEF Length
    <3>2. QED
      BY <1>1, <3>1, EmptySeq
  <2>5. Stream' = Stream
    BY <1>1, <2>2, Zenon
  <2>6. latch' = 0
    BY <1>2, <2>1, <2>3
  <2>7. QED
    BY <2>4, <2>5, <2>6 DEF Ideal!Hear
<1>6. QED
  BY <1>4, <1>5

LEMMA StreamStep ==
  IInv /\ IInv' /\ Drained /\ [Next]_vars => [Ideal!Next]_<<Stream, latch>>
<1> SUFFICES ASSUME IInv, IInv', Drained, [Next]_vars PROVE [Ideal!Next]_<<Stream, latch>>
  OBVIOUS
<1>1. pipe \in Pipe /\ fifo \in Ring /\ Round(fifo) /\ Stream = Flat(pipe, fifo)
  BY TypesOfFifo, StreamTyped DEF IInv, Pipe
<1>2. Stream' = Flat(pipe', fifo')
  <2>1. (IInv => Stream = Flat(pipe, fifo))'
    BY StreamTyped, PTL
  <2>2. QED
    BY <2>1
<1>3. CASE UNCHANGED <<fifo, pipe, latch>>
  BY <1>1, <1>2, <1>3, Zenon
<1>4. CASE OnTimerOverflow
  BY <1>2, <1>4, HearImplements DEF Ideal!Next
<1>5. ASSUME NEW w \in Word, Store(w) PROVE [Ideal!Next]_<<Stream, latch>>
  <2>1. UNCHANGED <<pipe, latch>> /\ fifo' = IF master THEN WriteWord(fifo, w) ELSE fifo
    BY <1>5 DEF Store
  <2>2. CASE master
    <3>1. Ideal!Write(w)
      BY <1>2, <2>1, <2>2, WriteImplements
    <3>2. QED
      BY <3>1 DEF Ideal!Next, Word, Ideal!Word
  <2>3. CASE ~master
    BY <1>3, <2>1, <2>3
  <2>4. QED
    BY <2>2, <2>3
<1>6. CASE CPUWrites
  <2>1. UNCHANGED <<pipe, latch>>
    BY <1>6 DEF CPUWrites
  <2>2. PICK w \in Word : fifo' = WriteWord(fifo, w)
    BY <1>1, <1>6, CPUWritesWord
  <2>3. Ideal!Write(w)
    BY <1>2, <2>1, <2>2, WriteImplements
  <2>4. QED
    BY <2>3 DEF Ideal!Next, Word, Ideal!Word
<1>7. CASE SaveAndLoad
  <2>1. UNCHANGED <<pipe, latch>> /\ fifo' = Reloaded(fifo)
    BY <1>7 DEF SaveAndLoad
  <2>2. Stream' = Flat(pipe, Reloaded(fifo))
    BY <1>2, <2>1, Zenon
  <2>3. Stream' = Stream
    BY <1>1, <2>2, ReloadedFlat
  <2>4. QED
    BY <2>1, <2>3
<1>8. CASE fifo' = EmptyFIFO /\ UNCHANGED <<pipe, latch>>
  BY <1>2, <1>8, DiscardImplements DEF Ideal!Next
<1>9. QED
  BY <1>3, <1>4, <1>5, <1>6, <1>7, <1>8
  DEF Next, vars, OnActivated, Tick, Serve, StoreSome, ResetFIFO, WriteMasterEnable

\* What is heard is what was written, in order: the channel with its ring, its
\* pipe, its refills by DMA, the program's writes and resets, and saving and
\* loading in between (WordFIFO, Pipe, OnTimerOverflow, CopyState, LoadState)
\* implements one stream of samples, of which only a full FIFO or a reset
\* discards anything, and never a part of the word being played.
THEOREM FifoIsStream == Spec => ImplementsStream
<1>1. Init => Ideal!Init
  <2> SUFFICES ASSUME Init PROVE Ideal!Init
    OBVIOUS
  <2>1. IInv
    BY InvInit
  <2>2. pipe \in Pipe /\ fifo \in Ring /\ Stream = Flat(pipe, fifo)
    BY <2>1, TypesOfFifo, StreamTyped DEF IInv, Pipe
  <2>3. pipe.size = 0 /\ fifo.count = 0
    BY EmptyIsRing DEF Init
  <2>4. Len(Flat(pipe, fifo)) = 0 /\ Flat(pipe, fifo) \in Seq(Byte)
    BY <2>2, <2>3, FlatIsSeq, FifoAssumption DEF Length
  <2>5. Stream = <<>>
    BY <2>2, <2>4, EmptySeq
  <2>6. QED
    BY <2>5 DEF Init, Ideal!Init
<1>2. QED
  BY <1>1, DrainedInit, DrainedStep, InvInit, InvStep, StreamStep, PTL
  DEF Spec, ImplementsStream, Ideal!Spec

-----------------------------------------------------------------------------
(* The chain of a sound generator.                                         *)

\* What the arguments need of the types.
Base == [enabled : BOOLEAN, step : Int, length : Int, counting : BOOLEAN]

Shapes ==
  /\ kind \in Kind /\ soundOn \in BOOLEAN
  /\ base \in Base
  /\ dac \in BOOLEAN /\ heard \in BOOLEAN
  /\ handle \in [has : BOOLEAN, id : Tag \cup {NoEvent}]
  /\ events \subseteq Tag
  /\ forgotten \in BOOLEAN /\ cut \in BOOLEAN /\ leftover \in BOOLEAN /\ muted \in BOOLEAN

\* A length that no save state cut does not fall below 0.
LengthCounts == ~cut => base.length >= 0

ChainInv == Shapes /\ ChainAlive /\ OneChain /\ LengthCounts /\ LengthLeft /\ OffIsSilent

\* The lengths that are written and restarted with are positive.
LEMMA LengthsPositive ==
  ASSUME kind \in Kind
  PROVE  /\ MaxLength[kind] \in Nat \ {0}
         /\ \A n \in Lengths[kind] : n \in Int /\ n >= 1
         /\ Counting[kind] \subseteq BOOLEAN
BY PsgAssumption

\* A new handle is of no event that is queued.
LEMMA FreshTag ==
  ASSUME NEW q, Tag \ q # {}
  PROVE  Fresh(q) \in Tag /\ Fresh(q) \notin q
<1>1. \E t \in Tag : t \notin q
  OBVIOUS
<1>2. QED
  BY <1>1 DEF Fresh

\* A channel that is switched on.
LEMMA Switched ==
  ASSUME NEW b \in Base, NEW e \in BOOLEAN, NEW n \in Int
  PROVE  LET c == [b EXCEPT !.enabled = e, !.step = n]
         IN  c \in Base /\ c.length = b.length /\ c.enabled = e
BY DEF Base

LEMMA TickLengthShape ==
  ASSUME NEW b \in Base
  PROVE  /\ TickLength(b) \in Base
         /\ TickLength(b).enabled => b.enabled
         /\ TickLength(b).step = b.step
         /\ b.length >= 0 /\ (b.enabled => b.length > 0) =>
              /\ TickLength(b).length >= 0
              /\ TickLength(b).enabled => TickLength(b).length > 0
<1>1. CASE ~(b.enabled /\ b.counting)
  BY <1>1, Zenon DEF TickLength
<1>2. CASE b.enabled /\ b.counting
  <2>1. Below(b.length) \in Int /\ (b.length > 0 => Below(b.length) = b.length - 1)
    BY DEF Below, Base
  <2>2. (b.length > 1) \in BOOLEAN
    OBVIOUS
  <2>3. TickLength(b) = [b EXCEPT !.length = Below(b.length), !.enabled = b.length > 1]
    BY <1>2, Zenon DEF TickLength
  <2>4. /\ TickLength(b) \in Base
        /\ TickLength(b).step = b.step
        /\ TickLength(b).length = Below(b.length)
        /\ TickLength(b).enabled <=> b.length > 1
    BY <2>1, <2>2, <2>3 DEF Base
  <2>5. QED
    BY <1>2, <2>1, <2>4 DEF Base
<1>3. QED
  BY <1>1, <1>2

\* The sequencer turns channels off, never on.
LEMMA SequencerBase ==
  ASSUME Shapes, Sequencer
  PROVE  /\ base' \in Base
         /\ base'.enabled => base.enabled
         /\ base.length >= 0 /\ (base.enabled => base.length > 0) =>
              /\ base'.length >= 0
              /\ base'.enabled => base'.length > 0
<1> DEFINE timed == IF base.step % 2 = 0 THEN TickLength(base) ELSE base
           swept == base.step % 4 = 2 /\ timed.enabled
           ends  == swept /\ SweepFires(sweep) /\ TooHigh(NewFrequency(sweep))
<1>1. base' = [timed EXCEPT !.enabled = @ /\ ~ends, !.step = (@ + 1) % 8]
  BY DEF Sequencer
<1>2. /\ timed \in Base
      /\ timed.enabled => base.enabled
      /\ base.length >= 0 /\ (base.enabled => base.length > 0) =>
           timed.length >= 0 /\ (timed.enabled => timed.length > 0)
  BY TickLengthShape DEF Shapes, Base
<1> HIDE DEF timed
<1>3. ends \in BOOLEAN
  BY Zenon
<1> HIDE DEF ends
<1>4. (timed.step + 1) % 8 \in Int
  BY <1>2 DEF Base
<1>5. QED
  BY <1>1, <1>2, <1>3, <1>4 DEF Base

\* What a step must do to the chain to keep it alive and single.
LEMMA Rescheduled ==
  ASSUME NEW q \in SUBSET Tag, Schedule(q)
  PROVE  /\ handle' \in [has : BOOLEAN, id : Tag \cup {NoEvent}]
         /\ handle'.has /\ handle'.id \in events'
         /\ events' \subseteq Tag /\ events' = q \cup {handle'.id}
BY FreshTag DEF Schedule

LEMMA ChainInvInit == PsgInit => ChainInv
<1> SUFFICES ASSUME PsgInit PROVE ChainInv
  OBVIOUS
<1>1. Shapes
  <2>1. kind \in Kind /\ base \in Base /\ events \subseteq Tag
    BY DEF PsgInit, Base
  <2>2. handle \in [has : BOOLEAN, id : Tag \cup {NoEvent}]
    BY DEF PsgInit
  <2>3. soundOn \in BOOLEAN /\ dac \in BOOLEAN /\ heard \in BOOLEAN
        /\ forgotten \in BOOLEAN /\ cut \in BOOLEAN /\ leftover \in BOOLEAN /\ muted \in BOOLEAN
    BY Zenon DEF PsgInit
  <2>4. QED
    BY <2>1, <2>2, <2>3 DEF Shapes, Base
<1>2. ChainAlive /\ OneChain /\ OffIsSilent
  BY DEF PsgInit, ChainAlive, OneChain, OffIsSilent
<1>3. LengthCounts /\ LengthLeft
  BY DEF PsgInit, LengthCounts, LengthLeft
<1>4. QED
  BY <1>1, <1>2, <1>3 DEF ChainInv

\* The steps that leave the chain alone.
LEMMA SameChain ==
  ASSUME ChainInv, UNCHANGED <<handle, events, forgotten, leftover>>,
         base'.enabled => base.enabled, heard' => heard
  PROVE  ChainAlive' /\ OneChain'
BY DEF ChainInv, ChainAlive, OneChain

LEMMA GenerateKeeps == ChainInv /\ Generate => ChainInv'
<1> SUFFICES ASSUME ChainInv, Generate PROVE ChainInv'
  OBVIOUS
<1> USE DEF ChainInv
<1>0. PICK t \in events :
        /\ heard' = Sounds /\ leftover' = FALSE
        /\ IF base.enabled
           THEN Schedule(events \ {t})
           ELSE events' = events \ {t} /\ handle' = [handle EXCEPT !.has = FALSE]
        /\ forgotten' = (forgotten /\ events' # {})
        /\ UNCHANGED <<base, env, sweep, dac>> /\ UNCHANGED control
  BY DEF Generate
<1>1. UNCHANGED <<kind, soundOn, base, dac, cut, muted>>
  BY <1>0 DEF control
<1>2. LengthCounts' /\ LengthLeft'
  BY <1>1 DEF LengthCounts, LengthLeft
<1>3. heard' \in BOOLEAN /\ leftover' \in BOOLEAN /\ (heard' => base.enabled)
  BY <1>0, Zenon DEF Sounds
<1>4. forgotten' \in BOOLEAN
  BY <1>0, Zenon
<1>5. OffIsSilent'
  BY <1>1, <1>3 DEF OffIsSilent
<1>6. CASE base.enabled
  <2>1. Schedule(events \ {t})
    BY <1>0, <1>6
  <2>2. /\ handle' \in [has : BOOLEAN, id : Tag \cup {NoEvent}]
        /\ handle'.has /\ handle'.id \in events'
        /\ events' \subseteq Tag /\ events' = (events \ {t}) \cup {handle'.id}
    BY <2>1, Rescheduled DEF Shapes, Base
  <2>3. OneChain'
    BY <1>0, <2>2 DEF OneChain
  <2>4. ChainAlive'
    BY <2>2 DEF ChainAlive
  <2>5. Shapes'
    BY <1>1, <1>3, <1>4, <2>2 DEF Shapes, Base
  <2>6. QED
    BY <1>2, <1>5, <2>3, <2>4, <2>5
<1>7. CASE ~base.enabled
  <2>1. events' = events \ {t} /\ handle' = [handle EXCEPT !.has = FALSE]
    BY <1>0, <1>7
  <2>2. ~heard' /\ ~base'.enabled
    BY <1>1, <1>3, <1>7
  <2>3. ChainAlive'
    BY <2>2 DEF ChainAlive
  <2>4. OneChain'
    BY <1>0, <2>1 DEF OneChain
  <2>5. Shapes'
    BY <1>1, <1>3, <1>4, <2>1 DEF Shapes, Base
  <2>6. QED
    BY <1>2, <1>5, <2>3, <2>4, <2>5
<1>8. QED
  BY <1>6, <1>7 DEF Shapes, Base

LEMMA WriteControlKeeps == ChainInv /\ WriteControl => ChainInv'
<1> SUFFICES ASSUME ChainInv, WriteControl PROVE ChainInv'
  OBVIOUS
<1> USE DEF ChainInv
<1>1. UNCHANGED <<kind, soundOn, dac, heard, forgotten, cut, leftover, muted>> /\ soundOn
  BY DEF WriteControl, Others, control
<1>2. OffIsSilent'
  BY <1>1 DEF OffIsSilent
<1>3. PICK c \in BOOLEAN, trigger \in BOOLEAN :
        LET b == [base EXCEPT !.counting = c]
        IN  IF dac /\ trigger
            THEN Rechain /\ base' = [RestartLength(b) EXCEPT !.enabled = TRUE, !.step = 0]
            ELSE base' = b /\ UNCHANGED <<handle, events>>
  <2>1. Counting[kind] \subseteq BOOLEAN
    BY LengthsPositive DEF Shapes, Base
  <2>2. QED
    BY <2>1 DEF WriteControl, Restart
<1> DEFINE b == [base EXCEPT !.counting = c]
<1>4. /\ b \in Base
      /\ b.length = base.length /\ b.enabled = base.enabled
  BY DEF Shapes, Base
<1>5. CASE dac /\ trigger
  <2>1. Rechain /\ base' = [RestartLength(b) EXCEPT !.enabled = TRUE, !.step = 0]
    BY <1>3, <1>5
  <2> HIDE DEF b
  <2>2. MaxLength[kind] \in Nat \ {0}
    BY LengthsPositive DEF Shapes, Base
  <2>3. /\ base' \in Base
        /\ base'.length = IF base.length = 0 THEN MaxLength[kind] ELSE base.length
    <3>1. /\ RestartLength(b) \in Base
          /\ RestartLength(b).length = IF base.length = 0 THEN MaxLength[kind] ELSE base.length
      BY <1>4, <2>2 DEF RestartLength, Base
    <3>2. base' = [RestartLength(b) EXCEPT !.enabled = TRUE, !.step = 0]
      BY <2>1
    <3>3. 0 \in Int
      OBVIOUS
    <3>4. base' \in Base /\ base'.length = RestartLength(b).length
      BY <3>1, <3>2, <3>3, Switched, Zenon
    <3>5. QED
      BY <3>1, <3>4
  <2>4. LengthCounts' /\ LengthLeft'
    BY <1>1, <2>2, <2>3 DEF LengthCounts, LengthLeft, Shapes, Base
  <2>5. CASE base.enabled
    <3>1. UNCHANGED <<events, handle>>
      BY <2>1, <2>5 DEF Rechain
    <3>2. ChainAlive' /\ OneChain'
      BY <1>1, <2>5, <3>1 DEF ChainAlive, OneChain
    <3>3. Shapes'
      BY <1>1, <2>3, <3>1 DEF Shapes, Base
    <3>4. QED
      BY <1>2, <2>4, <3>2, <3>3
  <2>6. CASE ~base.enabled
    <3> DEFINE q == IF handle.has THEN events \ {handle.id} ELSE events
    <3>1. Schedule(q) /\ q \in SUBSET Tag
      BY <2>1, <2>6 DEF Rechain, Shapes
    <3>2. ~forgotten => q = {}
      BY DEF OneChain
    <3> HIDE DEF q
    <3>3. /\ handle' \in [has : BOOLEAN, id : Tag \cup {NoEvent}]
          /\ handle'.has /\ handle'.id \in events'
          /\ events' \subseteq Tag /\ events' = q \cup {handle'.id}
      BY <3>1, Rescheduled
    <3>4. ChainAlive' /\ OneChain'
      BY <1>1, <3>2, <3>3 DEF ChainAlive, OneChain
    <3>5. Shapes'
      BY <1>1, <2>3, <3>3 DEF Shapes, Base
    <3>6. QED
      BY <1>2, <2>4, <3>4, <3>5
  <2>7. QED
    BY <2>5, <2>6
<1>6. CASE ~(dac /\ trigger)
  <2>1. base' = b /\ UNCHANGED <<handle, events>>
    BY <1>3, <1>6
  <2>2. ChainAlive' /\ OneChain'
    BY <1>1, <1>4, <2>1, SameChain
  <2>3. LengthCounts' /\ LengthLeft'
    BY <1>1, <1>4, <2>1 DEF LengthCounts, LengthLeft
  <2>4. Shapes'
    BY <1>1, <1>4, <2>1 DEF Shapes, Base
  <2>5. QED
    BY <1>2, <2>2, <2>3, <2>4
<1>7. QED
  BY <1>5, <1>6

\* The length a program writes.
LEMMA WriteLengthKeeps == ChainInv /\ WriteLength => ChainInv'
<1> SUFFICES ASSUME ChainInv, WriteLength PROVE ChainInv'
  OBVIOUS
<1> USE DEF ChainInv
<1>1. UNCHANGED <<kind, soundOn, dac, heard, handle, events, forgotten, cut, leftover, muted>>
  BY DEF WriteLength, Others, control
<1>2. PICK n \in Lengths[kind] : base' = [base EXCEPT !.length = n]
  BY DEF WriteLength
<1>3. n \in Int /\ n >= 1
  BY LengthsPositive DEF Shapes
<1>4. base' \in Base /\ base'.length = n /\ base'.enabled = base.enabled
  BY <1>2, <1>3 DEF Shapes, Base
<1>5. ChainAlive' /\ OneChain'
  BY <1>1, <1>4, SameChain
<1>6. LengthCounts' /\ LengthLeft' /\ OffIsSilent'
  BY <1>1, <1>3, <1>4 DEF LengthCounts, LengthLeft, OffIsSilent
<1>7. Shapes'
  BY <1>1, <1>4 DEF Shapes
<1>8. QED
  BY <1>5, <1>6, <1>7

\* An envelope that turns the converter off turns the channel off.
LEMMA WriteEnvelopeKeeps == ChainInv /\ WriteEnvelope => ChainInv'
<1> SUFFICES ASSUME ChainInv, WriteEnvelope PROVE ChainInv'
  OBVIOUS
<1> USE DEF ChainInv
<1>1. UNCHANGED <<kind, soundOn, heard, handle, events, forgotten, cut, leftover, muted>>
  BY DEF WriteEnvelope, Others, control
<1>2. PICK e \in Shape[kind] :
        /\ dac' = (e.up \/ e.initial # 0)
        /\ base' = [base EXCEPT !.enabled = @ /\ dac']
  BY DEF WriteEnvelope
<1>3. dac' \in BOOLEAN
  BY <1>2, Zenon
<1>4. /\ base' \in Base /\ base'.length = base.length
      /\ base'.enabled => base.enabled
  BY <1>2, <1>3 DEF Shapes, Base
<1>5. ChainAlive' /\ OneChain'
  BY <1>1, <1>4, SameChain
<1>6. LengthCounts' /\ LengthLeft' /\ OffIsSilent'
  BY <1>1, <1>4 DEF LengthCounts, LengthLeft, OffIsSilent
<1>7. Shapes'
  BY <1>1, <1>3, <1>4 DEF Shapes
<1>8. QED
  BY <1>5, <1>6, <1>7

\* Sound is switched on, or off, which resets the channel.
LEMMA WriteMasterKeeps == ChainInv /\ WriteMaster => ChainInv'
<1> SUFFICES ASSUME ChainInv, WriteMaster PROVE ChainInv'
  OBVIOUS
<1> USE DEF ChainInv
<1>1. /\ soundOn' \in BOOLEAN /\ UNCHANGED <<kind, cut>>
      /\ muted' = (muted /\ ~soundOn')
  BY DEF WriteMaster
<1>9. muted' \in BOOLEAN
  BY <1>1, Zenon
<1>2. CASE soundOn /\ ~soundOn'
  <2>1. Reset
    BY <1>2 DEF WriteMaster
  <2>2. /\ base' = [enabled |-> FALSE, step |-> 0, length |-> 0, counting |-> FALSE]
        /\ dac' = FALSE /\ heard' = FALSE /\ leftover' = FALSE
        /\ handle' = [handle EXCEPT !.has = FALSE]
        /\ forgotten' = (forgotten \/ events # {})
        /\ events' = events
    BY <2>1 DEF Reset
  <2>3. base' \in Base /\ ~base'.enabled /\ base'.length = 0
    BY <2>2 DEF Base
  <2>4. handle' \in [has : BOOLEAN, id : Tag \cup {NoEvent}]
    BY <2>2 DEF Shapes
  <2>5. /\ dac' \in BOOLEAN /\ heard' \in BOOLEAN /\ forgotten' \in BOOLEAN /\ ~heard'
        /\ leftover' \in BOOLEAN
    BY <2>2, Zenon
  <2>6. Shapes'
    BY <1>1, <1>9, <2>2, <2>3, <2>4, <2>5 DEF Shapes
  <2>7. ChainAlive' /\ OffIsSilent' /\ LengthCounts' /\ LengthLeft'
    BY <2>3, <2>5 DEF ChainAlive, OffIsSilent, LengthCounts, LengthLeft
  <2>8. OneChain'
    BY <2>2 DEF OneChain
  <2>9. QED
    BY <2>6, <2>7, <2>8
<1>3. CASE ~(soundOn /\ ~soundOn')
  <2>1. UNCHANGED <<base, dac, heard, handle, events, forgotten, leftover>>
    BY <1>3 DEF WriteMaster
  <2>2. ChainAlive' /\ OneChain'
    BY <2>1, SameChain
  <2>3. LengthCounts' /\ LengthLeft' /\ OffIsSilent'
    BY <1>1, <1>3, <2>1 DEF LengthCounts, LengthLeft, OffIsSilent
  <2>4. Shapes'
    BY <1>1, <1>9, <2>1 DEF Shapes
  <2>5. QED
    BY <2>2, <2>3, <2>4
<1>4. QED
  BY <1>2, <1>3

\* A save state makes a handle live again that is of a past event; that of a
\* queued event was live.  A sample that is not saved is the loading core's, and
\* so is the switch.
LEMMA SaveAndLoadKeeps == ChainInv /\ SaveAndLoadChannel => ChainInv'
<1> SUFFICES ASSUME ChainInv, SaveAndLoadChannel PROVE ChainInv'
  OBVIOUS
<1> USE DEF ChainInv
<1>1. /\ UNCHANGED <<kind, dac, events, forgotten>>
      /\ soundOn' \in BOOLEAN /\ muted' = (~soundOn' /\ (soundOn \/ muted))
      /\ handle' = [handle EXCEPT !.has = handle.id # NoEvent]
      /\ cut' = (cut \/ base.length >= LengthByte)
  BY DEF SaveAndLoadChannel
<1>2. PICK n \in AsByte(base.length, MaxLength[kind]) : base' = [base EXCEPT !.length = n]
  BY DEF SaveAndLoadChannel
<1>3. LengthByte \in Nat /\ LengthByte > 0
  BY PsgAssumption
<1>4. /\ n \in Int
      /\ base.length >= 0 /\ base.length < LengthByte => n = base.length
  <2>1. base.length \in Int /\ MaxLength[kind] \in Nat
    BY LengthsPositive DEF Shapes, Base
  <2>2. CASE base.length < 0
    BY <2>1, <2>2 DEF AsByte
  <2>3. CASE base.length >= 0
    <3>1. n = base.length % LengthByte
      BY <2>1, <2>3 DEF AsByte
    <3>2. QED
      BY <1>3, <2>1, <3>1
  <2>4. QED
    BY <2>1, <2>2, <2>3
<1>5. base' \in Base /\ base'.length = n /\ base'.enabled = base.enabled
  BY <1>2, <1>4 DEF Shapes, Base
<1>6. (handle.id # NoEvent) \in BOOLEAN /\ cut' \in BOOLEAN /\ muted' \in BOOLEAN
  BY <1>1, Zenon
<1>7. /\ handle' \in [has : BOOLEAN, id : Tag \cup {NoEvent}]
      /\ handle'.id = handle.id /\ (handle'.has <=> handle.id # NoEvent)
  BY <1>1, <1>6 DEF Shapes
<1>8. \A t \in events : t # NoEvent
  BY PsgAssumption DEF Shapes
<1>14. /\ heard' \in BOOLEAN /\ leftover' \in BOOLEAN
       /\ heard' /\ ~leftover' => heard /\ ~leftover
       /\ (heard => leftover) => (heard' => leftover')
  BY DEF SaveAndLoadChannel, Shapes
<1>9. ChainAlive' /\ OneChain'
  BY <1>1, <1>5, <1>7, <1>8, <1>14 DEF ChainAlive, OneChain
<1>10. LengthCounts' /\ LengthLeft'
  <2>1. ~cut' => ~cut /\ ~(base.length >= LengthByte)
    BY <1>1
  <2>2. base.length \in Int
    BY DEF Shapes, Base
  <2>3. QED
    BY <1>3, <1>4, <1>5, <2>1, <2>2 DEF LengthCounts, LengthLeft
<1>11. OffIsSilent'
  <2>1. ~soundOn' /\ ~muted' => ~soundOn /\ ~muted
    BY <1>1
  <2>2. QED
    BY <1>5, <1>14, <2>1 DEF OffIsSilent
<1>12. Shapes'
  BY <1>1, <1>5, <1>6, <1>7, <1>14 DEF Shapes
<1>13. QED
  BY <1>9, <1>10, <1>11, <1>12
-----------------------------------------------------------------------------
LEMMA ChainInvStep == ChainInv /\ [PsgNext]_psgVars => ChainInv'
<1> SUFFICES ASSUME ChainInv, [PsgNext]_psgVars PROVE ChainInv'
  OBVIOUS
<1>1. CASE Sequencer
  <2>1. UNCHANGED <<kind, soundOn, dac, heard, handle, events, forgotten, cut, leftover, muted>>
    BY <1>1 DEF Sequencer, control
  <2>2. base' \in Base /\ (base'.enabled => base.enabled)
    BY <1>1, SequencerBase DEF ChainInv
  <2>3. ~cut => base'.length >= 0 /\ (base'.enabled => base'.length > 0)
    BY <1>1, SequencerBase DEF ChainInv, LengthCounts, LengthLeft
  <2>4. ChainAlive' /\ OneChain'
    BY <2>1, <2>2, SameChain
  <2>5. LengthCounts' /\ LengthLeft' /\ OffIsSilent'
    BY <2>1, <2>2, <2>3 DEF ChainInv, LengthCounts, LengthLeft, OffIsSilent
  <2>6. Shapes'
    BY <2>1, <2>2 DEF ChainInv, Shapes
  <2>7. QED
    BY <2>4, <2>5, <2>6 DEF ChainInv
<1>2. CASE Generate
  BY <1>2, GenerateKeeps
<1>3. CASE WriteLength
  BY <1>3, WriteLengthKeeps
<1>4. CASE WriteEnvelope
  BY <1>4, WriteEnvelopeKeeps
<1>5. CASE WriteControl
  BY <1>5, WriteControlKeeps
<1>6. CASE WriteMaster
  BY <1>6, WriteMasterKeeps
<1>7. CASE SaveAndLoadChannel
  BY <1>7, SaveAndLoadKeeps
<1>8. CASE WriteSweep \/ WritePlaying \/ WriteFrequency \/ UNCHANGED psgVars
  <2>1. UNCHANGED <<kind, soundOn, base, heard, handle, events, forgotten, cut, leftover, muted>>
    BY <1>8 DEF WriteSweep, WritePlaying, WriteFrequency, Others, control, psgVars
  <2>2. dac' \in BOOLEAN
    BY <1>8 DEF WriteSweep, WritePlaying, WriteFrequency, psgVars, ChainInv, Shapes
  <2>3. QED
    BY <2>1, <2>2
    DEF ChainInv, Shapes, ChainAlive, OneChain, LengthCounts, LengthLeft, OffIsSilent
<1>9. QED
  BY <1>1, <1>2, <1>3, <1>4, <1>5, <1>6, <1>7, <1>8 DEF PsgNext

LEMMA ChainInvHolds == PsgSpec => []ChainInv
<1> QED
  BY ChainInvInit, ChainInvStep, PTL DEF PsgSpec

\* A channel that is on has its next sample scheduled and can cancel it, whatever is
\* written, switched off or loaded in between (Generate, Write, Reset, LoadState);
\* what is heard without an event that ends it is the sample, of a wave or of noise,
\* that was in the core which loaded a state without one.
THEOREM ChainsAlive == PsgSpec => []ChainAlive
<1>1. ChainInv => ChainAlive
  BY DEF ChainInv
<1>2. QED
  BY <1>1, ChainInvHolds, PTL

\* There is one chain of Generate events unless Reset dropped the handle of one.
THEOREM ChainsSingle == PsgSpec => []OneChain
<1>1. ChainInv => OneChain
  BY DEF ChainInv
<1>2. QED
  BY <1>1, ChainInvHolds, PTL

\* A channel that is on has length left (LengthCounter), unless a save state cut it.
THEOREM LengthsLeft == PsgSpec => []LengthLeft
<1>1. ChainInv => LengthLeft
  BY DEF ChainInv
<1>2. QED
  BY <1>1, ChainInvHolds, PTL

\* With sound off no channel is on, and none is heard but for a sample that was in
\* the core before it loaded a state (SoundControl.Write, Reset), unless the state
\* was saved with sound on: LoadState leaves MasterEnable as it is in the core.
THEOREM SilentWhenOff == PsgSpec => []OffIsSilent
<1>1. ChainInv => OffIsSilent
  BY DEF ChainInv
<1>2. QED
  BY <1>1, ChainInvHolds, PTL

\* The types of the parts of a generator.
Bases == [enabled : BOOLEAN, step : 0 .. 7, length : -1 .. MaxLength[kind], counting : BOOLEAN]
Envs == [active : BOOLEAN, up : BOOLEAN, initial : 0 .. MaxVolume,
         volume : 0 .. MaxVolume, divider : Divider, step : Divider]
Sweeps == [active : BOOLEAN, down : BOOLEAN, current : Frequency, shadow : Frequency,
           divider : Divider, shift : 0 .. MaxShift, step : {-1} \cup Divider]

PsgParts == base \in Bases /\ env \in Envs /\ sweep \in Sweeps

\* A power of two is positive: it counts the subsets of a set.
LEMMA PowerPositive ==
  ASSUME NEW n \in Nat
  PROVE  2 ^ n \in Nat \ {0}
<1>1. IsFiniteSet(1 .. n) /\ Cardinality(1 .. n) = n
  BY FS_Interval
<1>2. IsFiniteSet(SUBSET (1 .. n)) /\ Cardinality(SUBSET (1 .. n)) = 2 ^ n
  BY <1>1, FS_SUBSET
<1>3. Cardinality(SUBSET (1 .. n)) \in Nat /\ Cardinality(SUBSET (1 .. n)) # 0
  <2>1. {} \in SUBSET (1 .. n)
    OBVIOUS
  <2>2. SUBSET (1 .. n) # {}
    BY <2>1
  <2>3. QED
    BY <1>2, <2>2, FS_CardinalityType, FS_EmptySet
<1>4. QED
  BY <1>2, <1>3

\* What the constants are.
LEMMA PsgNumbers ==
  ASSUME kind \in Kind
  PROVE  /\ MaxLength[kind] \in Nat \ {0} /\ Lengths[kind] \subseteq 1 .. MaxLength[kind]
         /\ Counting[kind] \subseteq BOOLEAN
         /\ Shape[kind] \subseteq [divider : Divider, up : BOOLEAN, initial : 0 .. MaxVolume]
         /\ MaxVolume \in Nat /\ Dividers \in Nat \ {0} /\ MaxShift \in Nat
         /\ Limit \in Nat \ {0} /\ LowByte \in Nat \ {0} /\ Limit % LowByte = 0
         /\ LengthByte \in Nat /\ LengthByte >= Dividers
BY Zenon, PsgAssumption

\* The length of a channel stays within its counter.
LEMMA TickLengthTyped ==
  ASSUME kind \in Kind, NEW b \in Bases
  PROVE  TickLength(b) \in Bases
<1>1. CASE ~(b.enabled /\ b.counting)
  BY <1>1, Zenon DEF TickLength
<1>2. CASE b.enabled /\ b.counting
  <2>1. Below(b.length) \in -1 .. MaxLength[kind]
    BY PsgNumbers DEF Below, Bases
  <2>2. (b.length > 1) \in BOOLEAN
    OBVIOUS
  <2>3. TickLength(b) = [b EXCEPT !.length = Below(b.length), !.enabled = b.length > 1]
    BY <1>2, Zenon DEF TickLength
  <2>4. QED
    BY <2>1, <2>2, <2>3 DEF Bases
<1>3. QED
  BY <1>1, <1>2

\* A volume stays between silence and the loudest.
LEMMA TickEnvelopeTyped ==
  ASSUME kind \in Kind, NEW e \in Envs
  PROVE  TickEnvelope(e) \in Envs
<1> DEFINE end == IF e.up THEN MaxVolume ELSE 0
<1>1. MaxVolume \in Nat /\ Dividers \in Nat \ {0}
  BY PsgNumbers
<1>2. CASE e.step # 1
  <2>1. (e.step - 1) % Dividers \in Divider
    BY <1>1 DEF Divider, Envs
  <2>2. TickEnvelope(e) = [e EXCEPT !.step = (e.step - 1) % Dividers]
    BY <1>2, Zenon DEF TickEnvelope
  <2>3. QED
    BY <2>1, <2>2 DEF Envs
<1>3. CASE e.step = 1 /\ (~e.active \/ e.divider = 0)
  <2>1. TickEnvelope(e) = [e EXCEPT !.step = e.divider]
    BY <1>3, Zenon DEF TickEnvelope
  <2>2. QED
    BY <2>1 DEF Envs
<1>4. CASE e.step = 1 /\ ~(~e.active \/ e.divider = 0) /\ e.volume = end
  <2>1. TickEnvelope(e) = [e EXCEPT !.step = e.divider, !.active = FALSE]
    BY <1>4, Zenon DEF TickEnvelope
  <2>2. QED
    BY <2>1 DEF Envs
<1>5. CASE e.step = 1 /\ ~(~e.active \/ e.divider = 0) /\ e.volume # end
  <2> DEFINE v == IF e.up THEN e.volume + 1 ELSE e.volume - 1
  <2>1. v \in 0 .. MaxVolume
    BY <1>1, <1>5 DEF Envs
  <2>2. TickEnvelope(e) = [e EXCEPT !.step = e.divider, !.volume = v]
    BY <1>5, Zenon DEF TickEnvelope
  <2> HIDE DEF v
  <2>3. QED
    BY <2>1, <2>2 DEF Envs
<1>6. QED
  BY <1>2, <1>3, <1>4, <1>5

\* A sweep down does not go below 0; one that would go too high does nothing.
LEMMA TickSweepTyped ==
  ASSUME kind \in Kind, NEW s \in Sweeps
  PROVE  TickSweep(s) \in Sweeps
<1> DEFINE offset == s.shadow \div 2 ^ s.shift
           f == NewFrequency(s)
<1>1. Limit \in Nat \ {0} /\ Dividers \in Nat \ {0} /\ MaxShift \in Nat
  BY PsgNumbers
<1>2. s.shadow \in 0 .. Limit - 1 /\ s.shift \in Nat /\ s.step \in {-1} \cup 0 .. Dividers - 1
  BY <1>1 DEF Sweeps, Frequency, Divider
<1>3. f \in Nat
  <2>1. 2 ^ s.shift \in Nat \ {0}
    BY <1>2, PowerPositive
  <2> DEFINE p == 2 ^ s.shift
  <2> HIDE DEF p
  <2>2. \A n \in Nat, m \in Nat \ {0} : n \div m \in 0 .. n
    OBVIOUS
  <2>3. offset \in 0 .. s.shadow
    BY <1>2, <2>1, <2>2 DEF p
  <2> HIDE DEF offset
  <2>4. f = IF s.down THEN s.shadow - offset ELSE s.shadow + offset
    BY Zenon DEF NewFrequency, offset
  <2> HIDE DEF f
  <2>5. QED
    BY <1>1, <1>2, <2>3, <2>4
<1> HIDE DEF f
<1>4. CASE ~s.active
  BY <1>4, Zenon DEF TickSweep
<1>5. CASE s.active /\ ~SweepFires(s)
  <2>1. Below(s.step) \in {-1} \cup Divider
    BY <1>1, <1>2 DEF Below, Divider
  <2>2. TickSweep(s) = [s EXCEPT !.step = Below(s.step)]
    BY <1>5, Zenon DEF TickSweep
  <2>3. QED
    BY <2>1, <2>2 DEF Sweeps
<1>6. CASE s.active /\ SweepFires(s) /\ (TooHigh(f) \/ s.shift = 0)
  <2>1. TickSweep(s) = [s EXCEPT !.step = s.divider]
    BY <1>6, Zenon DEF TickSweep, f
  <2>2. QED
    BY <2>1 DEF Sweeps
<1>7. CASE s.active /\ SweepFires(s) /\ ~(TooHigh(f) \/ s.shift = 0)
  <2>1. f \in Frequency
    BY <1>1, <1>3, <1>7 DEF TooHigh, Frequency
  <2>2. TickSweep(s) = [s EXCEPT !.step = s.divider, !.shadow = f, !.current = f]
    BY <1>7, Zenon DEF TickSweep, f
  <2>3. QED
    BY <2>1, <2>2 DEF Sweeps
<1>8. QED
  BY <1>4, <1>5, <1>6, <1>7

\* An envelope starts with its initial volume.
LEMMA RestartEnvelopeTyped ==
  ASSUME NEW e \in Envs
  PROVE  RestartEnvelope(e) \in Envs
<1>1. \E a \in BOOLEAN : a <=> kind \in Envelopes
  BY Zenon
<1>2. PICK a \in BOOLEAN : a <=> kind \in Envelopes
  BY <1>1
<1>3. a = (kind \in Envelopes)
  BY <1>2, Zenon
<1>4. RestartEnvelope(e) = [e EXCEPT !.step = e.divider, !.volume = e.initial, !.active = a]
  BY <1>3, Zenon DEF RestartEnvelope
<1>5. QED
  BY <1>4 DEF Envs

\* A channel is started anew.
LEMMA RestartTyped ==
  ASSUME kind \in Kind, NEW b \in Bases, NEW s \in Sweeps, env \in Envs, Restart(b, s)
  PROVE  base' \in Bases /\ sweep' \in Sweeps /\ env' \in Envs
<1>1. base' \in Bases
  <2> DEFINE c == RestartLength(b)
  <2>1. c \in Bases
    <3>1. MaxLength[kind] \in -1 .. MaxLength[kind]
      BY PsgNumbers
    <3>2. CASE b.length = 0
      BY <3>1, <3>2 DEF RestartLength, Bases
    <3>3. CASE b.length # 0
      BY <3>3 DEF RestartLength
    <3>4. QED
      BY <3>2, <3>3
  <2>2. base' = [c EXCEPT !.enabled = TRUE, !.step = 0]
    BY DEF Restart
  <2> HIDE DEF c
  <2>3. \A e \in BOOLEAN, n \in 0 .. 7 : [c EXCEPT !.enabled = e, !.step = n] \in Bases
    BY <2>1 DEF Bases
  <2>4. TRUE \in BOOLEAN /\ 0 \in 0 .. 7
    OBVIOUS
  <2>5. QED
    BY <2>2, <2>3, <2>4, Zenon
<1>2. sweep' \in Sweeps
  <2>1. sweep' = RestartSweep(s)
    BY DEF Restart
  <2>2. CASE kind = "sweep"
    <3>1. (s.shift # 0 \/ s.divider # 0) \in BOOLEAN
      BY Zenon
    <3>2. RestartSweep(s) = [s EXCEPT !.shadow = s.current, !.step = s.divider,
                                      !.active = s.shift # 0 \/ s.divider # 0]
      BY <2>2, Zenon DEF RestartSweep
    <3>3. QED
      BY <2>1, <3>1, <3>2 DEF Sweeps
  <2>3. CASE kind # "sweep"
    BY <2>1, <2>3 DEF RestartSweep
  <2>4. QED
    BY <2>2, <2>3
<1>3. env' \in Envs
  BY RestartEnvelopeTyped DEF Restart
<1>4. QED
  BY <1>1, <1>2, <1>3

\* The high part of a frequency with the low part of another is a frequency.
LEMMA TunedTyped ==
  ASSUME kind \in Kind, sweep \in Sweeps, NEW high \in 0 .. (Limit - 1) \div LowByte
  PROVE  Tuned(high) \in Sweeps
<1> DEFINE f == high * LowByte + (sweep.current % LowByte)
<1>1. Limit \in Nat \ {0} /\ LowByte \in Nat \ {0} /\ Limit % LowByte = 0
  BY PsgNumbers
<1>2. sweep.current \in Nat
  BY <1>1 DEF Sweeps, Frequency
<1>3. f \in Frequency
  <2> DEFINE k == Limit \div LowByte
             r == sweep.current % LowByte
  <2>1. k \in Nat /\ Limit = LowByte * k
    BY <1>1
  <2>2. r \in 0 .. LowByte - 1
    BY <1>1, <1>2
  <2> HIDE DEF k, r
  <2>3. high \in Nat /\ high < k
    <3>1. k > 0
      BY <1>1, <2>1
    <3>2. Limit - 1 = LowByte * (k - 1) + (LowByte - 1)
      BY <1>1, <2>1
    <3>3. (Limit - 1) \div LowByte = k - 1
      BY <1>1, <2>1, <3>1, <3>2
    <3>4. QED
      BY <2>1, <3>1, <3>3
  <2>4. high * LowByte + LowByte <= Limit /\ high * LowByte \in Nat
    <3>1. (high + 1) * LowByte <= k * LowByte
      BY <1>1, <2>1, <2>3
    <3>2. QED
      BY <1>1, <2>1, <2>3, <3>1
  <2>5. QED
    BY <1>1, <2>2, <2>4 DEF Frequency, r
<1> HIDE DEF f
<1>4. CASE kind = "sweep"
  <2>1. Tuned(high) = [sweep EXCEPT !.current = f]
    BY <1>4, Zenon DEF Tuned, f
  <2>2. QED
    BY <1>3, <2>1 DEF Sweeps
<1>5. CASE kind # "sweep"
  BY <1>5 DEF Tuned
<1>6. QED
  BY <1>4, <1>5

\* The sequencer's call.
LEMMA SequencerTyped ==
  ASSUME kind \in Kind, PsgParts, Sequencer
  PROVE  base' \in Bases /\ sweep' \in Sweeps /\ env' \in Envs
<1> DEFINE timed == IF base.step % 2 = 0 THEN TickLength(base) ELSE base
           swept == base.step % 4 = 2 /\ timed.enabled
           ends  == swept /\ SweepFires(sweep) /\ TooHigh(NewFrequency(sweep))
<1>1. /\ base' = [timed EXCEPT !.enabled = @ /\ ~ends, !.step = (@ + 1) % 8]
      /\ sweep' = IF swept THEN TickSweep(sweep) ELSE sweep
      /\ env' = IF base.step = 7 THEN TickEnvelope(env) ELSE env
  BY DEF Sequencer
<1>2. timed \in Bases
  BY TickLengthTyped DEF PsgParts
<1> HIDE DEF timed
<1>3. (timed.enabled /\ ~ends) \in BOOLEAN
  BY Zenon
<1>4. (timed.step + 1) % 8 \in 0 .. 7
  BY <1>2 DEF Bases
<1> HIDE DEF ends
<1>5. base' \in Bases
  BY <1>1, <1>2, <1>3, <1>4 DEF Bases
<1>6. sweep' \in Sweeps
  BY <1>1, TickSweepTyped DEF PsgParts
<1>7. env' \in Envs
  BY <1>1, TickEnvelopeTyped DEF PsgParts
<1>8. QED
  BY <1>5, <1>6, <1>7

\* A byte of a save state.
LEMMA AsByteTyped ==
  ASSUME NEW n \in Int, NEW most \in Nat, n <= most, LengthByte \in Nat \ {0}, NEW x \in AsByte(n, most)
  PROVE  x \in 0 .. most /\ (0 <= n /\ n < LengthByte => x = n)
<1>1. CASE n < 0
  BY <1>1 DEF AsByte
<1>2. CASE n >= 0
  <2>1. x = n % LengthByte
    BY <1>2 DEF AsByte
  <2>2. n % LengthByte \in 0 .. n /\ (n < LengthByte => n % LengthByte = n)
    BY <1>2
  <2>3. QED
    BY <1>2, <2>1, <2>2
<1>3. QED
  BY <1>1, <1>2

\* A write to the control register.
LEMMA WriteControlTyped ==
  ASSUME kind \in Kind, PsgParts, WriteControl
  PROVE  base' \in Bases /\ sweep' \in Sweeps /\ env' \in Envs
<1>1. PICK high \in 0 .. (Limit - 1) \div LowByte, c \in Counting[kind], trigger \in BOOLEAN :
        IF dac /\ trigger
        THEN Restart([base EXCEPT !.counting = c], Tuned(high))
        ELSE /\ base' = [base EXCEPT !.counting = c] /\ sweep' = Tuned(high)
             /\ UNCHANGED <<env, handle, events>>
  BY Zenon DEF WriteControl
<1>2. c \in BOOLEAN
  BY PsgNumbers
<1> DEFINE b == [base EXCEPT !.counting = c]
<1>3. b \in Bases
  BY <1>2 DEF Bases, PsgParts
<1>4. Tuned(high) \in Sweeps
  BY TunedTyped DEF PsgParts
<1> HIDE DEF b
<1>5. CASE dac /\ trigger
  <2>1. Restart(b, Tuned(high))
    BY <1>1, <1>5 DEF b
  <2>2. QED
    BY <1>3, <1>4, <2>1, RestartTyped DEF PsgParts
<1>6. CASE ~(dac /\ trigger)
  BY <1>1, <1>3, <1>4, <1>6 DEF PsgParts, b
<1>7. QED
  BY <1>5, <1>6

\* Sound is switched on or off.
LEMMA WriteMasterTyped ==
  ASSUME kind \in Kind, PsgParts, WriteMaster
  PROVE  base' \in Bases /\ sweep' \in Sweeps /\ env' \in Envs
<1>1. CASE Reset
  <2>1. base' \in Bases
    <3>1. base' = [enabled |-> FALSE, step |-> 0, length |-> 0, counting |-> FALSE]
      BY <1>1 DEF Reset
    <3>2. MaxLength[kind] \in Nat
      BY PsgNumbers
    <3>3. QED
      BY <3>1, <3>2 DEF Bases
  <2>2. env' \in Envs
    <3> DEFINE e == [env EXCEPT !.up = FALSE, !.initial = 0, !.divider = 0]
    <3>1. 0 \in 0 .. MaxVolume /\ 0 \in Divider /\ env \in Envs
      BY PsgNumbers DEF Divider, PsgParts
    <3>2. e \in Envs
      <4>1. \A u \in BOOLEAN : [env EXCEPT !.up = u, !.initial = 0, !.divider = 0] \in Envs
        BY <3>1 DEF Envs
      <4>2. FALSE \in BOOLEAN
        OBVIOUS
      <4>3. QED
        BY <4>1, <4>2, Zenon
    <3>3. env' = RestartEnvelope(e)
      BY <1>1, Zenon DEF Reset
    <3>4. QED
      BY <3>2, <3>3, RestartEnvelopeTyped
  <2>3. sweep' \in Sweeps
    <3> DEFINE s == [sweep EXCEPT !.down = FALSE, !.divider = 0, !.shift = 0]
    <3>1. 0 \in 0 .. MaxShift /\ 0 \in Divider /\ sweep \in Sweeps
      BY PsgNumbers DEF Divider, PsgParts
    <3>2. s \in Sweeps
      <4>1. \A u \in BOOLEAN : [sweep EXCEPT !.down = u, !.divider = 0, !.shift = 0] \in Sweeps
        BY <3>1 DEF Sweeps
      <4>2. FALSE \in BOOLEAN
        OBVIOUS
      <4>3. QED
        BY <4>1, <4>2, Zenon
    <3>3. sweep' = RestartSweep(s)
      BY <1>1, Zenon DEF Reset
    <3> HIDE DEF s
    <3>4. CASE kind = "sweep"
      <4>1. (s.shift # 0 \/ s.divider # 0) \in BOOLEAN
        BY Zenon
      <4>2. sweep' = [s EXCEPT !.shadow = s.current, !.step = s.divider,
                               !.active = s.shift # 0 \/ s.divider # 0]
        BY <3>3, <3>4, Zenon DEF RestartSweep
      <4>3. QED
        BY <3>2, <4>1, <4>2 DEF Sweeps
    <3>5. CASE kind # "sweep"
      BY <3>2, <3>3, <3>5 DEF RestartSweep
    <3>6. QED
      BY <3>4, <3>5
  <2>4. QED
    BY <2>1, <2>2, <2>3
<1>2. CASE ~Reset
  BY <1>2 DEF WriteMaster, PsgParts
<1>3. QED
  BY <1>1, <1>2

\* A save state stores lengths and sweep steps as bytes.
LEMMA SaveAndLoadTyped ==
  ASSUME kind \in Kind, PsgParts, SaveAndLoadChannel
  PROVE  base' \in Bases /\ sweep' \in Sweeps /\ env' \in Envs
<1>1. /\ MaxLength[kind] \in Nat \ {0} /\ Dividers \in Nat \ {0}
      /\ LengthByte \in Nat \ {0} /\ LengthByte >= Dividers
  BY PsgNumbers
<1>2. base' \in Bases
  <2>1. PICK n \in AsByte(base.length, MaxLength[kind]) : base' = [base EXCEPT !.length = n]
    BY DEF SaveAndLoadChannel
  <2>2. base.length \in Int /\ base.length <= MaxLength[kind]
    BY <1>1 DEF PsgParts, Bases
  <2>3. n \in 0 .. MaxLength[kind]
    BY <1>1, <2>2, AsByteTyped
  <2>4. QED
    BY <2>1, <2>3 DEF Bases, PsgParts
<1>3. sweep' \in Sweeps
  <2>1. PICK n \in AsByte(sweep.step, Dividers - 1) : sweep' = [sweep EXCEPT !.step = n]
    BY DEF SaveAndLoadChannel
  <2>2. sweep.step \in Int /\ sweep.step <= Dividers - 1
    BY <1>1 DEF PsgParts, Sweeps, Divider
  <2>3. n \in 0 .. Dividers - 1
    BY <1>1, <2>2, AsByteTyped
  <2>4. QED
    BY <2>1, <2>3 DEF Sweeps, PsgParts, Divider
<1>4. QED
  BY <1>2, <1>3 DEF SaveAndLoadChannel, PsgParts

\* The parts have their types when the console is switched on ...
LEMMA PartsInit == PsgInit => PsgParts
<1> SUFFICES ASSUME PsgInit PROVE PsgParts
  OBVIOUS
<1>1. /\ kind \in Kind
      /\ base = [enabled |-> FALSE, step |-> 0, length |-> 0, counting |-> FALSE]
      /\ env = [active |-> kind \in Envelopes, up |-> FALSE, initial |-> 0,
                volume |-> 0, divider |-> 0, step |-> 0]
      /\ sweep = [active |-> FALSE, down |-> FALSE, current |-> 0, shadow |-> 0,
                  divider |-> 0, shift |-> 0, step |-> 0]
  BY DEF PsgInit
<1>2. /\ MaxLength[kind] \in Nat \ {0} /\ 0 \in 0 .. MaxVolume /\ 0 \in 0 .. MaxShift
      /\ 0 \in Divider /\ 0 \in Frequency
  BY <1>1, PsgNumbers DEF Divider, Frequency
<1>3. base \in Bases
  BY <1>1, <1>2 DEF Bases
<1>4. env \in Envs
  <2>1. \E a \in BOOLEAN : a <=> kind \in Envelopes
    BY Zenon
  <2>2. PICK a \in BOOLEAN : a <=> kind \in Envelopes
    BY <2>1
  <2>3. a = (kind \in Envelopes)
    BY <2>2, Zenon
  <2>4. env = [active |-> a, up |-> FALSE, initial |-> 0, volume |-> 0, divider |-> 0, step |-> 0]
    BY <1>1, <2>3, Zenon
  <2>5. QED
    BY <1>2, <2>4 DEF Envs
<1>5. sweep \in Sweeps
  BY <1>1, <1>2 DEF Sweeps
<1>6. QED
  BY <1>3, <1>4, <1>5 DEF PsgParts

\* Every step keeps the types of the parts.
LEMMA PartsNext == Shapes /\ PsgParts /\ [PsgNext]_psgVars => PsgParts'
<1> SUFFICES ASSUME Shapes, PsgParts, [PsgNext]_psgVars
             PROVE  base' \in Bases /\ sweep' \in Sweeps /\ env' \in Envs /\ kind' = kind
  BY DEF PsgParts, Bases, Envs, Sweeps
<1>1. kind \in Kind /\ base \in Bases /\ sweep \in Sweeps /\ env \in Envs
  BY DEF Shapes, PsgParts
<1>2. kind' = kind
  BY DEF PsgNext, psgVars, control, Sequencer, Generate, WriteSweep, WriteLength, WriteEnvelope,
     WritePlaying, WriteFrequency, WriteControl, WriteMaster, SaveAndLoadChannel, Others
<1>3. CASE Sequencer
  BY <1>1, <1>2, <1>3, SequencerTyped
<1>4. CASE Generate \/ WritePlaying \/ UNCHANGED psgVars
  BY <1>1, <1>2, <1>4 DEF Generate, WritePlaying, psgVars
<1>5. CASE WriteSweep
  <2>1. UNCHANGED <<base, env>>
    BY <1>5 DEF WriteSweep
  <2>2. PICK shift \in 0 .. MaxShift, down \in BOOLEAN, d \in Divider :
          sweep' = [sweep EXCEPT !.shift = shift, !.down = down, !.divider = d]
    BY <1>5 DEF WriteSweep
  <2>3. sweep' \in Sweeps
    BY <1>1, <2>2 DEF Sweeps
  <2>4. QED
    BY <1>1, <1>2, <2>1, <2>3
<1>6. CASE WriteLength
  <2>1. UNCHANGED <<sweep, env>>
    BY <1>6 DEF WriteLength
  <2>2. PICK n \in Lengths[kind] : base' = [base EXCEPT !.length = n]
    BY <1>6 DEF WriteLength
  <2>3. n \in -1 .. MaxLength[kind]
    BY <1>1, PsgNumbers
  <2>4. base' \in Bases
    BY <1>1, <2>2, <2>3 DEF Bases
  <2>5. QED
    BY <1>1, <1>2, <2>1, <2>4
<1>7. CASE WriteEnvelope
  <2>1. UNCHANGED sweep
    BY <1>7 DEF WriteEnvelope
  <2>2. PICK e \in Shape[kind] :
          /\ env' = [env EXCEPT !.divider = e.divider, !.up = e.up, !.initial = e.initial]
          /\ dac' = (e.up \/ e.initial # 0)
          /\ base' = [base EXCEPT !.enabled = @ /\ dac']
    BY <1>7 DEF WriteEnvelope
  <2>3. e.divider \in Divider /\ e.up \in BOOLEAN /\ e.initial \in 0 .. MaxVolume
    BY <1>1, PsgNumbers
  <2>4. env' \in Envs
    BY <1>1, <2>2, <2>3 DEF Envs
  <2>5. dac' \in BOOLEAN
    BY <2>2, Zenon
  <2>6. base' \in Bases
    BY <1>1, <2>2, <2>5 DEF Bases
  <2>7. QED
    BY <1>1, <1>2, <2>1, <2>4, <2>6
<1>8. CASE WriteFrequency
  <2>1. UNCHANGED <<base, env>>
    BY <1>8 DEF WriteFrequency
  <2>2. PICK low \in 0 .. LowByte - 1 :
          LET f == (sweep.current \div LowByte) * LowByte + low
          IN  f < Limit /\ sweep' = [sweep EXCEPT !.current = f]
    BY <1>8 DEF WriteFrequency
  <2> DEFINE k == sweep.current \div LowByte
             f == k * LowByte + low
  <2>3. k \in Nat /\ low \in Nat /\ LowByte \in Nat /\ Limit \in Nat
    BY <1>1, PsgNumbers DEF Sweeps, Frequency
  <2>4. f < Limit /\ sweep' = [sweep EXCEPT !.current = f]
    BY <2>2
  <2> HIDE DEF k
  <2>5. f \in Frequency
    BY <2>3, <2>4 DEF Frequency
  <2> HIDE DEF f
  <2>6. sweep' \in Sweeps
    BY <1>1, <2>4, <2>5 DEF Sweeps
  <2>7. QED
    BY <1>1, <1>2, <2>1, <2>6
<1>9. CASE WriteControl
  BY <1>1, <1>2, <1>9, WriteControlTyped
<1>10. CASE WriteMaster
  BY <1>1, <1>2, <1>10, WriteMasterTyped
<1>11. CASE SaveAndLoadChannel
  BY <1>1, <1>2, <1>11, SaveAndLoadTyped
<1>12. QED
  BY <1>3, <1>4, <1>5, <1>6, <1>7, <1>8, <1>9, <1>10, <1>11 DEF PsgNext

\* A generator's counters, volume and frequencies keep to their registers
\* (LengthCounter, Envelope, Sweep), through every write, tick and load.
THEOREM PsgTypeCorrect == PsgSpec => []PsgTypeOK
<1>1. Shapes /\ PsgParts => PsgTypeOK
  BY DEF Shapes, PsgParts, Bases, Envs, Sweeps, PsgTypeOK
<1>2. ChainInv => Shapes
  BY DEF ChainInv
<1>3. QED
  BY <1>1, <1>2, PartsInit, PartsNext, ChainInvHolds, PTL DEF PsgSpec
=============================================================================
