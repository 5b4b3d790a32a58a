---------------------------- MODULE CartridgeProofs ----------------------------
(***************************************************************************)
(* What holds of the file behind a save chip of any size, of the accesses  *)
(* to its memory, of the commands of a FLASH and of what the clock         *)
(* understands of the frames it is sent, whatever the program sends,       *)
(* wherever it is stopped, saved or loaded, whichever writes fail.         *)
(***************************************************************************)
EXTENDS Cartridge, FiniteSetTheorems, SequenceTheorems, TLAPS

\* What there is of a memory or of a file: cells, without a gap.
IsFile(disk) ==
  /\ disk = [i \in DOMAIN disk |-> disk[i]]
  /\ DOMAIN disk \subseteq Nat /\ IsFiniteSet(DOMAIN disk)
  /\ \A i \in DOMAIN disk : 0 .. i \subseteq DOMAIN disk

\* The memory and the file are made of cells, and the file is no longer than
\* the memory.
IsStore(s) ==
  /\ s = [memory |-> s.memory, stream |-> s.stream, disk |-> s.disk, missed |-> s.missed,
          panicked |-> s.panicked]
  /\ IsFile(s.memory) /\ IsFile(s.disk)
  /\ s.stream \in BOOLEAN
  /\ s.stream => DOMAIN s.disk \subseteq DOMAIN s.memory

\* The file has what the memory has outside `span`.
MirrorsBut(s, span) ==
  s.stream =>
    \A i \in DOMAIN s.memory \ (s.missed \cup span) : i \in DOMAIN s.disk /\ s.disk[i] = s.memory[i]

\* A memory has a size that the chip may have.
Valid(c) ==
  CASE c.kind = "SRAM" -> {BankSize}
    [] c.kind = "FLASH" -> {BankSize, 2 * BankSize}
    [] c.kind = "EEPROM" -> {Sizes[k].size : k \in {"4K", "64K"}}
    [] OTHER -> {0}

Fits(s, valid) == Size(s) \in valid

\* The inductive invariant: nothing but cells, which agree, and a size that
\* the next start takes over.
Good(s) == IsStore(s) /\ MirrorsBut(s, {})
Inv ==
  /\ cart \in Cartridges /\ Good(store) /\ Fits(store, Valid(cart))
  /\ (cart.kind = "EEPROM" => chip \in {"4K", "64K"})
-----------------------------------------------------------------------------
\* Overwriting adds cells to the file and leaves the others.
LEMMA OverwrittenCells ==
  ASSUME NEW disk, NEW memory, NEW span,
         IsFile(disk), IsFile(memory), span \subseteq DOMAIN memory
  PROVE  LET o == Overwritten(disk, memory, span) IN
         /\ IsFile(o)
         /\ DOMAIN disk \subseteq DOMAIN memory => DOMAIN o \subseteq DOMAIN memory
         /\ \A i \in span \cap Nat : i \in DOMAIN o /\ o[i] = memory[i]
         /\ \A i \in DOMAIN disk \ span : i \in DOMAIN o /\ o[i] = disk[i]
<1> DEFINE o == Overwritten(disk, memory, span)
           D == DOMAIN disk \cup UNION {0 .. j : j \in span}
<1>1. o = [i \in D |-> IF i \in span THEN memory[i] ELSE IF i \in DOMAIN disk THEN disk[i] ELSE 0]
  BY DEF Overwritten
<1>2. DOMAIN o = D
  BY <1>1
<1>3. o = [i \in DOMAIN o |-> o[i]]
  BY <1>1
<1>4. D \subseteq Nat
  <2>1. ASSUME NEW j \in span, NEW i \in 0 .. j
        PROVE  i \in Nat
    BY SMT
  <2>2. QED
    BY <2>1 DEF IsFile
<1>8. ASSUME NEW i \in D
      PROVE  0 .. i \subseteq D
  <2>1. CASE i \in DOMAIN disk
    BY <2>1 DEF IsFile
  <2>2. CASE i \notin DOMAIN disk
    <3>1. PICK j \in span : i \in 0 .. j
      BY <2>2
    <3>2. j \in Nat
      BY DEF IsFile
    <3>3. 0 .. i \subseteq 0 .. j
      BY <3>1, <3>2, SMT
    <3>4. QED
      BY <3>3
  <2>3. QED
    BY <2>1, <2>2
<1>9. ASSUME DOMAIN disk \subseteq DOMAIN memory
      PROVE  D \subseteq DOMAIN memory
  BY <1>9 DEF IsFile
<1>10. IsFiniteSet(D)
  <2>1. D \subseteq DOMAIN disk \cup DOMAIN memory
    BY DEF IsFile
  <2>2. IsFiniteSet(DOMAIN disk \cup DOMAIN memory)
    BY FS_Union DEF IsFile
  <2> HIDE DEF D
  <2>3. QED
    BY <2>1, <2>2, FS_Subset
<1>5. ASSUME NEW i \in span \cap Nat
      PROVE  i \in D /\ o[i] = memory[i]
  <2>1. i \in 0 .. i
    BY SMT
  <2>2. i \in D
    BY <2>1
  <2>3. QED
    BY <2>2, <1>1
<1>6. ASSUME NEW i \in DOMAIN disk \ span
      PROVE  i \in D /\ o[i] = disk[i]
  BY <1>1
<1>7. QED
  BY <1>2, <1>3, <1>4, <1>5, <1>6, <1>8, <1>9, <1>10 DEF IsFile

\* What a step does not change of a memory: its size, and whether it has a file.
SameShape(s, t) == DOMAIN t.memory = DOMAIN s.memory /\ t.stream = s.stream

\* A store with another memory, and a store after a panic.
LEMMA StoreChanged ==
  ASSUME NEW s, IsStore(s)
  PROVE  /\ \A m : [s EXCEPT !.memory = m] =
                  [memory |-> m, stream |-> s.stream, disk |-> s.disk, missed |-> s.missed,
                   panicked |-> s.panicked]
         /\ [s EXCEPT !.panicked = TRUE] =
                  [memory |-> s.memory, stream |-> s.stream, disk |-> s.disk,
                   missed |-> s.missed, panicked |-> TRUE]
<1>1. s = [memory |-> s.memory, stream |-> s.stream, disk |-> s.disk, missed |-> s.missed,
           panicked |-> s.panicked]
  BY DEF IsStore
<1>2. ASSUME NEW m
      PROVE  [s EXCEPT !.memory = m] =
                  [memory |-> m, stream |-> s.stream, disk |-> s.disk, missed |-> s.missed,
                   panicked |-> s.panicked]
  BY <1>1
<1>3. ASSUME NEW b
      PROVE  [s EXCEPT !.panicked = b] =
                  [memory |-> s.memory, stream |-> s.stream, disk |-> s.disk,
                   missed |-> s.missed, panicked |-> b]
  BY <1>1
<1>4. QED
  BY <1>2, <1>3

\* A write of a span, done or failed, leaves a good store if the rest was good.
LEMMA UpdateGood ==
  ASSUME NEW s, NEW span \in SUBSET DOMAIN s.memory, NEW ok \in BOOLEAN,
         IsStore(s), MirrorsBut(s, span)
  PROVE  Good(Update(s, span, ok)) /\ SameShape(s, Update(s, span, ok))
<1>1. CASE ~s.stream
  <2>1. Update(s, span, ok) = s
    BY <1>1 DEF Update
  <2>2. QED
    BY <2>1, <1>1 DEF Good, MirrorsBut, SameShape
<1>2. CASE s.stream /\ ok
  <2> DEFINE o == Overwritten(s.disk, s.memory, span)
             t == [memory |-> s.memory, stream |-> s.stream, disk |-> o, missed |-> s.missed \ span,
                   panicked |-> s.panicked]
  <2>1. Update(s, span, ok) = t
    BY <1>2 DEF Update, IsStore
  <2>2. /\ IsFile(o)
        /\ DOMAIN s.disk \subseteq DOMAIN s.memory => DOMAIN o \subseteq DOMAIN s.memory
        /\ \A i \in span \cap Nat : i \in DOMAIN o /\ o[i] = s.memory[i]
        /\ \A i \in DOMAIN s.disk \ span : i \in DOMAIN o /\ o[i] = s.disk[i]
    BY OverwrittenCells DEF IsStore
  <2> HIDE DEF o
  <2>3. IsStore(t)
    BY <2>2 DEF IsStore
  <2>4. ASSUME NEW i \in DOMAIN s.memory \ (s.missed \ span)
        PROVE  i \in DOMAIN o /\ o[i] = s.memory[i]
    <3>1. CASE i \in span
      BY <3>1, <2>2 DEF IsStore, IsFile
    <3>2. CASE i \notin span
      BY <3>2, <1>2, <2>2 DEF MirrorsBut
    <3>3. QED
      BY <3>1, <3>2
  <2>5. MirrorsBut(t, {})
    BY <2>4 DEF MirrorsBut
  <2>6. QED
    BY <2>1, <2>3, <2>5 DEF Good, SameShape
<1>3. CASE s.stream /\ ~ok
  <2> DEFINE t == [memory |-> s.memory, stream |-> s.stream, disk |-> s.disk,
                   missed |-> s.missed \cup span, panicked |-> s.panicked]
  <2>1. Update(s, span, ok) = t
    BY <1>3 DEF Update, IsStore
  <2>2. IsStore(t)
    BY DEF IsStore
  <2>3. MirrorsBut(t, {})
    BY <1>3 DEF MirrorsBut
  <2>4. QED
    BY <2>1, <2>2, <2>3 DEF Good, SameShape
<1>4. QED
  BY <1>1, <1>2, <1>3

\* Cells without a gap are those below their number.
LEMMA Contiguous ==
  ASSUME NEW f, IsFile(f)
  PROVE  /\ Cardinality(DOMAIN f) \in Nat
         /\ DOMAIN f = Cells(Cardinality(DOMAIN f))
<1> DEFINE D == DOMAIN f
           n == Cardinality(D)
<1>1. D \subseteq Nat /\ IsFiniteSet(D) /\ \A i \in D : 0 .. i \subseteq D
  BY DEF IsFile
<1>2. n \in Nat
  BY <1>1, FS_CardinalityType
<1> HIDE DEF n
<1>3. ASSUME NEW i \in D
      PROVE  i < n
  <2>1. i \in Nat /\ 0 .. i \subseteq D
    BY <1>1
  <2>2. Cardinality(0 .. i) = i + 1
    BY <2>1, FS_Interval
  <2>3. Cardinality(0 .. i) <= Cardinality(D)
    BY <1>1, <2>1, FS_Subset
  <2>4. QED
    BY <1>2, <2>1, <2>2, <2>3 DEF n
<1>4. IsFiniteSet(0 .. n - 1) /\ Cardinality(0 .. n - 1) = n
  BY <1>2, FS_Interval
<1>5. D \subseteq 0 .. n - 1
  <2>1. ASSUME NEW i \in D PROVE i \in 0 .. n - 1
    BY <1>1, <1>2, <1>3
  <2>2. QED
    BY <2>1
<1> HIDE DEF D
<1>6. D = 0 .. n - 1
  BY <1>4, <1>5, FS_Subset DEF n
<1>7. QED
  BY <1>2, <1>6 DEF D, n, Cells

\* A good memory has the cells up to its size.
LEMMA StoreCells ==
  ASSUME NEW s, Good(s)
  PROVE  Size(s) \in Nat /\ DOMAIN s.memory = Cells(Size(s))
BY Contiguous DEF Good, IsStore, Size

\* A write to the file leaves the memory, and is no panic.
LEMMA UpdateKeeps ==
  ASSUME NEW s, IsStore(s), NEW span, NEW ok \in BOOLEAN
  PROVE  Update(s, span, ok).memory = s.memory /\ Update(s, span, ok).panicked = s.panicked
<1>1. CASE ~s.stream
  BY <1>1 DEF Update
<1>2. CASE s.stream /\ ok
  <2>1. Update(s, span, ok) = [s EXCEPT !.disk = Overwritten(@, s.memory, span), !.missed = @ \ span]
    BY <1>2 DEF Update
  <2> DEFINE o == Overwritten(s.disk, s.memory, span)
  <2>2. Update(s, span, ok) = [memory |-> s.memory, stream |-> s.stream, disk |-> o,
                               missed |-> s.missed \ span, panicked |-> s.panicked]
    BY <2>1 DEF IsStore
  <2>3. QED
    BY <2>2
<1>3. CASE s.stream /\ ~ok
  <2>1. Update(s, span, ok) = [s EXCEPT !.missed = @ \cup span]
    BY <1>3 DEF Update
  <2>2. Update(s, span, ok) = [memory |-> s.memory, stream |-> s.stream, disk |-> s.disk,
                               missed |-> s.missed \cup span, panicked |-> s.panicked]
    BY <2>1 DEF IsStore
  <2>3. QED
    BY <2>2
<1>4. QED
  BY <1>1, <1>2, <1>3 DEF IsStore

\* Setting a span keeps a store good, even if it panics.
LEMMA MemorySetGood ==
  ASSUME NEW s, NEW span, NEW value, NEW ok \in BOOLEAN, Good(s)
  PROVE  Good(MemorySet(s, span, value, ok)) /\ SameShape(s, MemorySet(s, span, value, ok))
<1> DEFINE m == [i \in DOMAIN s.memory |-> IF i \in span THEN value ELSE s.memory[i]]
           t == [s EXCEPT !.memory = m]
<1>8. CASE ~(span \subseteq DOMAIN s.memory)
  <2>1. MemorySet(s, span, value, ok) = Panicked(s)
    BY <1>8 DEF MemorySet
  <2>2. Panicked(s) = [memory |-> s.memory, stream |-> s.stream, disk |-> s.disk,
                       missed |-> s.missed, panicked |-> TRUE]
    BY StoreChanged DEF Panicked, Good
  <2>3. QED
    BY <2>1, <2>2 DEF Good, IsStore, MirrorsBut, SameShape
<1> SUFFICES ASSUME span \subseteq DOMAIN s.memory
             PROVE  Good(MemorySet(s, span, value, ok)) /\ SameShape(s, MemorySet(s, span, value, ok))
  BY <1>8
<1>1. t = [memory |-> m, stream |-> s.stream, disk |-> s.disk, missed |-> s.missed,
           panicked |-> s.panicked]
  BY StoreChanged DEF Good
<1>2. m = [i \in DOMAIN m |-> m[i]] /\ DOMAIN m = DOMAIN s.memory
  OBVIOUS
<1>3. \A i \in DOMAIN m \ span : m[i] = s.memory[i]
  OBVIOUS
<1> HIDE DEF m
<1>4. IsStore(t)
  BY <1>1, <1>2 DEF Good, IsStore, IsFile
<1>5. MirrorsBut(t, span)
  BY <1>1, <1>2, <1>3 DEF Good, MirrorsBut
<1>6. Good(Update(t, span, ok)) /\ SameShape(t, Update(t, span, ok))
  BY <1>1, <1>2, <1>4, <1>5, UpdateGood
<1>9. MemorySet(s, span, value, ok) = Update(t, span, ok)
  BY DEF MemorySet, m
<1>7. QED
  BY <1>1, <1>2, <1>6, <1>9 DEF SameShape
\* A span that the memory has is set, and nothing else.
LEMMA SpanSet ==
  ASSUME NEW s, Good(s), NEW span, span \subseteq DOMAIN s.memory, NEW value, NEW ok \in BOOLEAN,
         NEW m, m = [i \in DOMAIN s.memory |-> IF i \in span THEN value ELSE s.memory[i]]
  PROVE  MemorySet(s, span, value, ok).memory = m /\ MemorySet(s, span, value, ok).panicked = s.panicked
<1> DEFINE t == [s EXCEPT !.memory = m]
<1>1. t = [memory |-> m, stream |-> s.stream, disk |-> s.disk, missed |-> s.missed,
           panicked |-> s.panicked]
  BY StoreChanged DEF Good
<1>2. m = [i \in DOMAIN m |-> m[i]] /\ DOMAIN m = DOMAIN s.memory
  OBVIOUS
<1>3. MemorySet(s, span, value, ok) = Update(t, span, ok)
  BY DEF MemorySet
<1>4. IsStore(t)
  BY <1>1, <1>2 DEF Good, IsStore, IsFile
<1>5. Update(t, span, ok).memory = m /\ Update(t, span, ok).panicked = s.panicked
  BY <1>1, <1>4, UpdateKeeps
<1>6. QED
  BY <1>3, <1>5

\* Setting cells that there are is no panic.
LEMMA NoPanic ==
  ASSUME NEW s, Good(s), NEW span, span \subseteq DOMAIN s.memory, NEW value, NEW ok \in BOOLEAN
  PROVE  MemorySet(s, span, value, ok).panicked = s.panicked
<1>1. PICK m : m = [i \in DOMAIN s.memory |-> IF i \in span THEN value ELSE s.memory[i]]
  OBVIOUS
<1>2. QED
  BY <1>1, SpanSet
-----------------------------------------------------------------------------
\* So does loading another memory, and a chip that has no file is good.
LEMMA MemoryLoadedGood ==
  ASSUME NEW s, NEW data, NEW ok \in BOOLEAN, Good(s)
  PROVE  Good(MemoryLoaded(s, data, ok)) /\ SameShape(s, MemoryLoaded(s, data, ok))
<1> DEFINE m == [i \in DOMAIN s.memory |-> IF i \in DOMAIN data THEN data[i] ELSE 0]
           t == [s EXCEPT !.memory = m]
<1>1. t = [memory |-> m, stream |-> s.stream, disk |-> s.disk, missed |-> s.missed,
           panicked |-> s.panicked]
  BY StoreChanged DEF Good
<1>2. m = [i \in DOMAIN m |-> m[i]] /\ DOMAIN m = DOMAIN s.memory
  OBVIOUS
<1> HIDE DEF m
<1>3. IsStore(t)
  BY <1>1, <1>2 DEF Good, IsStore, IsFile
<1>4. MirrorsBut(t, DOMAIN s.memory)
  BY <1>1, <1>2 DEF MirrorsBut
<1>5. Good(Update(t, DOMAIN s.memory, ok)) /\ SameShape(t, Update(t, DOMAIN s.memory, ok))
  BY <1>1, <1>2, <1>3, <1>4, UpdateGood
<1>7. MemoryLoaded(s, data, ok) = Update(t, DOMAIN s.memory, ok)
  BY DEF MemoryLoaded, m
<1>6. QED
  BY <1>1, <1>2, <1>5, <1>7 DEF SameShape

\* A load is no panic.
LEMMA MemoryLoadedDone ==
  ASSUME NEW s, Good(s), NEW data, NEW ok \in BOOLEAN
  PROVE  MemoryLoaded(s, data, ok).panicked = s.panicked
<1> DEFINE m == [i \in DOMAIN s.memory |-> IF i \in DOMAIN data THEN data[i] ELSE 0]
           t == [s EXCEPT !.memory = m]
<1>1. t = [memory |-> m, stream |-> s.stream, disk |-> s.disk, missed |-> s.missed,
           panicked |-> s.panicked]
  BY StoreChanged DEF Good
<1>2. m = [i \in DOMAIN m |-> m[i]] /\ DOMAIN m = DOMAIN s.memory
  OBVIOUS
<1>3. MemoryLoaded(s, data, ok) = Update(t, DOMAIN s.memory, ok)
  BY DEF MemoryLoaded, m
<1> HIDE DEF m
<1>4. IsStore(t)
  BY <1>1, <1>2 DEF Good, IsStore, IsFile
<1>5. QED
  BY <1>1, <1>3, <1>4, UpdateKeeps

\* The cells of a chip that has `n` of them.
LEMMA CellsOfSize ==
  ASSUME NEW n \in Nat
  PROVE  /\ IsFile(Blank(n)) /\ DOMAIN Blank(n) = Cells(n)
         /\ Cardinality(Cells(n)) = n
<1>1. Cells(n) \subseteq Nat /\ \A i \in Cells(n) : 0 .. i \subseteq Cells(n)
  BY SMT DEF Cells
<1>2. Blank(n) = [i \in Cells(n) |-> Blank(n)[i]] /\ DOMAIN Blank(n) = Cells(n)
  BY DEF Blank
<1>3. Cardinality(Cells(n)) = n /\ IsFiniteSet(Cells(n))
  BY FS_Interval DEF Cells
<1>4. QED
  BY <1>1, <1>2, <1>3 DEF IsFile

\* A chip without a file.
LEMMA NewInMemoryGood ==
  ASSUME NEW n \in Nat, NEW disk, IsFile(disk)
  PROVE  /\ Good(NewInMemory(n, disk)) /\ Size(NewInMemory(n, disk)) = n
         /\ ~NewInMemory(n, disk).stream /\ ~NewInMemory(n, disk).panicked
<1> DEFINE s == NewInMemory(n, disk)
<1>1. s = [memory |-> Blank(n), stream |-> FALSE, disk |-> disk, missed |-> {}, panicked |-> FALSE]
  BY DEF NewInMemory
<1>2. IsFile(Blank(n)) /\ Cardinality(DOMAIN Blank(n)) = n
  BY CellsOfSize
<1> HIDE DEF s
<1>3. IsStore(s) /\ MirrorsBut(s, {}) /\ ~s.stream /\ ~s.panicked
  BY <1>1, <1>2 DEF IsStore, MirrorsBut
<1>4. Size(s) = n
  BY <1>1, <1>2 DEF Size
<1>5. QED
  BY <1>3, <1>4 DEF Good, s

\* A file that is taken over or made anew has one of the valid sizes.
LEMMA OpenOrCreateGood ==
  ASSUME NEW disk, NEW valid, NEW n \in valid \cap Nat, NEW opens \in BOOLEAN,
         NEW ok \in BOOLEAN, IsFile(disk)
  PROVE  LET s == OpenOrCreate(disk, valid, n, opens, ok) IN
         /\ Good(s) /\ Fits(s, valid) /\ ~s.panicked
         /\ s.stream /\ Cardinality(DOMAIN disk) \in valid => s.memory = disk
         /\ ~s.stream => Size(s) = n
<1> DEFINE s == OpenOrCreate(disk, valid, n, opens, ok)
<1>1. CASE ~opens
  <2>1. s = NewInMemory(n, disk)
    BY <1>1 DEF OpenOrCreate
  <2> HIDE DEF s
  <2>2. Good(s) /\ ~s.stream /\ Size(s) = n /\ ~s.panicked
    BY <2>1, NewInMemoryGood
  <2>3. QED
    BY <2>2 DEF Fits, s
<1>2. CASE opens /\ Cardinality(DOMAIN disk) \in valid
  <2>1. s = [memory |-> disk, stream |-> TRUE, disk |-> disk, missed |-> {}, panicked |-> FALSE]
    BY <1>2 DEF OpenOrCreate
  <2> HIDE DEF s
  <2>2. s.memory = disk /\ IsStore(s) /\ MirrorsBut(s, {}) /\ s.stream /\ ~s.panicked
    BY <2>1 DEF IsStore, MirrorsBut
  <2>3. QED
    BY <1>2, <2>2 DEF Good, Fits, Size, s
<1>3. CASE opens /\ Cardinality(DOMAIN disk) \notin valid
  <2> DEFINE b == Blank(n)
             t == [memory |-> b, stream |-> TRUE, disk |-> <<>>, missed |-> {}, panicked |-> FALSE]
  <2>1. s = Update(t, Cells(n), ok)
    BY <1>3 DEF OpenOrCreate
  <2>2. IsFile(b) /\ DOMAIN b = Cells(n) /\ Cardinality(Cells(n)) = n
    BY CellsOfSize
  <2>3. DOMAIN (<<>>) = {} /\ <<>> = [i \in {} |-> (<<>>)[i]]
    OBVIOUS
  <2>4. IsFile(<<>>)
    BY <2>3, FS_EmptySet DEF IsFile
  <2> HIDE DEF b, s
  <2>5. IsStore(t)
    BY <2>2, <2>3, <2>4 DEF IsStore
  <2>6. MirrorsBut(t, Cells(n))
    BY <2>2 DEF MirrorsBut
  <2>7. Good(s) /\ SameShape(t, s)
    BY <2>1, <2>2, <2>5, <2>6, UpdateGood
  <2>8. Cardinality(DOMAIN s.memory) = n
    BY <2>2, <2>7 DEF SameShape
  <2>9. ~s.panicked
    BY <2>1, <2>5, UpdateKeeps
  <2>10. s.stream
    BY <2>7 DEF SameShape
  <2>11. QED
    BY <1>3, <2>7, <2>8, <2>9, <2>10 DEF Fits, Size, s
<1>4. QED
  BY <1>1, <1>2, <1>3

\* A machine that starts has a good store, and the file's cells in it if the
\* file has a size that the chip may have.
LEMMA OpenedGood ==
  ASSUME NEW c \in Cartridges, NEW disk, NEW opens \in BOOLEAN, NEW ok \in BOOLEAN, IsFile(disk)
  PROVE  LET s == Opened(c, disk, opens, ok) IN
         /\ Good(s) /\ Fits(s, Valid(c)) /\ ~s.panicked
         /\ s.stream /\ Cardinality(DOMAIN disk) \in Valid(c) => s.memory = disk
         /\ c.kind = "EEPROM" /\ ~s.stream =>
              Size(s) = Sizes[IF c.hint = "Auto" THEN "64K" ELSE c.hint].size
<1> DEFINE may == c.path /\ opens
<1>1. /\ BankSize \in Nat /\ 2 * BankSize \in Nat
      /\ Sizes["4K"].size \in Nat /\ Sizes["64K"].size \in Nat
  BY FlashAssumption, EepromAssumption DEF FlashGeometry, EepromGeometry
<1>2. may \in BOOLEAN
  OBVIOUS
<1> HIDE DEF may
<1> DEFINE Opens(s, valid, n) ==
             /\ Good(s) /\ Fits(s, valid) /\ ~s.panicked
             /\ s.stream /\ Cardinality(DOMAIN disk) \in valid => s.memory = disk
             /\ ~s.stream => Size(s) = n
<1>3. \A valid : \A n \in valid \cap Nat : Opens(OpenOrCreate(disk, valid, n, may, ok), valid, n)
  <2>1. ASSUME NEW valid, NEW n \in valid \cap Nat
        PROVE  Opens(OpenOrCreate(disk, valid, n, may, ok), valid, n)
    <3> DEFINE s == OpenOrCreate(disk, valid, n, may, ok)
    <3>1. /\ Good(s) /\ Fits(s, valid) /\ ~s.panicked
          /\ s.stream /\ Cardinality(DOMAIN disk) \in valid => s.memory = disk
          /\ ~s.stream => Size(s) = n
      BY <1>2, OpenOrCreateGood
    <3> HIDE DEF s
    <3>2. QED
      BY <3>1 DEF s
  <2>2. QED
    BY <2>1
<1> HIDE DEF Opens
<1>4. CASE c.kind = "SRAM"
  <2>1. Opened(c, disk, opens, ok) = OpenOrCreate(disk, {BankSize}, BankSize, may, ok)
    BY <1>4 DEF Opened, may
  <2>2. Valid(c) = {BankSize}
    BY <1>4 DEF Valid
  <2>3. Opens(Opened(c, disk, opens, ok), Valid(c), BankSize)
    BY <2>1, <2>2, <1>1, <1>3
  <2>4. QED
    BY <1>4, <2>3 DEF Opens
<1>5. CASE c.kind = "FLASH"
  <2> DEFINE n == IF c.hint = "128K" THEN 2 * BankSize ELSE BankSize
  <2>1. Opened(c, disk, opens, ok) = OpenOrCreate(disk, {BankSize, 2 * BankSize}, n, may, ok)
    BY <1>5 DEF Opened, FlashOpened, may
  <2>2. Valid(c) = {BankSize, 2 * BankSize}
    BY <1>5 DEF Valid
  <2>3. n \in Valid(c) \cap Nat
    BY <1>1, <2>2
  <2> HIDE DEF n
  <2>4. Opens(Opened(c, disk, opens, ok), Valid(c), n)
    BY <2>1, <2>2, <2>3, <1>3
  <2>5. QED
    BY <1>5, <2>4 DEF Opens
<1>6. CASE c.kind = "EEPROM"
  <2> DEFINE k == IF c.hint = "Auto" THEN "64K" ELSE c.hint
             valid == {Sizes[kind].size : kind \in {"4K", "64K"}}
  <2>1. Opened(c, disk, opens, ok) = OpenOrCreate(disk, valid, Sizes[k].size, may, ok)
    BY <1>6 DEF Opened, EEPROMOpened, may
  <2>2. Valid(c) = valid
    BY <1>6 DEF Valid
  <2>3. k \in {"4K", "64K"}
    BY <1>6, CartridgesAssumption
  <2>4. Sizes[k].size \in valid \cap Nat
    BY <2>3, <1>1
  <2> HIDE DEF k, valid
  <2>5. Opens(Opened(c, disk, opens, ok), Valid(c), Sizes[k].size)
    BY <2>1, <2>2, <2>4, <1>3
  <2>6. QED
    BY <2>5 DEF Opens, k
<1>7. CASE c.kind \notin {"SRAM", "FLASH", "EEPROM"}
  <2>1. Opened(c, disk, opens, ok) = NewInMemory(0, disk)
    BY <1>7 DEF Opened
  <2>2. Valid(c) = {0}
    BY <1>7 DEF Valid
  <2>3. QED
    BY <1>7, <2>1, <2>2, NewInMemoryGood DEF Fits
<1>8. QED
  BY <1>4, <1>5, <1>6, <1>7
-----------------------------------------------------------------------------
\* The invariant holds when the machine is first started.
LEMMA InvInit == Init => Inv
<1> SUFFICES ASSUME Init PROVE Inv
  OBVIOUS
<1>1. cart \in Cartridges /\ chip = cart.chip
  BY DEF Init
<1>2. IsFile(cart.disk)
  BY <1>1, CartridgesAssumption DEF IsFile
<1>3. PICK opens \in BOOLEAN, ok \in BOOLEAN : store = Opened(cart, cart.disk, opens, ok)
  BY DEF Init
<1>4. Good(store) /\ Fits(store, Valid(cart))
  BY <1>1, <1>2, <1>3, OpenedGood
<1>5. QED
  BY <1>1, <1>4, CartridgesAssumption DEF Inv

\* What a step does to a store: cells, and never its shape, but that it may
\* lose the file.
Kept == Good(store') /\ (Fits(store, Valid(cart)) => Fits(store', Valid(cart)))

\* Setting cells keeps a store good, and its size.
LEMMA MemorySetKeeps ==
  ASSUME Good(store), NEW span, NEW value, NEW ok \in BOOLEAN,
         store' = MemorySet(store, span, value, ok)
  PROVE  Kept
<1>1. Good(store') /\ SameShape(store, store')
  BY MemorySetGood
<1>2. QED
  BY <1>1 DEF Kept, Fits, Size, SameShape

\* So does leaving it alone, and a panic.
LEMMA UnchangedKeeps ==
  ASSUME Good(store), store' = store
  PROVE  Kept
BY DEF Kept

\* A panic changes neither the memory nor the file.
LEMMA PanicKeeps ==
  ASSUME Good(store), store' = Panicked(store)
  PROVE  Kept
<1>1. store' = [memory |-> store.memory, stream |-> store.stream, disk |-> store.disk,
                missed |-> store.missed, panicked |-> TRUE]
  BY StoreChanged DEF Panicked, Good
<1>2. QED
  BY <1>1 DEF Kept, Good, IsStore, MirrorsBut, Fits, Size

\* A store to a FLASH chip keeps it good.
LEMMA FlashWriteGood ==
  ASSUME Good(store), NEW addr, NEW value, NEW ok \in BOOLEAN, FlashWrite(addr, value, ok)
  PROVE  Kept
<1>1. CASE UNCHANGED store
  BY <1>1 DEF Kept
<1>2. CASE HandleCommand(flash, addr, value, ok)
  BY <1>2, MemorySetKeeps, UnchangedKeeps DEF HandleCommand
<1>3. CASE HandleExtended(flash, addr, value, ok)
  BY <1>3, MemorySetKeeps, UnchangedKeeps DEF HandleExtended, Write
<1>4. QED
  BY <1>1, <1>2, <1>3 DEF FlashWrite

\* So does a bit that an EEPROM takes.
LEMMA EEPROMWriteGood ==
  ASSUME Good(store), NEW value, NEW ok \in BOOLEAN, EEPROMWrite(value, ok)
  PROVE  Kept
<1>1. CASE UNCHANGED store
  BY <1>1 DEF Kept
<1>2. CASE \E span : store' = Cleared(store, span, ok)
  BY <1>2, MemorySetKeeps DEF Cleared
<1>3. CASE \E at, with : store' = Write(store, at, with, ok)
  BY <1>3, MemorySetKeeps DEF Write
<1>4. UNCHANGED store \/ (\E span : store' = Cleared(store, span, ok))
        \/ (\E at, with : store' = Write(store, at, with, ok))
  BY DEF EEPROMWrite
<1>5. QED
  BY <1>1, <1>2, <1>3, <1>4

\* The size that a transfer tells makes another good memory.
LEMMA SetSizeHintGood ==
  ASSUME Good(store), NEW e, SetSizeHint(e, chip), chip \in {"4K", "64K"}, cart.kind = "EEPROM"
  PROVE  Kept
<1>1. Sizes[chip].size \in Nat
  BY EepromAssumption DEF EepromGeometry
<1>2. IsFile(store.disk)
  BY DEF Good, IsStore, IsFile
<1>3. QED
  BY <1>1, <1>2, NewInMemoryGood DEF SetSizeHint, Kept, Fits, Valid

\* Every step keeps the invariant.
LEMMA InvNext == Inv /\ [Next]_vars => Inv'
<1> SUFFICES ASSUME Inv, [Next]_vars PROVE Inv'
  OBVIOUS
<1> USE DEF Inv
<1>0. ASSUME Kept, cart' = cart, chip' = chip
      PROVE  Inv'
  <2>1. Valid(cart') = Valid(cart)
    BY <1>0 DEF Valid
  <2>2. Fits(store', Valid(cart'))
    BY <1>0, <2>1 DEF Kept
  <2>3. QED
    BY <1>0, <2>2 DEF Kept
<1>10. store' = store => Kept
  BY DEF Kept
<1>1. CASE UNCHANGED vars
  BY <1>0, <1>1, <1>10 DEF vars, eepromVars
<1>2. CASE /\ Others("SRAM") /\ UNCHANGED <<flashVars, eepromVars, gpioVars>>
           /\ \E i \in Cell0, value \in {0, Erased}, ok \in BOOLEAN : SRAMWrite(i, value, ok)
  <2>1. Kept
    BY <1>2, MemorySetKeeps DEF SRAMWrite, Write
  <2>2. QED
    BY <1>0, <1>2, <2>1 DEF Others, eepromVars
<1>3. CASE Others("FLASH") /\ UNCHANGED <<eepromVars, gpioVars>> /\ FlashNext
  <2>1. ASSUME \E cmd \in Command : Start(cmd)
        PROVE  Kept
    BY <2>1, <1>10 DEF Start
  <2>2. ASSUME \E ok \in BOOLEAN : Send(ok)
        PROVE  Kept
    <3>1. \E addr, value : \E ok \in BOOLEAN : FlashWrite(addr, value, ok)
      BY <2>2 DEF Send
    <3>2. QED
      BY <3>1, FlashWriteGood
  <2>3. ASSUME GiveUp
        PROVE  Kept
    BY <2>3, <1>10 DEF GiveUp
  <2>4. Kept
    BY <1>3, <2>1, <2>2, <2>3 DEF FlashNext
  <2>5. QED
    BY <1>0, <1>3, <2>4 DEF Others, eepromVars
<1>4. CASE Others("EEPROM") /\ UNCHANGED <<flashVars, gpioVars>> /\ EepromNext
  <2>1. cart' = cart /\ chip \in {"4K", "64K"} /\ cart.kind = "EEPROM"
    BY <1>4 DEF Others
  <2>2. ASSUME NEW op, NEW block, NEW data, Begin(op, block, data)
        PROVE  Kept /\ chip' = chip
    BY <2>1, <2>2, SetSizeHintGood DEF Begin
  <2>3. ASSUME NEW ok \in BOOLEAN, Unit(ok)
        PROVE  Kept /\ chip' = chip
    BY <2>3, EEPROMWriteGood DEF Unit
  <2>4. ASSUME Answer
        PROVE  Kept /\ chip' = chip
    <3>1. store' = Panicked(store) \/ store' = store
      BY <2>4 DEF Answer
    <3>2. QED
      BY <2>4, <3>1, <1>10, PanicKeeps DEF Answer
  <2>5. ASSUME Ready
        PROVE  Kept /\ chip' = chip
    BY <2>5, <1>10 DEF Ready
  <2>6. Kept /\ chip' = chip
    BY <1>4, <2>2, <2>3, <2>4, <2>5 DEF EepromNext
  <2>7. QED
    BY <1>0, <2>1, <2>6
<1>5. CASE Others("GPIO") /\ UNCHANGED <<did, store, flashVars, eepromVars>> /\ GpioNext
  BY <1>0, <1>5, <1>10 DEF Others, eepromVars
<1>6. ASSUME NEW opens \in BOOLEAN, NEW ok \in BOOLEAN, Restart(opens, ok)
      PROVE  Inv'
  <2>1. IsFile(store.disk)
    BY DEF Good, IsStore
  <2>2. store' = Opened(cart, store.disk, opens, ok) /\ cart' = cart /\ chip' = chip
    BY <1>6 DEF Restart
  <2>3. Good(store') /\ Fits(store', Valid(cart))
    BY <2>1, <2>2, OpenedGood
  <2>4. QED
    BY <1>0, <2>2, <2>3 DEF Kept
<1>7. CASE CopyState
  BY <1>0, <1>7, <1>10 DEF CopyState, eepromVars
<1>8. ASSUME NEW ok \in BOOLEAN, LoadState(ok)
      PROVE  Inv'
  <2>1. store' = MemoryLoaded(store, saved.memory, ok) /\ cart' = cart /\ chip' = chip
    BY <1>8 DEF LoadState
  <2>2. Good(store') /\ SameShape(store, store')
    BY <2>1, MemoryLoadedGood
  <2>3. QED
    BY <1>0, <2>1, <2>2 DEF Kept, Fits, Size, SameShape
<1>9. QED
  BY <1>1, <1>2, <1>3, <1>4, <1>5, <1>6, <1>7, <1>8 DEF Next

\* The invariant holds of every behaviour.
LEMMA InvHolds == Spec => []Inv
<1>1. QED
  BY InvInit, InvNext, PTL DEF Spec

\* At every moment the file is what the memory is, but for the cells whose
\* write failed, for chips and files of any size.
THEOREM FileIsMirrored == Spec => []FileMirrorsMemory
<1>1. Inv => FileMirrorsMemory
  BY DEF Inv, Good, MirrorsBut, FileMirrorsMemory
<1>2. QED
  BY InvHolds, <1>1, PTL
-----------------------------------------------------------------------------
\* A file that mirrors a memory of its size is that memory.
LEMMA FileIsMemory ==
  ASSUME NEW s, Good(s), s.stream, s.missed = {}
  PROVE  s.disk = s.memory
<1>1. DOMAIN s.disk = DOMAIN s.memory /\ \A i \in DOMAIN s.memory : s.disk[i] = s.memory[i]
  BY DEF Good, IsStore, MirrorsBut
<1>2. s.disk = [i \in DOMAIN s.disk |-> s.disk[i]] /\ s.memory = [i \in DOMAIN s.memory |-> s.memory[i]]
  BY DEF Good, IsStore, IsFile
<1>3. QED
  BY <1>1, <1>2

\* Whatever a program left in a chip that has a file is there again when the
\* machine has started again: the file is taken over, since it has a size that
\* no write, load or panic has changed.
THEOREM NothingSavedIsLost == Spec => SavesSurvive
<1>1. ASSUME Inv, [Next]_vars, restarts' # restarts, store.stream, store'.stream, store.missed = {}
      PROVE  store'.memory = store.memory
  <2>1. PICK opens \in BOOLEAN, ok \in BOOLEAN : Restart(opens, ok)
    BY <1>1 DEF Next, vars, Others, CopyState, LoadState
  <2>2. store' = Opened(cart, store.disk, opens, ok)
    BY <2>1 DEF Restart
  <2>3. IsFile(store.disk) /\ store.disk = store.memory
    BY <1>1, FileIsMemory DEF Inv, Good, IsStore
  <2>4. cart \in Cartridges /\ Cardinality(DOMAIN store.disk) \in Valid(cart)
    BY <1>1, <2>3 DEF Inv, Fits, Size
  <2>5. QED
    BY <1>1, <2>2, <2>3, <2>4, OpenedGood
<1>2. Inv /\ [Next]_vars =>
        [restarts' # restarts /\ store.stream /\ store'.stream /\ store.missed = {}
           => store'.memory = store.memory]_vars
  BY <1>1
<1>3. QED
  BY InvHolds, <1>2, PTL DEF Spec, SavesSurvive
-----------------------------------------------------------------------------
\* The stores of each command, one by one: the preamble, the command, and its
\* argument or another preamble and what is to be erased.
Sends(cmd, n) ==
  /\ Len(Stores(cmd)) = n
  /\ Stores(cmd)[1] = <<Unlock1, First>> /\ Stores(cmd)[2] = <<Unlock2, Second>>

\* Every command is one of these lists.
LEMMA StoresOf ==
  ASSUME NEW cmd
  PROVE  /\ cmd.op = "Program" =>
              /\ Sends(cmd, 4) /\ Stores(cmd)[3] = <<Unlock1, cmdWriteByte>>
              /\ Stores(cmd)[4] = <<cmd.at, cmd.value>>
         /\ cmd.op = "SelectBank" =>
              /\ Sends(cmd, 4) /\ Stores(cmd)[3] = <<Unlock1, cmdSelectBank>>
              /\ Stores(cmd)[4] = <<0, cmd.bank>>
         /\ cmd.op \in {"EraseSector", "EraseChip"} =>
              /\ Sends(cmd, 6) /\ Stores(cmd)[3] = <<Unlock1, cmdErase>>
              /\ Stores(cmd)[4] = <<Unlock1, First>> /\ Stores(cmd)[5] = <<Unlock2, Second>>
              /\ Stores(cmd)[6] = IF cmd.op = "EraseSector" THEN <<cmd.at, cmdEraseSector>>
                                                            ELSE <<Unlock1, cmdEraseChip>>
         /\ cmd.op = "ReadChipID" => Sends(cmd, 3) /\ Stores(cmd)[3] = <<Unlock1, cmdReadChipID>>
         /\ cmd.op = "FinishChipID" => Sends(cmd, 3) /\ Stores(cmd)[3] = <<Unlock1, cmdFinishChipID>>
<1>1. CASE cmd.op = "Program"
  BY <1>1 DEF Stores, Preamble, Sends
<1>2. CASE cmd.op = "SelectBank"
  BY <1>2 DEF Stores, Preamble, Sends
<1>3. CASE cmd.op = "EraseSector"
  BY <1>3 DEF Stores, Preamble, Sends
<1>4. CASE cmd.op = "EraseChip"
  BY <1>4 DEF Stores, Preamble, Sends
<1>5. CASE cmd.op = "ReadChipID"
  BY <1>5 DEF Stores, Preamble, Sends
<1>6. CASE cmd.op = "FinishChipID"
  BY <1>6 DEF Stores, Preamble, Sends
<1>7. QED
  BY <1>1, <1>2, <1>3, <1>4, <1>5, <1>6

\* Every store of a command is in the bank the chip shows.
LEMMA StoreInBank ==
  ASSUME NEW cmd \in Command, NEW k \in 1 .. Len(Stores(cmd))
  PROVE  Stores(cmd)[k][1] \in 0 .. BankSize - 1 /\ Stores(cmd)[k][2] \in Nat
<1> DEFINE InBank(s) == s[1] \in 0 .. BankSize - 1 /\ s[2] \in Nat
<1>0. \A a \in 0 .. BankSize - 1, v \in Nat : InBank(<<a, v>>)
  OBVIOUS
<1> HIDE DEF InBank
<1>1. cmd.op \in {"Program", "SelectBank", "EraseSector", "EraseChip", "ReadChipID", "FinishChipID"}
  BY FlashAssumption DEF FlashCommands
<1>2. /\ 0 \in 0 .. BankSize - 1 /\ Unlock1 \in 0 .. BankSize - 1 /\ Unlock2 \in 0 .. BankSize - 1
  BY FlashAssumption DEF FlashGeometry
<1>3. /\ {First, Second, cmdErase, cmdEraseSector, cmdEraseChip} \subseteq Nat
      /\ {cmdWriteByte, cmdSelectBank, cmdReadChipID, cmdFinishChipID} \subseteq Nat
  BY DEF First, Second, cmdErase, cmdEraseSector, cmdEraseChip, cmdWriteByte, cmdSelectBank,
         cmdReadChipID, cmdFinishChipID
<1>4. InBank(<<Unlock1, First>>) /\ InBank(<<Unlock2, Second>>)
  BY <1>0, <1>2, <1>3
<1>5. CASE cmd.op = "Program"
  <2>1. Sends(cmd, 4) /\ Stores(cmd)[3] = <<Unlock1, cmdWriteByte>> /\ Stores(cmd)[4] = <<cmd.at, cmd.value>>
    BY <1>5, StoresOf
  <2>2. InBank(<<Unlock1, cmdWriteByte>>)
    BY <1>0, <1>2, <1>3
  <2>3. cmd.at \in 0 .. BankSize - 1 /\ cmd.value \in Nat
    BY <1>5, FlashAssumption, CellAssumption DEF FlashCommands
  <2>4. InBank(<<cmd.at, cmd.value>>)
    BY <2>3, <1>0
  <2>5. InBank(Stores(cmd)[k])
    BY <2>1, <2>2, <2>4, <1>4 DEF Sends
  <2>6. QED
    BY <2>5 DEF InBank
<1>6. CASE cmd.op = "SelectBank"
  <2>1. Sends(cmd, 4) /\ Stores(cmd)[3] = <<Unlock1, cmdSelectBank>> /\ Stores(cmd)[4] = <<0, cmd.bank>>
    BY <1>6, StoresOf
  <2>2. InBank(<<Unlock1, cmdSelectBank>>)
    BY <1>0, <1>2, <1>3
  <2>3. cmd.bank \in {0, 1}
    BY <1>6, FlashAssumption DEF FlashCommands
  <2>7. cmd.bank \in Nat
    BY <2>3
  <2>4. InBank(<<0, cmd.bank>>)
    BY <2>7, <1>0, <1>2
  <2>5. InBank(Stores(cmd)[k])
    BY <2>1, <2>2, <2>4, <1>4 DEF Sends
  <2>6. QED
    BY <2>5 DEF InBank
<1>7. CASE cmd.op \in {"EraseSector", "EraseChip"}
  <2> DEFINE last == IF cmd.op = "EraseSector" THEN <<cmd.at, cmdEraseSector>>
                                               ELSE <<Unlock1, cmdEraseChip>>
  <2>1. /\ Sends(cmd, 6) /\ Stores(cmd)[3] = <<Unlock1, cmdErase>>
        /\ Stores(cmd)[4] = <<Unlock1, First>> /\ Stores(cmd)[5] = <<Unlock2, Second>>
        /\ Stores(cmd)[6] = last
    BY <1>7, StoresOf
  <2>2. InBank(<<Unlock1, cmdErase>>)
    BY <1>0, <1>2, <1>3
  <2>3. cmd.op = "EraseSector" => cmd.at \in 0 .. BankSize - 1
    BY FlashAssumption DEF FlashCommands
  <2>4. InBank(last)
    BY <2>3, <1>0, <1>2, <1>3
  <2> HIDE DEF last
  <2>5. InBank(Stores(cmd)[k])
    BY <2>1, <2>2, <2>4, <1>4 DEF Sends
  <2>6. QED
    BY <2>5 DEF InBank
<1>8. CASE cmd.op \in {"ReadChipID", "FinishChipID"}
  <2>1. /\ Sends(cmd, 3)
        /\ Stores(cmd)[3] \in {<<Unlock1, cmdReadChipID>>, <<Unlock1, cmdFinishChipID>>}
    BY <1>8, StoresOf
  <2>2. InBank(<<Unlock1, cmdReadChipID>>) /\ InBank(<<Unlock1, cmdFinishChipID>>)
    BY <1>0, <1>2, <1>3
  <2>5. InBank(Stores(cmd)[k])
    BY <2>1, <2>2, <1>4 DEF Sends
  <2>6. QED
    BY <2>5 DEF InBank
<1>9. QED
  BY <1>1, <1>5, <1>6, <1>7, <1>8
-----------------------------------------------------------------------------
\* The fields of a FLASH, and the command of a program.
IsFlash(f) ==
  /\ f = [large |-> f.large, currentBank |-> f.currentBank, phase |-> f.phase,
          enableChipID |-> f.enableChipID, enableErase |-> f.enableErase,
          enableWrite |-> f.enableWrite, enableSelect |-> f.enableSelect]
  /\ f.currentBank \in {0, 1} /\ f.phase \in 0 .. 3

IsJob(j) ==
  /\ j = [cmd |-> j.cmd, sent |-> j.sent, lost |-> j.lost]
  /\ j # NoJob => j.cmd \in Command /\ j.sent \in 0 .. Len(Stores(j.cmd)) - 1

\* A chip with one bank has no other, and will not be told to take another.
FlashFits(f, size) == f.currentBank = 1 \/ f.enableSelect => size = 2 * BankSize

\* A FLASH whose fields are given is one.
FlashOf(l, b, p, i, e, w, s) ==
  [large |-> l, currentBank |-> b, phase |-> p, enableChipID |-> i, enableErase |-> e,
   enableWrite |-> w, enableSelect |-> s]

\* It is one with any flags.
LEMMA FlashFields ==
  ASSUME NEW l, NEW b \in {0, 1}, NEW p \in 0 .. 3, NEW i, NEW e, NEW w, NEW s
  PROVE  IsFlash(FlashOf(l, b, p, i, e, w, s))
  BY DEF IsFlash, FlashOf

\* What becomes of the fields that a store sets.
LEMMA FlashSet ==
  ASSUME NEW f, IsFlash(f)
  PROVE  /\ \A p : [f EXCEPT !.phase = p] =
              FlashOf(f.large, f.currentBank, p, f.enableChipID, f.enableErase, f.enableWrite, f.enableSelect)
         /\ \A p, i : [f EXCEPT !.enableChipID = i, !.phase = p] =
              FlashOf(f.large, f.currentBank, p, i, f.enableErase, f.enableWrite, f.enableSelect)
         /\ \A p, e : [f EXCEPT !.enableErase = e, !.phase = p] =
              FlashOf(f.large, f.currentBank, p, f.enableChipID, e, f.enableWrite, f.enableSelect)
         /\ \A p, w : [f EXCEPT !.enableWrite = w, !.phase = p] =
              FlashOf(f.large, f.currentBank, p, f.enableChipID, f.enableErase, w, f.enableSelect)
         /\ \A p, s : [f EXCEPT !.enableSelect = s, !.phase = p] =
              FlashOf(f.large, f.currentBank, p, f.enableChipID, f.enableErase, f.enableWrite, s)
         /\ \A b, s, p : [f EXCEPT !.currentBank = b, !.enableSelect = s, !.phase = p] =
              FlashOf(f.large, b, p, f.enableChipID, f.enableErase, f.enableWrite, s)
         /\ f = FlashOf(f.large, f.currentBank, f.phase, f.enableChipID, f.enableErase, f.enableWrite,
                        f.enableSelect)
<1>1. f = FlashOf(f.large, f.currentBank, f.phase, f.enableChipID, f.enableErase, f.enableWrite,
                  f.enableSelect)
  BY DEF IsFlash, FlashOf
<1> DEFINE l == f.large
           b == f.currentBank
           p == f.phase
           i == f.enableChipID
           e == f.enableErase
           w == f.enableWrite
           s == f.enableSelect
<1>2. f = FlashOf(l, b, p, i, e, w, s)
  BY <1>1
<1> HIDE DEF l, b, p, i, e, w, s
<1>3. \A q : [f EXCEPT !.phase = q] = FlashOf(l, b, q, i, e, w, s)
  BY <1>2 DEF FlashOf
<1>4. ASSUME NEW q, NEW j
      PROVE  [f EXCEPT !.enableChipID = j, !.phase = q] = FlashOf(l, b, q, j, e, w, s)
  <2> DEFINE g == [f EXCEPT !.enableChipID = j]
  <2>1. [f EXCEPT !.enableChipID = j, !.phase = q] = [g EXCEPT !.phase = q]
    OBVIOUS
  <2>2. g = FlashOf(l, b, p, j, e, w, s)
    BY <1>2 DEF FlashOf
  <2> HIDE DEF g
  <2>3. [g EXCEPT !.phase = q] = FlashOf(l, b, q, j, e, w, s)
    BY <2>2 DEF FlashOf
  <2>4. QED
    BY <2>1, <2>3
<1>5. ASSUME NEW q, NEW j
      PROVE  [f EXCEPT !.enableErase = j, !.phase = q] = FlashOf(l, b, q, i, j, w, s)
  <2> DEFINE g == [f EXCEPT !.enableErase = j]
  <2>1. [f EXCEPT !.enableErase = j, !.phase = q] = [g EXCEPT !.phase = q]
    OBVIOUS
  <2>2. g = FlashOf(l, b, p, i, j, w, s)
    BY <1>2 DEF FlashOf
  <2> HIDE DEF g
  <2>3. [g EXCEPT !.phase = q] = FlashOf(l, b, q, i, j, w, s)
    BY <2>2 DEF FlashOf
  <2>4. QED
    BY <2>1, <2>3
<1>6. ASSUME NEW q, NEW j
      PROVE  [f EXCEPT !.enableWrite = j, !.phase = q] = FlashOf(l, b, q, i, e, j, s)
  <2> DEFINE g == [f EXCEPT !.enableWrite = j]
  <2>1. [f EXCEPT !.enableWrite = j, !.phase = q] = [g EXCEPT !.phase = q]
    OBVIOUS
  <2>2. g = FlashOf(l, b, p, i, e, j, s)
    BY <1>2 DEF FlashOf
  <2> HIDE DEF g
  <2>3. [g EXCEPT !.phase = q] = FlashOf(l, b, q, i, e, j, s)
    BY <2>2 DEF FlashOf
  <2>4. QED
    BY <2>1, <2>3
<1>7. ASSUME NEW q, NEW j
      PROVE  [f EXCEPT !.enableSelect = j, !.phase = q] = FlashOf(l, b, q, i, e, w, j)
  <2> DEFINE g == [f EXCEPT !.enableSelect = j]
  <2>1. [f EXCEPT !.enableSelect = j, !.phase = q] = [g EXCEPT !.phase = q]
    OBVIOUS
  <2>2. g = FlashOf(l, b, p, i, e, w, j)
    BY <1>2 DEF FlashOf
  <2> HIDE DEF g
  <2>3. [g EXCEPT !.phase = q] = FlashOf(l, b, q, i, e, w, j)
    BY <2>2 DEF FlashOf
  <2>4. QED
    BY <2>1, <2>3
<1>8. ASSUME NEW c, NEW j, NEW q
      PROVE  [f EXCEPT !.currentBank = c, !.enableSelect = j, !.phase = q] = FlashOf(l, c, q, i, e, w, j)
  <2> DEFINE g == [f EXCEPT !.currentBank = c]
             h == [g EXCEPT !.enableSelect = j]
  <2>1. [f EXCEPT !.currentBank = c, !.enableSelect = j, !.phase = q] = [h EXCEPT !.phase = q]
    OBVIOUS
  <2>2. g = FlashOf(l, c, p, i, e, w, s)
    BY <1>2 DEF FlashOf
  <2> HIDE DEF g
  <2>3. h = FlashOf(l, c, p, i, e, w, j)
    BY <2>2 DEF FlashOf
  <2> HIDE DEF h
  <2>4. [h EXCEPT !.phase = q] = FlashOf(l, c, q, i, e, w, j)
    BY <2>3 DEF FlashOf
  <2>5. QED
    BY <2>1, <2>4
<1>9. QED
  BY <1>2, <1>3, <1>4, <1>5, <1>6, <1>7, <1>8 DEF l, b, p, i, e, w, s

\* The selection alone, for a prover that needs no more.
LEMMA SelectSet ==
  ASSUME NEW f, IsFlash(f), NEW p, NEW b
  PROVE  [f EXCEPT !.enableSelect = b, !.phase = p] =
            FlashOf(f.large, f.currentBank, p, f.enableChipID, f.enableErase, f.enableWrite, b)
<1>1. \A q, s : [f EXCEPT !.enableSelect = s, !.phase = q] =
        FlashOf(f.large, f.currentBank, q, f.enableChipID, f.enableErase, f.enableWrite, s)
  BY FlashSet, Zenon
<1>2. QED
  BY <1>1, Zenon

\* The chip after each command.
LEMMA CommandedIs ==
  ASSUME NEW f, IsFlash(f)
  PROVE  /\ Commanded(f, cmdReadChipID) =
              FlashOf(f.large, f.currentBank, 0, TRUE, f.enableErase, f.enableWrite, f.enableSelect)
         /\ Commanded(f, cmdFinishChipID) =
              FlashOf(f.large, f.currentBank, 0, FALSE, f.enableErase, f.enableWrite, f.enableSelect)
         /\ Commanded(f, cmdErase) =
              FlashOf(f.large, f.currentBank, 0, f.enableChipID, TRUE, f.enableWrite, f.enableSelect)
         /\ Commanded(f, cmdEraseChip) =
              FlashOf(f.large, f.currentBank, 0, f.enableChipID, FALSE, f.enableWrite, f.enableSelect)
         /\ Commanded(f, cmdWriteByte) =
              FlashOf(f.large, f.currentBank, 3, f.enableChipID, f.enableErase, TRUE, f.enableSelect)
         /\ f.large => Commanded(f, cmdSelectBank) =
              FlashOf(f.large, f.currentBank, 3, f.enableChipID, f.enableErase, f.enableWrite, TRUE)
         /\ ~f.large => Commanded(f, cmdSelectBank) =
              FlashOf(f.large, f.currentBank, 0, f.enableChipID, f.enableErase, f.enableWrite, f.enableSelect)
         /\ \A value : value \notin {cmdReadChipID, cmdFinishChipID, cmdErase, cmdEraseChip, cmdWriteByte, cmdSelectBank} =>
              Commanded(f, value) = f
<1> USE DEF cmdReadChipID, cmdFinishChipID, cmdErase, cmdEraseChip, cmdWriteByte, cmdSelectBank
<1>1. Commanded(f, cmdReadChipID) = FlashOf(f.large, f.currentBank, 0, TRUE, f.enableErase, f.enableWrite, f.enableSelect)
  <2>1. Commanded(f, cmdReadChipID) = [f EXCEPT !.enableChipID = TRUE, !.phase = 0]
    BY DEF Commanded
  <2>2. QED
    BY <2>1, FlashSet, Zenon
<1>2. Commanded(f, cmdFinishChipID) = FlashOf(f.large, f.currentBank, 0, FALSE, f.enableErase, f.enableWrite, f.enableSelect)
  <2>1. Commanded(f, cmdFinishChipID) = [f EXCEPT !.enableChipID = FALSE, !.phase = 0]
    BY DEF Commanded
  <2>2. QED
    BY <2>1, FlashSet, Zenon
<1>3. Commanded(f, cmdErase) = FlashOf(f.large, f.currentBank, 0, f.enableChipID, TRUE, f.enableWrite, f.enableSelect)
  <2>1. Commanded(f, cmdErase) = [f EXCEPT !.enableErase = TRUE, !.phase = 0]
    BY DEF Commanded
  <2>2. QED
    BY <2>1, FlashSet, Zenon
<1>4. Commanded(f, cmdEraseChip) = FlashOf(f.large, f.currentBank, 0, f.enableChipID, FALSE, f.enableWrite, f.enableSelect)
  <2>1. Commanded(f, cmdEraseChip) = [f EXCEPT !.enableErase = FALSE, !.phase = 0]
    BY DEF Commanded
  <2>2. QED
    BY <2>1, FlashSet, Zenon
<1>5. Commanded(f, cmdWriteByte) = FlashOf(f.large, f.currentBank, 3, f.enableChipID, f.enableErase, TRUE, f.enableSelect)
  <2>1. Commanded(f, cmdWriteByte) = [f EXCEPT !.enableWrite = TRUE, !.phase = 3]
    BY DEF Commanded
  <2>2. QED
    BY <2>1, FlashSet, Zenon
<1>6. ASSUME f.large
      PROVE  Commanded(f, cmdSelectBank) = FlashOf(f.large, f.currentBank, 3, f.enableChipID, f.enableErase, f.enableWrite, TRUE)
  <2>1. Commanded(f, cmdSelectBank) = [f EXCEPT !.enableSelect = TRUE, !.phase = 3]
    BY <1>6 DEF Commanded
  <2>2. QED
    BY <2>1, SelectSet, Zenon
<1>7. ASSUME ~f.large
      PROVE  Commanded(f, cmdSelectBank) = FlashOf(f.large, f.currentBank, 0, f.enableChipID, f.enableErase, f.enableWrite, f.enableSelect)
  <2>1. Commanded(f, cmdSelectBank) = [f EXCEPT !.phase = 0]
    BY <1>7 DEF Commanded
  <2>2. QED
    BY <2>1, FlashSet
<1>8. ASSUME NEW value, value \notin {cmdReadChipID, cmdFinishChipID, cmdErase, cmdEraseChip, cmdWriteByte, cmdSelectBank}
      PROVE  Commanded(f, value) = f
  BY <1>8 DEF Commanded
<1>9. QED
  BY <1>1, <1>2, <1>3, <1>4, <1>5, <1>6, <1>7, <1>8

\* A store changes no more of a chip than its fields.
LEMMA CommandedShape ==
  ASSUME NEW f, NEW value, IsFlash(f)
  PROVE  /\ IsFlash(Commanded(f, value))
         /\ Commanded(f, value).large = f.large
         /\ Commanded(f, value).currentBank = f.currentBank
         /\ Commanded(f, value).enableSelect => f.enableSelect \/ f.large
<1> DEFINE Shape(g) == /\ IsFlash(g) /\ g.large = f.large /\ g.currentBank = f.currentBank
                       /\ g.enableSelect => f.enableSelect \/ f.large
<1>1. \A p \in {0, 3} : \A i, e, w, s : (s => f.enableSelect \/ f.large) =>
        Shape(FlashOf(f.large, f.currentBank, p, i, e, w, s))
  <2>1. SUFFICES ASSUME NEW p \in {0, 3}, NEW i, NEW e, NEW w, NEW s, s => f.enableSelect \/ f.large
                 PROVE  Shape(FlashOf(f.large, f.currentBank, p, i, e, w, s))
    OBVIOUS
  <2>2. f.currentBank \in {0, 1} /\ p \in 0 .. 3
    BY DEF IsFlash
  <2>3. IsFlash(FlashOf(f.large, f.currentBank, p, i, e, w, s))
    BY <2>2, FlashFields
  <2>4. QED
    BY <2>1, <2>3 DEF FlashOf
<1>2. Shape(f)
  OBVIOUS
<1> HIDE DEF Shape
<1>3. \A p \in {0, 3} : \A i, e, w : Shape(FlashOf(f.large, f.currentBank, p, i, e, w, f.enableSelect))
  BY <1>1
<1>4. \A p \in {0, 3} : \A i, e, w : f.large => Shape(FlashOf(f.large, f.currentBank, p, i, e, w, TRUE))
  BY <1>1
<1>5. ASSUME value = cmdReadChipID
       PROVE  Shape(Commanded(f, value))
  <2>1. Commanded(f, cmdReadChipID) = FlashOf(f.large, f.currentBank, 0, TRUE, f.enableErase, f.enableWrite, f.enableSelect)
    BY CommandedIs, Zenon
  <2>2. Shape(FlashOf(f.large, f.currentBank, 0, TRUE, f.enableErase, f.enableWrite, f.enableSelect))
    BY <1>3
  <2>3. QED
    BY <1>5, <2>1, <2>2
<1>6. ASSUME value = cmdFinishChipID
       PROVE  Shape(Commanded(f, value))
  <2>1. Commanded(f, cmdFinishChipID) = FlashOf(f.large, f.currentBank, 0, FALSE, f.enableErase, f.enableWrite, f.enableSelect)
    BY CommandedIs, Zenon
  <2>2. Shape(FlashOf(f.large, f.currentBank, 0, FALSE, f.enableErase, f.enableWrite, f.enableSelect))
    BY <1>3
  <2>3. QED
    BY <1>6, <2>1, <2>2
<1>7. ASSUME value = cmdErase
       PROVE  Shape(Commanded(f, value))
  <2>1. Commanded(f, cmdErase) = FlashOf(f.large, f.currentBank, 0, f.enableChipID, TRUE, f.enableWrite, f.enableSelect)
    BY CommandedIs, Zenon
  <2>2. Shape(FlashOf(f.large, f.currentBank, 0, f.enableChipID, TRUE, f.enableWrite, f.enableSelect))
    BY <1>3
  <2>3. QED
    BY <1>7, <2>1, <2>2
<1>8. ASSUME value = cmdEraseChip
       PROVE  Shape(Commanded(f, value))
  <2>1. Commanded(f, cmdEraseChip) = FlashOf(f.large, f.currentBank, 0, f.enableChipID, FALSE, f.enableWrite, f.enableSelect)
    BY CommandedIs, Zenon
  <2>2. Shape(FlashOf(f.large, f.currentBank, 0, f.enableChipID, FALSE, f.enableWrite, f.enableSelect))
    BY <1>3
  <2>3. QED
    BY <1>8, <2>1, <2>2
<1>9. ASSUME value = cmdWriteByte
       PROVE  Shape(Commanded(f, value))
  <2>1. Commanded(f, cmdWriteByte) = FlashOf(f.large, f.currentBank, 3, f.enableChipID, f.enableErase, TRUE, f.enableSelect)
    BY CommandedIs, Zenon
  <2>2. Shape(FlashOf(f.large, f.currentBank, 3, f.enableChipID, f.enableErase, TRUE, f.enableSelect))
    BY <1>3
  <2>3. QED
    BY <1>9, <2>1, <2>2
<1>10. ASSUME value = cmdSelectBank /\ f.large
       PROVE  Shape(Commanded(f, value))
  <2>1. Commanded(f, cmdSelectBank) = FlashOf(f.large, f.currentBank, 3, f.enableChipID, f.enableErase, f.enableWrite, TRUE)
    BY <1>10, CommandedIs, Zenon
  <2>2. Shape(FlashOf(f.large, f.currentBank, 3, f.enableChipID, f.enableErase, f.enableWrite, TRUE))
    BY <1>4, <1>10
  <2>3. QED
    BY <1>10, <2>1, <2>2
<1>11. ASSUME value = cmdSelectBank /\ ~f.large
       PROVE  Shape(Commanded(f, value))
  <2>1. Commanded(f, cmdSelectBank) = FlashOf(f.large, f.currentBank, 0, f.enableChipID, f.enableErase, f.enableWrite, f.enableSelect)
    BY <1>11, CommandedIs, Zenon
  <2>2. Shape(FlashOf(f.large, f.currentBank, 0, f.enableChipID, f.enableErase, f.enableWrite, f.enableSelect))
    BY <1>3
  <2>3. QED
    BY <1>11, <2>1, <2>2
<1>12. ASSUME value \notin {cmdReadChipID, cmdFinishChipID, cmdErase, cmdEraseChip, cmdWriteByte, cmdSelectBank}
       PROVE  Shape(Commanded(f, value))
  <2>1. Commanded(f, value) = f
    BY <1>12, CommandedIs, Zenon
  <2>2. QED
    BY <1>2, <2>1
<1>13. Shape(Commanded(f, value))
  BY <1>5, <1>6, <1>7, <1>8, <1>9, <1>10, <1>11, <1>12
<1>14. QED
  BY <1>13 DEF Shape

\* What stays of a chip when a store sets only its phase, and with it one of
\* its flags.
LEMMA PhaseShape ==
  ASSUME NEW f, NEW p \in 0 .. 3, IsFlash(f)
  PROVE  LET g == [f EXCEPT !.phase = p] IN
         /\ IsFlash(g) /\ g.large = f.large /\ g.currentBank = f.currentBank
         /\ g.enableSelect = f.enableSelect
<1> DEFINE g == [f EXCEPT !.phase = p]
<1>1. g = FlashOf(f.large, f.currentBank, p, f.enableChipID, f.enableErase, f.enableWrite, f.enableSelect)
  BY FlashSet, Zenon
<1>2. f.currentBank \in {0, 1} /\ 0 \in 0 .. 3
  BY DEF IsFlash
<1> HIDE DEF g
<1>3. IsFlash(g)
  BY <1>1, <1>2, FlashFields
<1>4. QED
  BY <1>1, <1>3 DEF FlashOf, g

\* An erase leaves the chip, its size and its bank.
LEMMA EraseShape ==
  ASSUME NEW f, IsFlash(f)
  PROVE  LET g == [f EXCEPT !.enableErase = FALSE, !.phase = 0] IN
         /\ IsFlash(g) /\ g.large = f.large /\ g.currentBank = f.currentBank
         /\ g.enableSelect = f.enableSelect
<1> DEFINE g == [f EXCEPT !.enableErase = FALSE, !.phase = 0]
<1>1. g = FlashOf(f.large, f.currentBank, 0, f.enableChipID, FALSE, f.enableWrite, f.enableSelect)
  BY FlashSet, Zenon
<1>2. f.currentBank \in {0, 1} /\ 0 \in 0 .. 3
  BY DEF IsFlash
<1> HIDE DEF g
<1>3. IsFlash(g)
  BY <1>1, <1>2, FlashFields
<1>4. QED
  BY <1>1, <1>3 DEF FlashOf, g

\* So does a byte that was written.
LEMMA WrittenShape ==
  ASSUME NEW f, IsFlash(f)
  PROVE  LET g == [f EXCEPT !.enableWrite = FALSE, !.phase = 0] IN
         /\ IsFlash(g) /\ g.large = f.large /\ g.currentBank = f.currentBank
         /\ g.enableSelect = f.enableSelect
<1> DEFINE g == [f EXCEPT !.enableWrite = FALSE, !.phase = 0]
<1>1. g = FlashOf(f.large, f.currentBank, 0, f.enableChipID, f.enableErase, FALSE, f.enableSelect)
  BY FlashSet, Zenon
<1>2. f.currentBank \in {0, 1} /\ 0 \in 0 .. 3
  BY DEF IsFlash
<1> HIDE DEF g
<1>3. IsFlash(g)
  BY <1>1, <1>2, FlashFields
<1>4. QED
  BY <1>1, <1>3 DEF FlashOf, g

\* A selection takes one of the two banks.
LEMMA SelectedShape ==
  ASSUME NEW f, IsFlash(f), NEW value \in Nat
  PROVE  LET g == [f EXCEPT !.currentBank = value % 2, !.enableSelect = FALSE, !.phase = 0] IN
         IsFlash(g) /\ g.large = f.large /\ g.enableSelect = FALSE
<1>1. PICK b : b = value % 2
  OBVIOUS
<1>2. b \in {0, 1} /\ 0 \in 0 .. 3
  BY <1>1
<1> DEFINE g == [f EXCEPT !.currentBank = b, !.enableSelect = FALSE, !.phase = 0]
<1>3. g = FlashOf(f.large, b, 0, f.enableChipID, f.enableErase, f.enableWrite, FALSE)
  <2>1. \A c, t, q : [f EXCEPT !.currentBank = c, !.enableSelect = t, !.phase = q] =
          FlashOf(f.large, c, q, f.enableChipID, f.enableErase, f.enableWrite, t)
    BY FlashSet, Zenon
  <2>2. QED
    BY <2>1, Zenon
<1> HIDE DEF g
<1>4. IsFlash(g)
  BY <1>2, <1>3, FlashFields
<1>5. IsFlash(g) /\ g.large = f.large /\ g.enableSelect = FALSE
  BY <1>3, <1>4 DEF FlashOf
<1>6. QED
  BY <1>1, <1>5, Zenon DEF g

\* The cells of a bank, and those of a sector of it.
LEMMA PhysicalCells ==
  ASSUME NEW f, IsFlash(f), NEW size \in {BankSize, 2 * BankSize}, FlashFits(f, size),
         NEW addr \in 0 .. BankSize - 1
  PROVE  /\ Physical(f, addr) \in Cells(size)
         /\ addr % SectorSize = 0 => Sector(f, addr) \subseteq Cells(size)
<1>1. BankSize \in Nat \ {0} /\ SectorSize \in 1 .. BankSize /\ BankSize % SectorSize = 0
  BY FlashAssumption DEF FlashGeometry
<1>2. ASSUME NEW i \in 0 .. BankSize - 1
      PROVE  Physical(f, i) \in Cells(size)
  BY <1>1 DEF IsFlash, FlashFits, Physical, Cells
<1>3. ASSUME addr % SectorSize = 0
      PROVE  addr + SectorSize - 1 \in 0 .. BankSize - 1
  <2> DEFINE q == addr \div SectorSize
             n == BankSize \div SectorSize
             x == SectorSize * q
             y == SectorSize * n
  <2>1. addr = x /\ BankSize = y /\ q \in Nat /\ n \in Nat
    BY <1>1, <1>3
  <2>2. x \in Nat /\ y \in Nat
    BY <2>1, <1>1
  <2>3. q >= n => x >= y
    <3> HIDE DEF q, n
    <3>1. QED
      BY <2>1, <1>1
  <2>4. q + 1 <= n => x + SectorSize <= y
    <3> HIDE DEF q, n
    <3>1. QED
      BY <2>1, <1>1
  <2> HIDE DEF q, n, x, y
  <2>5. QED
    BY <2>1, <2>2, <2>3, <2>4, <1>1
<1>4. ASSUME addr % SectorSize = 0
      PROVE  Sector(f, addr) \subseteq Cells(size)
  <2>1. \A i \in addr .. addr + SectorSize - 1 : i \in 0 .. BankSize - 1
    BY <1>1, <1>3, <1>4
  <2>2. QED
    BY <1>2, <2>1 DEF Sector
<1>5. QED
  BY <1>2, <1>4

\* A chip has the size of its memory.
IsSized(f, size) == size \in {BankSize, 2 * BankSize} /\ (f.large <=> size = 2 * BankSize)

\* What a store does to a chip's fields, its memory's size and the machine.
KeepsFlash ==
  /\ IsFlash(flash') /\ flash'.large = flash.large /\ SameShape(store, store')
  /\ FlashFits(flash, Size(store)) =>
       FlashFits(flash', Size(store)) /\ store'.panicked = store.panicked

\* A store in the bank leaves a chip that fits its memory fitting it, and is
\* no panic.
LEMMA FlashWriteFits ==
  ASSUME Good(store), IsFlash(flash), IsSized(flash, Size(store)),
         NEW addr \in 0 .. BankSize - 1, NEW value \in Nat, NEW ok \in BOOLEAN,
         FlashWrite(addr, value, ok)
  PROVE  KeepsFlash
<1> DEFINE F == FlashFits(flash, Size(store))
<1>1. SameShape(store, store)
  BY DEF SameShape
<1>2. Size(store) \in {BankSize, 2 * BankSize} /\ DOMAIN store.memory = Cells(Size(store))
  BY StoreCells DEF IsSized
<1>3. ASSUME NEW span
      PROVE  /\ SameShape(store, MemorySet(store, span, Erased, ok))
             /\ span \subseteq DOMAIN store.memory =>
                  MemorySet(store, span, Erased, ok).panicked = store.panicked
  <2>1. SameShape(store, MemorySet(store, span, Erased, ok))
    BY MemorySetGood
  <2>2. ASSUME span \subseteq DOMAIN store.memory
        PROVE  MemorySet(store, span, Erased, ok).panicked = store.panicked
    BY <2>2, NoPanic
  <2>3. QED
    BY <2>1, <2>2
<1>4. CASE flash.phase \in {0, 1}
  <2>1. PICK p \in 0 .. 3 : flash' = [flash EXCEPT !.phase = p] /\ store' = store
    BY <1>4 DEF FlashWrite
  <2>2. /\ IsFlash(flash') /\ flash'.large = flash.large /\ flash'.currentBank = flash.currentBank
        /\ flash'.enableSelect = flash.enableSelect
    BY <2>1, PhaseShape
  <2>3. QED
    BY <2>1, <2>2, <1>1 DEF KeepsFlash, FlashFits
<1>5. CASE flash.phase = 2 /\ addr = Unlock1
  <2>1. /\ flash' = Commanded(flash, value)
        /\ store' = store \/ store' = MemorySet(store, DOMAIN store.memory, Erased, ok)
    BY <1>5 DEF FlashWrite, HandleCommand
  <2>2. /\ IsFlash(flash') /\ flash'.large = flash.large /\ flash'.currentBank = flash.currentBank
        /\ flash'.enableSelect => flash.enableSelect \/ flash.large
    BY <2>1, CommandedShape
  <2>3. SameShape(store, store') /\ store'.panicked = store.panicked
    BY <2>1, <1>1, <1>3
  <2>4. QED
    BY <2>2, <2>3 DEF KeepsFlash, FlashFits, IsSized
<1>6. CASE flash.phase = 2 /\ addr # Unlock1
  <2> DEFINE erases == flash.enableErase /\ addr % SectorSize = 0 /\ value = cmdEraseSector
  <2>1. CASE ~erases
    <3>1. flash' = flash /\ store' = store
      BY <1>6, <2>1 DEF FlashWrite, HandleCommand
    <3>2. QED
      BY <3>1, <1>1 DEF KeepsFlash, FlashFits
  <2>2. CASE erases
    <3>1. /\ flash' = [flash EXCEPT !.enableErase = FALSE, !.phase = 0]
          /\ store' = MemorySet(store, Sector(flash, addr), Erased, ok)
      BY <1>6, <2>2 DEF FlashWrite, HandleCommand
    <3>2. /\ IsFlash(flash') /\ flash'.large = flash.large /\ flash'.currentBank = flash.currentBank
          /\ flash'.enableSelect = flash.enableSelect
      BY <3>1, EraseShape
    <3>3. SameShape(store, store')
      BY <3>1, <1>3
    <3>4. F => Sector(flash, addr) \subseteq DOMAIN store.memory
      BY <1>2, <2>2, PhysicalCells
    <3>5. F => store'.panicked = store.panicked
      BY <3>1, <3>4, <1>3
    <3>6. QED
      BY <3>2, <3>3, <3>5 DEF KeepsFlash, FlashFits
  <2>3. QED
    BY <2>1, <2>2
<1>7. CASE flash.phase = 3 /\ flash.enableWrite
  <2>1. /\ flash' = [flash EXCEPT !.enableWrite = FALSE, !.phase = 0]
        /\ store' = MemorySet(store, {Physical(flash, addr)}, value, ok)
    BY <1>7 DEF FlashWrite, HandleExtended, Write
  <2>2. /\ IsFlash(flash') /\ flash'.large = flash.large /\ flash'.currentBank = flash.currentBank
        /\ flash'.enableSelect = flash.enableSelect
    BY <2>1, WrittenShape
  <2>3. SameShape(store, store')
    BY <2>1, MemorySetGood
  <2>4. F => {Physical(flash, addr)} \subseteq DOMAIN store.memory
    BY <1>2, PhysicalCells
  <2>5. ASSUME F
        PROVE  store'.panicked = store.panicked
    <3> DEFINE span == {Physical(flash, addr)}
    <3>1. span \in SUBSET DOMAIN store.memory
      BY <2>4, <2>5
    <3> HIDE DEF span
    <3>2. MemorySet(store, span, value, ok).panicked = store.panicked
      BY <3>1, NoPanic
    <3>3. QED
      BY <2>1, <3>2 DEF span
  <2>6. QED
    BY <2>2, <2>3, <2>5 DEF KeepsFlash, FlashFits
<1>8. CASE flash.phase = 3 /\ ~flash.enableWrite /\ flash.enableSelect /\ addr = 0
  <2>1. /\ flash' = [flash EXCEPT !.currentBank = value % 2, !.enableSelect = FALSE, !.phase = 0]
        /\ store' = store
    BY <1>8 DEF FlashWrite, HandleExtended
  <2>2. IsFlash(flash') /\ flash'.large = flash.large /\ flash'.enableSelect = FALSE
    BY <2>1, SelectedShape
  <2>3. QED
    BY <1>8, <2>1, <2>2, <1>1 DEF KeepsFlash, FlashFits
<1>9. CASE flash.phase = 3 /\ ~flash.enableWrite /\ ~(flash.enableSelect /\ addr = 0)
  <2>1. flash' = [flash EXCEPT !.phase = 0] /\ store' = store
    BY <1>9 DEF FlashWrite, HandleExtended
  <2>2. /\ IsFlash(flash') /\ flash'.large = flash.large /\ flash'.currentBank = flash.currentBank
        /\ flash'.enableSelect = flash.enableSelect
    <3>1. 0 \in 0 .. 3
      OBVIOUS
    <3>2. QED
      BY <2>1, <3>1, PhaseShape
  <2>3. QED
    BY <2>1, <2>2, <1>1 DEF KeepsFlash, FlashFits
<1>10. flash.phase \in 0 .. 3
  BY DEF IsFlash
<1>11. flash.phase \in {0, 1, 2, 3}
  BY <1>10
<1>12. QED
  BY <1>4, <1>5, <1>6, <1>7, <1>8, <1>9, <1>11
-----------------------------------------------------------------------------
\* A power of two counts the subsets of an interval, and one number more makes
\* every subset two.
LEMMA Powers ==
  ASSUME NEW n \in Nat
  PROVE  2 ^ n \in Nat /\ 2 ^ n >= 1 /\ 2 ^ (n + 1) = 2 * 2 ^ n
<1> DEFINE A == SUBSET (1 .. n)
           B == SUBSET (1 .. n + 1)
           T == {X \cup {n + 1} : X \in A}
           f == [X \in A |-> X \cup {n + 1}]
<1>1. IsFiniteSet(1 .. n) /\ Cardinality(1 .. n) = n  BY FS_Interval
<1>2. IsFiniteSet(A) /\ Cardinality(A) = 2 ^ n  BY <1>1, FS_SUBSET
<1>3. IsFiniteSet(1 .. n + 1) /\ Cardinality(1 .. n + 1) = n + 1  BY FS_Interval
<1>4. Cardinality(B) = 2 ^ (n + 1)  BY <1>3, FS_SUBSET
<1>5. \A X \in A : n + 1 \notin X  OBVIOUS
<1>6. B = A \cup T
  <2>1. ASSUME NEW X \in B PROVE X \in A \cup T
    <3>1. CASE n + 1 \notin X
      <4>1. X \subseteq 1 .. n  BY <3>1
      <4> QED  BY <4>1
    <3>2. CASE n + 1 \in X
      <4> DEFINE Y == X \ {n + 1}
      <4>1. Y \in A /\ X = Y \cup {n + 1}  BY <3>2
      <4> QED  BY <4>1
    <3> QED  BY <3>1, <3>2
  <2>2. ASSUME NEW X \in A PROVE X \in B /\ X \cup {n + 1} \in B  OBVIOUS
  <2>3. A \subseteq B /\ T \subseteq B  BY <2>2
  <2>4. B \subseteq A \cup T  BY <2>1, Zenon
  <2> HIDE DEF A, B, T
  <2> QED  BY <2>3, <2>4
<1>7. A \cap T = {}  BY <1>5
<1>8. ExistsBijection(A, T)
  <2>1. f \in [A -> T]  OBVIOUS
  <2>2. \A X, Y \in A : f[X] = f[Y] => X = Y
    <3> SUFFICES ASSUME NEW X \in A, NEW Y \in A, f[X] = f[Y] PROVE X = Y  OBVIOUS
    <3>1. X = f[X] \ {n + 1} /\ Y = f[Y] \ {n + 1}  BY <1>5
    <3> QED  BY <3>1
  <2>3. \A t \in T : \E X \in A : f[X] = t  OBVIOUS
  <2> HIDE DEF A, T, f
  <2>4. f \in Bijection(A, T)  BY <2>1, <2>2, <2>3 DEF Bijection, Injection, Surjection, IsInjective
  <2> QED  BY <2>4 DEF ExistsBijection
<1>9. IsFiniteSet(T) /\ Cardinality(T) = 2 ^ n  BY <1>2, <1>8, FS_Bijection
<1>10. Cardinality(A) \in Nat  BY <1>2, FS_CardinalityType
<1>11. Cardinality(B) = Cardinality(A) + Cardinality(T) - Cardinality(A \cap T)
  BY <1>2, <1>6, <1>9, FS_Union
<1>12. Cardinality(A \cap T) = 0  BY <1>7, FS_EmptySet
<1>13. Cardinality(A) >= 1
  <2>1. {} \in A  OBVIOUS
  <2>2. Cardinality(A) # 0  BY <1>2, <2>1, FS_EmptySet
  <2> QED  BY <1>10, <2>2
<1> HIDE DEF A, B, T
<1> QED  BY <1>2, <1>4, <1>9, <1>10, <1>11, <1>12, <1>13
-----------------------------------------------------------------------------
\* The states that the code combines flags to.
EepromStates ==
  {AcceptCommand, {"WriteMode", "GetAddress", "Writing", "EatDummy"}, {"ReadMode", "GetAddress", "EatDummy"},
   {"WriteMode", "Writing", "EatDummy"}, {"ReadMode", "EatDummy"}, {"WriteMode", "EatDummy"},
   Reading, Reading \cup {"DummyNibble"}, Busy}

\* In a block a chip has fewer bits behind it than the block has, and in a
\* word no more than it has received.
IsEeprom(e) ==
  /\ e = [size |-> e.size, detectSize |-> e.detectSize, state |-> e.state, address |-> e.address,
          serialBuffer |-> e.serialBuffer, transmittedBits |-> e.transmittedBits]
  /\ e.size \in {"4K", "64K"} /\ e.state \in EepromStates
  /\ e.address \in Nat /\ e.serialBuffer \in Nat /\ e.transmittedBits \in Nat
  /\ e.serialBuffer < 2 ^ e.transmittedBits
  /\ e.state \in {{"WriteMode", "Writing", "EatDummy"}, Reading} => e.transmittedBits < BlockBits

\* The block a chip is at is in its memory.
EepromFits(e, size) == e.address + BlockSize <= size

\* An address of as many bits as the chip takes is that of a block it has.
LEMMA AddressFits ==
  ASSUME NEW k \in {"4K", "64K"}, NEW n \in Nat, n < 2 ^ Sizes[k].bits
  PROVE  /\ (n * BlockSize) % Sizes["64K"].size \in Nat
         /\ ((n * BlockSize) % Sizes["64K"].size) + BlockSize <= Sizes[k].size
<1> DEFINE S == Sizes["64K"].size
           s == Sizes["4K"].size
           x == n * BlockSize
           a == x % S
           p == 2 ^ Sizes["4K"].bits
<1>1. /\ BlockSize \in Nat \ {0} /\ s \in Nat /\ S \in Nat /\ s < S /\ S % BlockSize = 0
      /\ Sizes["4K"].bits \in Nat /\ s = BlockSize * p
  BY EepromAssumption DEF EepromGeometry
<1>2. x \in Nat /\ p \in Nat /\ p >= 1
  BY <1>1, Powers
<1>3. CASE k = "4K"
  <2>1. n + 1 <= p
    BY <1>2, <1>3
  <2>2. x + BlockSize = (n + 1) * BlockSize
    BY <1>1
  <2> HIDE DEF p
  <2>3. (n + 1) * BlockSize <= p * BlockSize
    BY <1>1, <1>2, <2>1
  <2>4. x + BlockSize <= s
    BY <1>1, <1>2, <2>2, <2>3
  <2> HIDE DEF x, S, s
  <2>5. x % S = x
    BY <1>1, <1>2, <2>4
  <2>6. QED
    BY <1>3, <1>1, <1>2, <2>4, <2>5 DEF x, S, s
<1>4. CASE k = "64K"
  <2> DEFINE q == x \div S
             m == S \div BlockSize
             d == n - m * q
  <2>1. S = BlockSize * m /\ m \in Nat
    BY <1>1
  <2>2. S > 0
    BY <1>1
  <2>3. q \in Nat /\ x = S * q + a /\ a \in 0 .. S - 1
    <3> HIDE DEF x, S
    <3>1. QED
      BY <1>2, <1>1, <2>2
  <2> HIDE DEF q, m, a
  <2>4. a = BlockSize * d
    <3>1. (BlockSize * m) * q = BlockSize * (m * q)
      BY <1>1, <2>1, <2>3
    <3>2. BlockSize * d = BlockSize * n - BlockSize * (m * q)
      <4>1. m * q \in Int
        BY <2>1, <2>3
      <4> DEFINE y == m * q
      <4> HIDE DEF y
      <4>2. y \in Int => BlockSize * (n - y) = BlockSize * n - BlockSize * y
        BY <1>1
      <4>3. QED
        BY <4>1, <4>2 DEF y
    <3>3. S * q = BlockSize * (m * q)
      BY <2>1, <3>1
    <3>4. BlockSize * n = x
      BY <1>1
    <3>5. QED
      <4> DEFINE u == S * q
                 v == BlockSize * (m * q)
                 w == BlockSize * n
      <4>1. u \in Int /\ v \in Int /\ w \in Int
        BY <1>1, <2>1, <2>3
      <4>2. u = v /\ w = x /\ BlockSize * d = w - v /\ x = u + a
        BY <2>3, <3>2, <3>3, <3>4
      <4> HIDE DEF u, v, w, x
      <4>3. QED
        BY <4>1, <4>2, <2>3, <1>2
  <2>5. d \in Int
    BY <2>1, <2>3
  <2> HIDE DEF d
  <2>6. d < m
    <3>1. ASSUME d >= m PROVE FALSE
      <4>1. BlockSize * d >= BlockSize * m
        BY <3>1, <1>1, <2>1, <2>5
      <4>2. a >= S
        BY <4>1, <2>4, <2>1, Zenon
      <4> HIDE DEF S
      <4>3. QED
        BY <4>2, <2>3, <1>1
    <3>2. QED
      BY <3>1, <2>1, <2>5
  <2>7. BlockSize * (d + 1) <= BlockSize * m
    BY <2>6, <1>1, <2>1, <2>5
  <2>8. BlockSize * (d + 1) = BlockSize * d + BlockSize
    BY <1>1, <2>5
  <2>9. a + BlockSize <= S /\ a \in Nat
    BY <2>1, <2>3, <2>4, <2>7, <2>8
  <2>10. QED
    BY <1>4, <2>9 DEF a
<1>5. QED
  BY <1>3, <1>4

\* An EEPROM whose fields are given is one.
EepromOf(z, d, st, a, sb, t) ==
  [size |-> z, detectSize |-> d, state |-> st, address |-> a, serialBuffer |-> sb, transmittedBits |-> t]

\* A chip whose fields are given is one.
LEMMA EepromFields ==
  ASSUME NEW z \in {"4K", "64K"}, NEW d, NEW st \in EepromStates, NEW a \in Nat, NEW sb \in Nat,
         NEW t \in Nat, sb < 2 ^ t,
         st \in {{"WriteMode", "Writing", "EatDummy"}, Reading} => t < BlockBits
  PROVE  IsEeprom(EepromOf(z, d, st, a, sb, t))
  BY DEF IsEeprom, EepromOf

\* A chip that has begun a new word.
LEMMA FreshFields ==
  ASSUME NEW z \in {"4K", "64K"}, NEW d, NEW st \in EepromStates, NEW a \in Nat
  PROVE  IsEeprom(EepromOf(z, d, st, a, 0, 0))
<1>1. 2 ^ 0 >= 1
  BY Powers
<1>2. 0 < 2 ^ 0
  <2>1. 2 ^ 0 \in Nat
    BY Powers
  <2>2. QED
    BY <1>1, <2>1
<1>3. 0 < BlockBits
  <2>1. BlockSize \in Nat \ {0} /\ CellBits \in Nat \ {0}
    BY EepromAssumption DEF EepromGeometry
  <2>2. QED
    BY <2>1 DEF BlockBits
<1>4. QED
  BY <1>2, <1>3, EepromFields

\* What becomes of the fields that a bit sets.
LEMMA EepromIs ==
  ASSUME NEW e, IsEeprom(e)
  PROVE  e = EepromOf(e.size, e.detectSize, e.state, e.address, e.serialBuffer, e.transmittedBits)
  BY DEF IsEeprom, EepromOf

\* What becomes of the fields in each step of a chip.
LEMMA ResetOf ==
  ASSUME NEW z, NEW d, NEW st, NEW a, NEW sb, NEW t
  PROVE  ResetSerialBuffer(EepromOf(z, d, st, a, sb, t)) = EepromOf(z, d, st, a, 0, 0)
<1> DEFINE e == EepromOf(z, d, st, a, sb, t)
           g == [e EXCEPT !.serialBuffer = 0]
<1>1. ResetSerialBuffer(e) = [g EXCEPT !.transmittedBits = 0]
  BY DEF ResetSerialBuffer
<1>2. g = EepromOf(z, d, st, a, 0, t)
  BY DEF EepromOf
<1> HIDE DEF g
<1>3. [g EXCEPT !.transmittedBits = 0] = EepromOf(z, d, st, a, 0, 0)
  BY <1>2 DEF EepromOf
<1>4. QED
  BY <1>1, <1>3

\* Shifted, field by field.
LEMMA ShiftedOf ==
  ASSUME NEW z, NEW d, NEW st, NEW a, NEW sb, NEW t, NEW value
  PROVE  Shifted(EepromOf(z, d, st, a, sb, t), value) = EepromOf(z, d, st, a, 2 * sb + value, t + 1)
<1> DEFINE e == EepromOf(z, d, st, a, sb, t)
           g == [e EXCEPT !.serialBuffer = 2 * @ + value]
<1>1. Shifted(e, value) = [g EXCEPT !.transmittedBits = e.transmittedBits + 1]
  BY DEF Shifted
<1>2. g = EepromOf(z, d, st, a, 2 * sb + value, t) /\ e.transmittedBits = t
  BY DEF EepromOf
<1> HIDE DEF e, g
<1>3. [g EXCEPT !.transmittedBits = t + 1] = EepromOf(z, d, st, a, 2 * sb + value, t + 1)
  BY <1>2 DEF EepromOf
<1>4. QED
  BY <1>1, <1>2, <1>3 DEF e

\* Another state of the EEPROM.
LEMMA StateOf ==
  ASSUME NEW z, NEW d, NEW st, NEW a, NEW sb, NEW t, NEW new
  PROVE  [EepromOf(z, d, st, a, sb, t) EXCEPT !.state = new] = EepromOf(z, d, new, a, sb, t)
  BY DEF EepromOf

\* Another number of bits.
LEMMA CountOf ==
  ASSUME NEW z, NEW d, NEW st, NEW a, NEW sb, NEW t, NEW new
  PROVE  [EepromOf(z, d, st, a, sb, t) EXCEPT !.transmittedBits = new] = EepromOf(z, d, st, a, sb, new)
  BY DEF EepromOf

\* AddressTaken, field by field.
LEMMA AddressTakenOf ==
  ASSUME NEW z, NEW d, NEW st, NEW a, NEW sb, NEW t
  PROVE  AddressTaken(EepromOf(z, d, st, a, sb, t)) =
           EepromOf(z, d, st \ {"GetAddress"}, (sb * BlockSize) % Sizes["64K"].size, 0, 0)
<1> DEFINE e == EepromOf(z, d, st, a, sb, t)
           g == [e EXCEPT !.address = AddressOf(e)]
           to == (sb * BlockSize) % Sizes["64K"].size
<1>1. AddressTaken(e) = ResetSerialBuffer([g EXCEPT !.state = e.state \ {"GetAddress"}])
  BY DEF AddressTaken
<1>2. AddressOf(e) = to
  BY DEF AddressOf, EepromOf
<1> HIDE DEF to
<1>3. g = EepromOf(z, d, st, to, sb, t) /\ e.state = st
  BY <1>2 DEF EepromOf
<1> HIDE DEF e, g
<1>4. [g EXCEPT !.state = st \ {"GetAddress"}] = EepromOf(z, d, st \ {"GetAddress"}, to, sb, t)
  BY <1>3 DEF EepromOf
<1>5. QED
  BY <1>1, <1>3, <1>4, ResetOf DEF e, to

\* CommandTaken goes to one of three states.
LEMMA CommandTakenOf ==
  ASSUME NEW z, NEW d, NEW a, NEW sb, NEW t
  PROVE  \E st \in {AcceptCommand, {"WriteMode", "GetAddress", "Writing", "EatDummy"},
                     {"ReadMode", "GetAddress", "EatDummy"}} :
           CommandTaken(EepromOf(z, d, AcceptCommand, a, sb, t)) = EepromOf(z, d, st, a, 0, 0)
<1> DEFINE e == EepromOf(z, d, AcceptCommand, a, sb, t)
           st == CASE e.serialBuffer = 2 -> {"WriteMode", "GetAddress", "Writing", "EatDummy"}
                   [] e.serialBuffer = 3 -> {"ReadMode", "GetAddress", "EatDummy"}
                   [] OTHER -> e.state
<1>1. CommandTaken(e) = ResetSerialBuffer([e EXCEPT !.state = st])
  BY DEF CommandTaken
<1>2. e.state = AcceptCommand
  BY DEF EepromOf
<1>3. st \in {AcceptCommand, {"WriteMode", "GetAddress", "Writing", "EatDummy"},
              {"ReadMode", "GetAddress", "EatDummy"}}
  BY <1>2
<1> HIDE DEF st
<1>4. [e EXCEPT !.state = st] = EepromOf(z, d, st, a, sb, t)
  BY StateOf
<1>5. QED
  BY <1>1, <1>3, <1>4, ResetOf

\* A read leaves the address and the size.
LEMMA AfterReadFits ==
  ASSUME NEW e, IsEeprom(e)
  PROVE  /\ IsEeprom(AfterRead(e))
         /\ AfterRead(e).size = e.size /\ AfterRead(e).detectSize = e.detectSize
         /\ AfterRead(e).address = e.address
<1> DEFINE z == e.size
           d == e.detectSize
           st == e.state
           a == e.address
           sb == e.serialBuffer
           t == e.transmittedBits
           Shape(g) == IsEeprom(g) /\ g.size = z /\ g.detectSize = d /\ g.address = a
<1>1. e = EepromOf(z, d, st, a, sb, t)
  BY EepromIs
<1>2. /\ z \in {"4K", "64K"} /\ st \in EepromStates /\ a \in Nat /\ sb \in Nat /\ t \in Nat
      /\ sb < 2 ^ t /\ (st \in {{"WriteMode", "Writing", "EatDummy"}, Reading} => t < BlockBits)
  BY DEF IsEeprom
<1>3. Shape(e)
  OBVIOUS
<1>4. BlockBits \in Nat
  BY EepromAssumption DEF EepromGeometry, BlockBits
<1>5. sb < 2 ^ (t + 1)
  <2>1. 2 ^ t \in Nat /\ 2 ^ (t + 1) = 2 * 2 ^ t
    BY <1>2, Powers
  <2>2. QED
    BY <1>2, <2>1
<1> DEFINE n == [e EXCEPT !.transmittedBits = @ + 1]
<1> HIDE DEF z, d, st, a, sb, t
<1>6. n = EepromOf(z, d, st, a, sb, t + 1)
  <2>1. e.transmittedBits = t
    BY DEF t
  <2>2. QED
    BY <1>1, <2>1 DEF EepromOf
<1> HIDE DEF n
<1>12. e.state = st /\ n.state = st /\ n.transmittedBits = t + 1
  BY <1>1, <1>6 DEF EepromOf
<1>7. \A s \in EepromStates : Shape(EepromOf(z, d, s, a, 0, 0))
  <2>1. ASSUME NEW s \in EepromStates
        PROVE  Shape(EepromOf(z, d, s, a, 0, 0))
    <3>1. IsEeprom(EepromOf(z, d, s, a, 0, 0))
      BY <1>2, FreshFields
    <3>2. QED
      BY <3>1 DEF EepromOf
  <2>2. QED
    BY <2>1
<1>8. (st \in {{"WriteMode", "Writing", "EatDummy"}, Reading} => t + 1 < BlockBits) =>
        Shape(EepromOf(z, d, st, a, sb, t + 1))
  <2>1. ASSUME st \in {{"WriteMode", "Writing", "EatDummy"}, Reading} => t + 1 < BlockBits
        PROVE  Shape(EepromOf(z, d, st, a, sb, t + 1))
    <3>1. IsEeprom(EepromOf(z, d, st, a, sb, t + 1))
      BY <2>1, <1>2, <1>5, EepromFields
    <3>2. QED
      BY <3>1 DEF EepromOf
  <2>2. QED
    BY <2>1
<1>9. ASSUME "Reading" \notin st
      PROVE  Shape(AfterRead(e))
  <2>1. AfterRead(e) = e
    BY <1>9, <1>12 DEF AfterRead
  <2>2. QED
    BY <2>1, <1>3
<1>10. ASSUME "Reading" \in st, "DummyNibble" \in st
       PROVE  Shape(AfterRead(e))
  <2>1. st = Reading \cup {"DummyNibble"} /\ st \ {"DummyNibble"} = Reading
    BY <1>2, <1>10 DEF EepromStates, AcceptCommand, Reading, Busy
  <2>8. AfterRead(e) = IF n.transmittedBits = DummyBits
                       THEN ResetSerialBuffer([n EXCEPT !.state = @ \ {"DummyNibble"}]) ELSE n
    <3>1. {"Reading", "DummyNibble"} \subseteq e.state
      BY <1>10, <1>12
    <3>2. QED
      BY <3>1, Zenon DEF AfterRead, n
  <2>9. [n EXCEPT !.state = @ \ {"DummyNibble"}] = [n EXCEPT !.state = st \ {"DummyNibble"}]
    BY <1>12
  <2>2. AfterRead(e) = IF t + 1 = DummyBits
                       THEN ResetSerialBuffer([n EXCEPT !.state = st \ {"DummyNibble"}]) ELSE n
    BY <2>8, <2>9, <1>12
  <2>3. [n EXCEPT !.state = st \ {"DummyNibble"}] = EepromOf(z, d, st \ {"DummyNibble"}, a, sb, t + 1)
    BY <1>6, StateOf
  <2>4. Shape(ResetSerialBuffer([n EXCEPT !.state = st \ {"DummyNibble"}]))
    BY <2>1, <2>3, <1>7, ResetOf DEF EepromStates
  <2>5. st \notin {{"WriteMode", "Writing", "EatDummy"}, Reading}
    BY <1>10 DEF Reading
  <2>6. Shape(n)
    BY <1>6, <1>8, <2>5
  <2>7. QED
    BY <2>2, <2>4, <2>6
<1>11. ASSUME "Reading" \in st, "DummyNibble" \notin st
       PROVE  Shape(AfterRead(e))
  <2>1. st = Reading
    BY <1>2, <1>11 DEF EepromStates, AcceptCommand, Reading, Busy
  <2>2. AfterRead(e) = IF t + 1 = BlockBits
                       THEN ResetSerialBuffer([n EXCEPT !.state = AcceptCommand]) ELSE n
    BY <1>11, <1>12 DEF AfterRead, n
  <2>3. [n EXCEPT !.state = AcceptCommand] = EepromOf(z, d, AcceptCommand, a, sb, t + 1)
    BY <1>6, StateOf
  <2>4. Shape(ResetSerialBuffer([n EXCEPT !.state = AcceptCommand]))
    BY <2>3, <1>7, ResetOf DEF EepromStates
  <2>5. t + 1 # BlockBits => t + 1 < BlockBits
    BY <1>2, <1>4, <2>1
  <2>6. t + 1 # BlockBits => Shape(n)
    BY <1>6, <1>8, <2>5
  <2>7. QED
    BY <2>2, <2>4, <2>6
<1>13. Shape(AfterRead(e))
  BY <1>9, <1>10, <1>11
<1>14. QED
  BY <1>13 DEF z, d, a

\* What a bit does to a chip's fields, its memory's size and the machine.
KeepsEeprom ==
  /\ IsEeprom(eeprom') /\ eeprom'.size = eeprom.size /\ eeprom'.detectSize = eeprom.detectSize
  /\ SameShape(store, store')
  /\ EepromFits(eeprom, Size(store)) =>
       EepromFits(eeprom', Size(store)) /\ store'.panicked = store.panicked

\* A bit of a block is in one of its cells.
LEMMA BitInBlock ==
  ASSUME NEW t \in Nat, t < BlockBits
  PROVE  t \div CellBits \in 0 .. BlockSize - 1
<1> DEFINE q == t \div CellBits
           x == CellBits * q
           y == CellBits * BlockSize
<1>1. BlockSize \in Nat \ {0} /\ CellBits \in Nat \ {0} /\ BlockBits = BlockSize * CellBits
  BY EepromAssumption DEF EepromGeometry, BlockBits
<1>2. q \in Nat /\ CellBits * q <= t /\ t < CellBits * BlockSize
  BY <1>1
<1> HIDE DEF q
<1>3. q >= BlockSize => CellBits * q >= CellBits * BlockSize
  BY <1>1, <1>2
<1>4. x \in Nat /\ y \in Nat
  BY <1>1, <1>2
<1> HIDE DEF x, y
<1>5. q < BlockSize
  BY <1>1, <1>2, <1>3, <1>4 DEF x, y
<1>6. QED
  BY <1>1, <1>2, <1>5 DEF q

\* A bit that is taken leaves a chip that fits its memory fitting it, and is
\* no panic.
LEMMA EEPROMWriteFits ==
  ASSUME Good(store), IsEeprom(eeprom), Sizes[eeprom.size].size = Size(store),
         NEW value \in {0, 1}, NEW ok \in BOOLEAN, EEPROMWrite(value, ok)
  PROVE  KeepsEeprom
<1> DEFINE z == eeprom.size
           d == eeprom.detectSize
           st == eeprom.state
           a == eeprom.address
           sb == eeprom.serialBuffer
           t == eeprom.transmittedBits
           F == EepromFits(eeprom, Size(store))
           n == Shifted(eeprom, value)
           two == 2 * sb + value
           Shape(g) == IsEeprom(g) /\ g.size = z /\ g.detectSize = d
           W2 == {"WriteMode", "Writing", "EatDummy"}
           W1 == {"WriteMode", "GetAddress", "Writing", "EatDummy"}
           R1 == {"ReadMode", "GetAddress", "EatDummy"}
<1>1. eeprom = EepromOf(z, d, st, a, sb, t)
  BY EepromIs
<1>2. /\ z \in {"4K", "64K"} /\ st \in EepromStates /\ a \in Nat /\ sb \in Nat /\ t \in Nat
      /\ sb < 2 ^ t /\ (st \in {W2, Reading} => t < BlockBits)
  BY DEF IsEeprom
<1>3. /\ BlockBits \in Nat /\ BlockSize \in Nat \ {0} /\ CellBits \in Nat \ {0}
      /\ BlockBits = BlockSize * CellBits
  BY EepromAssumption DEF EepromGeometry, BlockBits
<1>4. two \in Nat /\ t + 1 \in Nat /\ two < 2 ^ (t + 1)
  <2>1. 2 ^ t \in Nat /\ 2 ^ (t + 1) = 2 * 2 ^ t
    BY <1>2, Powers
  <2>2. QED
    BY <1>2, <2>1
<1>5. Size(store) \in Nat /\ DOMAIN store.memory = Cells(Size(store)) /\ SameShape(store, store)
  BY StoreCells DEF SameShape
<1>6. eeprom.size = z /\ eeprom.state = st /\ eeprom.address = a /\ eeprom.transmittedBits = t
  OBVIOUS
<1>20. eeprom.detectSize = d
  OBVIOUS
<1> HIDE DEF z, d, st, a, sb, t
<1>7. n = EepromOf(z, d, st, a, two, t + 1)
  BY <1>1, ShiftedOf
<1>8. n.size = z /\ n.state = st /\ n.transmittedBits = t + 1 /\ n.serialBuffer = two
  BY <1>7 DEF EepromOf
<1> HIDE DEF n, two
<1>9. \A s \in EepromStates, to \in Nat :
         LET g == EepromOf(z, d, s, to, 0, 0) IN Shape(g) /\ g.address = to
  <2>1. ASSUME NEW s \in EepromStates, NEW to \in Nat
        PROVE  LET g == EepromOf(z, d, s, to, 0, 0) IN Shape(g) /\ g.address = to
    <3>1. IsEeprom(EepromOf(z, d, s, to, 0, 0))
      BY <1>2, FreshFields
    <3>2. QED
      BY <3>1 DEF EepromOf
  <2>2. QED
    BY <2>1
<1>10. (st \in {W2, Reading} => t + 1 < BlockBits) => Shape(n) /\ n.address = a
  <2>1. ASSUME st \in {W2, Reading} => t + 1 < BlockBits
        PROVE  Shape(EepromOf(z, d, st, a, two, t + 1))
    <3>1. IsEeprom(EepromOf(z, d, st, a, two, t + 1))
      BY <2>1, <1>2, <1>4, EepromFields
    <3>2. QED
      BY <3>1 DEF EepromOf
  <2>2. EepromOf(z, d, st, a, two, t + 1).address = a
    BY DEF EepromOf
  <2> HIDE DEF Shape
  <2>3. QED
    BY <2>1, <2>2, <1>7
<1> HIDE DEF Shape
<1>11. ASSUME store' = store, Shape(eeprom'), eeprom'.address = a
       PROVE  KeepsEeprom
  BY <1>11, <1>5, <1>6, <1>20 DEF KeepsEeprom, Shape, EepromFits
<1>12. CASE st \cap {"Reading", "Busy"} # {}
  <2>1. eeprom' = eeprom /\ store' = store
    BY <1>2, <1>6, <1>12 DEF EEPROMWrite, EepromStates, AcceptCommand, Reading, Busy
  <2>2. Shape(eeprom)
    BY <1>6, <1>20 DEF Shape
  <2>3. QED
    BY <2>1, <2>2, <1>6, <1>11
<1>13. CASE st = AcceptCommand
  <2>1. /\ eeprom' = IF t + 1 = 2 THEN CommandTaken(n) ELSE n
        /\ store' = store
    BY <1>6, <1>8, <1>13 DEF EEPROMWrite, AcceptCommand, n
  <2>2. Shape(n) /\ n.address = a
    BY <1>10, <1>13 DEF AcceptCommand, Reading
  <2>3. PICK s \in {AcceptCommand, W1, R1} : CommandTaken(n) = EepromOf(z, d, s, a, 0, 0)
    BY <1>7, <1>13, CommandTakenOf
  <2>4. Shape(CommandTaken(n)) /\ CommandTaken(n).address = a
    <3>1. s \in EepromStates
      BY DEF EepromStates
    <3>2. QED
      BY <2>3, <3>1, <1>2, <1>9
  <2>5. QED
    BY <2>1, <2>2, <2>4, <1>11
<1>14. CASE "GetAddress" \in st /\ ~AddressComplete(n)
  <2>1. eeprom' = n /\ store' = store
    BY <1>2, <1>6, <1>14 DEF EEPROMWrite, EepromStates, AcceptCommand, Reading, Busy, n
  <2>2. Shape(n) /\ n.address = a
    BY <1>10, <1>14 DEF Reading
  <2>3. QED
    BY <2>1, <2>2, <1>11
<1>15. CASE "GetAddress" \in st /\ AddressComplete(n)
  <2> DEFINE to == AddressOf(n)
             span == to .. to + BlockSize - 1
  <2>1. /\ eeprom' = AddressTaken(n)
        /\ store' = store \/ store' = MemorySet(store, span, 0, ok)
    BY <1>2, <1>6, <1>15 DEF EEPROMWrite, EepromStates, AcceptCommand, Reading, Busy, n, Cleared
  <2>2. two < 2 ^ Sizes[z].bits
    BY <1>4, <1>8, <1>15 DEF AddressComplete
  <2>3. to = (two * BlockSize) % Sizes["64K"].size
    BY <1>8 DEF AddressOf
  <2>4. to \in Nat /\ to + BlockSize <= Size(store)
    BY <1>2, <1>4, <1>6, <2>2, <2>3, AddressFits
  <2>5. AddressTaken(n) = EepromOf(z, d, st \ {"GetAddress"}, to, 0, 0)
    BY <1>7, <2>3, AddressTakenOf
  <2>6. st \ {"GetAddress"} \in EepromStates
    BY <1>2, <1>15 DEF EepromStates, AcceptCommand, Reading, Busy
  <2> HIDE DEF to
  <2>7. Shape(eeprom') /\ eeprom'.address = to
    BY <2>1, <2>4, <2>5, <2>6, <1>9
  <2>8. span \subseteq DOMAIN store.memory
    BY <2>4, <1>3, <1>5 DEF Cells
  <2> HIDE DEF span
  <2>9. SameShape(store, store') /\ store'.panicked = store.panicked
    BY <2>1, <2>8, <1>5, MemorySetGood, NoPanic
  <2>10. QED
    BY <2>4, <2>7, <2>9, <1>6, <1>20 DEF KeepsEeprom, EepromFits, Shape
<1>16. CASE st = W2
  <2> DEFINE at == a + t \div CellBits
  <2>1. /\ \E with : store' = MemorySet(store, {at}, with, ok)
        /\ eeprom' = IF t + 1 = BlockBits
                     THEN ResetSerialBuffer([n EXCEPT !.state = @ \ {"Writing"}]) ELSE n
    <3>1. /\ st \cap {"Reading", "Busy"} = {} /\ st # AcceptCommand /\ "GetAddress" \notin st
          /\ st # {"ReadMode", "EatDummy"} /\ st # {"WriteMode", "EatDummy"}
      BY <1>16 DEF AcceptCommand
    <3>2. /\ \E with : store' = Write(store, eeprom.address + eeprom.transmittedBits \div CellBits, with, ok)
          /\ eeprom' = IF n.transmittedBits = BlockBits
                       THEN ResetSerialBuffer([n EXCEPT !.state = @ \ {"Writing"}]) ELSE n
      BY <1>6, <3>1, Zenon DEF EEPROMWrite, n
    <3>3. QED
      BY <1>6, <1>8, <3>2 DEF Write
  <2>2. t \div CellBits \in 0 .. BlockSize - 1
    BY <1>2, <1>16, BitInBlock
  <2>3. F => {at} \subseteq DOMAIN store.memory
    BY <2>2, <1>2, <1>3, <1>5, <1>6 DEF EepromFits, Cells
  <2> HIDE DEF at
  <2>4. SameShape(store, store') /\ (F => store'.panicked = store.panicked)
    BY <2>1, <2>3, MemorySetGood, NoPanic
  <2>5. st \ {"Writing"} \in EepromStates
    BY <1>16 DEF EepromStates
  <2>6. [n EXCEPT !.state = @ \ {"Writing"}] = EepromOf(z, d, st \ {"Writing"}, a, two, t + 1)
    BY <1>7 DEF EepromOf
  <2>7. ResetSerialBuffer([n EXCEPT !.state = @ \ {"Writing"}]) = EepromOf(z, d, st \ {"Writing"}, a, 0, 0)
    BY <2>6, ResetOf
  <2>8. t + 1 # BlockBits => t + 1 < BlockBits
    BY <1>2, <1>3, <1>16
  <2>9. Shape(eeprom') /\ eeprom'.address = a
    BY <2>1, <2>5, <2>7, <2>8, <1>2, <1>9, <1>10
  <2>10. QED
    BY <2>4, <2>9, <1>6, <1>20 DEF KeepsEeprom, EepromFits, Shape
<1>17. CASE st = {"ReadMode", "EatDummy"} \/ st = {"WriteMode", "EatDummy"}
  <2> DEFINE Turned == Reading \cup {"DummyNibble"}
  <2>1. PICK s \in EepromStates : eeprom' = ResetSerialBuffer([n EXCEPT !.state = s]) /\ store' = store
    <3>1. /\ st \cap {"Reading", "Busy"} = {} /\ st # AcceptCommand
          /\ "GetAddress" \notin st /\ "Writing" \notin st
      BY <1>17 DEF AcceptCommand
    <3>2. \/ eeprom' = ResetSerialBuffer([n EXCEPT !.state = Turned]) /\ store' = store
          \/ eeprom' = ResetSerialBuffer([n EXCEPT !.state = Busy]) /\ store' = store
      BY <1>6, <3>1, Zenon DEF EEPROMWrite, n
    <3>3. Turned \in EepromStates /\ Busy \in EepromStates
      BY DEF EepromStates
    <3> HIDE DEF Turned
    <3>4. QED
      BY <3>2, <3>3, Zenon
  <2>2. [n EXCEPT !.state = s] = EepromOf(z, d, s, a, two, t + 1)
    BY <1>7, StateOf
  <2>3. Shape(eeprom') /\ eeprom'.address = a
    BY <2>1, <2>2, <1>2, <1>9, ResetOf
  <2>4. QED
    BY <2>1, <2>3, <1>11
<1>18. \/ st \cap {"Reading", "Busy"} # {} \/ st = AcceptCommand \/ "GetAddress" \in st
       \/ st = W2 \/ st = {"ReadMode", "EatDummy"} \/ st = {"WriteMode", "EatDummy"}
  BY <1>2 DEF EepromStates, Reading, Busy
<1>19. QED
  BY <1>12, <1>13, <1>14, <1>15, <1>16, <1>17, <1>18
-----------------------------------------------------------------------------
\* The fields of a frame.
IsFrame(f) ==
  /\ f = [op |-> f.op, block |-> f.block, data |-> f.data, sent |-> f.sent, got |-> f.got]
  /\ f.block \in Nat /\ f.sent \in Nat /\ (f.op = "write" => f.data \in Data)

\* What the program sends are bits.
LEMMA BitsAreBits ==
  ASSUME NEW n \in Nat, NEW w \in Nat
  PROVE  BitsOf(n, w) \in Seq({0, 1})
<1>1. ASSUME NEW k \in 1 .. w
      PROVE  (n \div 2 ^ (w - k)) % 2 \in {0, 1}
  <2>1. PICK j \in Nat : j = w - k
    OBVIOUS
  <2>2. 2 ^ j \in Nat /\ 2 ^ j >= 1
    BY Powers
  <2>3. \A p \in Nat : p >= 1 => (n \div p) % 2 \in {0, 1}
    OBVIOUS
  <2>4. QED
    BY <2>1, <2>2, <2>3
<1>2. BitsOf(n, w) \in [1 .. w -> {0, 1}]
  BY <1>1, Zenon DEF BitsOf
<1>3. QED
  BY <1>2

\* So is the bit of a frame that comes next.
LEMMA FrameBitsAreBits ==
  ASSUME IsFrame(frame), chip \in {"4K", "64K"}, frame.sent < Len(FrameBits(frame))
  PROVE  FrameBits(frame)[frame.sent + 1] \in {0, 1}
<1> DEFINE w == Sizes[chip].bits
           b == BitsOf(frame.block, w)
<1>1. w \in Nat
  BY EepromAssumption DEF EepromGeometry
<1>2. b \in Seq({0, 1})
  BY <1>1, BitsAreBits DEF IsFrame
<1> HIDE DEF b
<1>3. FrameBits(frame) \in Seq({0, 1})
  <2>1. CASE frame.op = "write"
    <3>1. BlockBits \in Nat /\ frame.data \in [1 .. BlockBits -> {0, 1}]
      BY <2>1, EepromAssumption DEF EepromGeometry, BlockBits, IsFrame
    <3>2. frame.data \in Seq({0, 1})
      BY <3>1
    <3>3. FrameBits(frame) = <<1, 0>> \o b \o frame.data \o <<0>>
      BY <2>1 DEF FrameBits, b
    <3>4. QED
      BY <1>2, <3>2, <3>3
  <2>2. CASE frame.op # "write"
    <3>1. FrameBits(frame) = <<1, 1>> \o b \o <<0>>
      BY <2>2 DEF FrameBits, b
    <3>2. QED
      BY <1>2, <3>1
  <2>3. QED
    BY <2>1, <2>2
<1>4. frame.sent \in Nat
  BY DEF IsFrame
<1>5. QED
  BY <1>3, <1>4
-----------------------------------------------------------------------------
\* Why no access is outside the memory: the bank and the address are those of
\* a chip as large as the memory is, unless a state has brought them from a
\* chip of another size.
FlashPart ==
  /\ IsFlash(flash) /\ IsJob(job)
  /\ cart.kind = "FLASH" =>
       IsSized(flash, Size(store)) /\ (OneSize => FlashFits(flash, Size(store)))

EepromPart ==
  cart.kind = "EEPROM" =>
    /\ IsEeprom(eeprom) /\ IsFrame(frame)
    /\ Sizes[eeprom.size].size = Size(store)
    /\ OneSize => EepromFits(eeprom, Size(store))
    /\ sizes = {} /\ eeprom.detectSize => eeprom.address = 0 /\ frame = NoFrame

SavedPart ==
  saved.of # "none" =>
    /\ IsFlash(saved.flash) /\ IsJob(saved.job)
    /\ cart.kind = "FLASH" =>
         IsSized(saved.flash, Size(saved)) /\ FlashFits(saved.flash, Size(saved))
    /\ cart.kind = "EEPROM" =>
         IsEeprom(saved.eeprom) /\ IsFrame(saved.frame) /\ EepromFits(saved.eeprom, Size(saved))

SizesPart ==
  /\ saved.of = "none" => sizes = {}
  /\ sizes # {} => Size(store) \in sizes

Alive == OneSize => ~store.panicked

Fitting == FlashPart /\ EepromPart /\ SavedPart /\ SizesPart /\ Alive

\* A chip that has just been started.
LEMMA FreshFlash ==
  ASSUME NEW s
  PROVE  /\ IsFlash(ResetFlash(s)) /\ \A n : FlashFits(ResetFlash(s), n)
         /\ ResetFlash(s).large <=> Size(s) = 2 * BankSize
<1> DEFINE l == FlashSize(s)
           f == FlashOf(l, 0, 0, FALSE, FALSE, FALSE, FALSE)
<1>1. ResetFlash(s) = f
  BY DEF ResetFlash, FlashOf
<1>2. l <=> Size(s) = 2 * BankSize
  BY DEF FlashSize
<1> HIDE DEF l
<1>3. IsFlash(f) /\ f.currentBank = 0 /\ f.enableSelect = FALSE /\ f.large = l
  BY FlashFields DEF FlashOf
<1> HIDE DEF f
<1>4. QED
  BY <1>1, <1>2, <1>3 DEF FlashFits

\* A chip has at least a block.
LEMMA BlockInChip ==
  ASSUME NEW z \in {"4K", "64K"}
  PROVE  BlockSize \in Nat /\ Sizes[z].size \in Nat /\ BlockSize <= Sizes[z].size
<1> DEFINE p == 2 ^ Sizes["4K"].bits
<1>1. /\ BlockSize \in Nat \ {0} /\ Sizes["4K"].size \in Nat /\ Sizes["64K"].size \in Nat
      /\ Sizes["4K"].size < Sizes["64K"].size
      /\ Sizes["4K"].bits \in Nat /\ Sizes["4K"].size = BlockSize * p
  BY EepromAssumption DEF EepromGeometry
<1>2. p \in Nat /\ p >= 1
  BY <1>1, Powers
<1> HIDE DEF p
<1>3. BlockSize * p >= BlockSize
  BY <1>1, <1>2
<1>4. QED
  BY <1>1, <1>3

\* An EEPROM that has just been made is as large as its memory, and at its
\* first block.
LEMMA FreshEeprom ==
  ASSUME NEW c \in Cartridges, c.kind = "EEPROM", NEW s, s.stream \in BOOLEAN,
         Size(s) \in Valid(c),
         ~s.stream => Size(s) = Sizes[IF c.hint = "Auto" THEN "64K" ELSE c.hint].size
  PROVE  /\ IsEeprom(EEPROMOf(c, s)) /\ Sizes[EEPROMOf(c, s).size].size = Size(s)
         /\ EepromFits(EEPROMOf(c, s), Size(s)) /\ EEPROMOf(c, s).address = 0
<1> DEFINE e == EEPROMOf(c, s)
<1>1. c.hint \in {"4K", "64K", "Auto"}
  BY CartridgesAssumption
<1>2. Valid(c) = {Sizes[k].size : k \in {"4K", "64K"}}
  BY DEF Valid
<1>3. e = EEPROMFor(s, c.hint)
  BY DEF EEPROMOf
<1>4. \E z \in {"4K", "64K"} : \E d : e = EepromOf(z, d, AcceptCommand, 0, 0, 0) /\ Sizes[z].size = Size(s)
  <2>1. CASE s.stream
    <3>1. e = EepromOf(SizeOf(s), FALSE, AcceptCommand, 0, 0, 0)
      BY <1>3, <2>1 DEF EEPROMFor, ResetEEPROM, EepromOf
    <3>2. SizeOf(s) \in {"4K", "64K"} /\ Sizes[SizeOf(s)].size = Size(s)
      BY <1>2 DEF SizeOf
    <3>3. QED
      BY <3>1, <3>2
  <2>2. CASE ~s.stream /\ c.hint = "Auto"
    <3>1. e = EepromOf("64K", TRUE, AcceptCommand, 0, 0, 0)
      BY <1>3, <2>2 DEF EEPROMFor, ResetEEPROM, EepromOf
    <3>2. QED
      BY <2>2, <3>1
  <2>3. CASE ~s.stream /\ c.hint # "Auto"
    <3>1. e = EepromOf(c.hint, FALSE, AcceptCommand, 0, 0, 0)
      BY <1>3, <2>3 DEF EEPROMFor, ResetEEPROM, EepromOf
    <3>2. QED
      BY <1>1, <2>3, <3>1
  <2>4. QED
    BY <2>1, <2>2, <2>3
<1>o. PICK z \in {"4K", "64K"} : \E d : e = EepromOf(z, d, AcceptCommand, 0, 0, 0) /\ Sizes[z].size = Size(s)
  BY <1>4
<1>5. PICK d : e = EepromOf(z, d, AcceptCommand, 0, 0, 0) /\ Sizes[z].size = Size(s)
  BY <1>o
<1>6. AcceptCommand \in EepromStates
  BY DEF EepromStates
<1>7. IsEeprom(e)
  BY <1>5, <1>6, FreshFields
<1>8. BlockSize <= Sizes[z].size
  BY BlockInChip
<1>9. BlockSize \in Nat
  BY EepromAssumption DEF EepromGeometry
<1> HIDE DEF e
<1>10. e.address = 0 /\ e.size = z
  BY <1>5 DEF EepromOf
<1>11. QED
  BY <1>5, <1>7, <1>8, <1>9, <1>10 DEF EepromFits, e

\* A machine that has just been equipped fits.
LEMMA FittingInit == Init => Fitting
<1> SUFFICES ASSUME Init
             PROVE  Fitting
  OBVIOUS
<1>0. cart \in Cartridges /\ sizes = {} /\ saved = [of |-> "none"] /\ job = NoJob /\ frame = NoFrame
      /\ flash = ResetFlash(store) /\ eeprom = EEPROMOf(cart, store)
  BY DEF Init
<1>1. PICK opens \in BOOLEAN, ok \in BOOLEAN : store = Opened(cart, cart.disk, opens, ok)
  BY DEF Init
<1>2. IsFile(cart.disk)
  BY <1>0, CartridgesAssumption DEF IsFile
<1>3. /\ Good(store) /\ Fits(store, Valid(cart)) /\ ~store.panicked
      /\ cart.kind = "EEPROM" /\ ~store.stream =>
           Size(store) = Sizes[IF cart.hint = "Auto" THEN "64K" ELSE cart.hint].size
  BY <1>0, <1>1, <1>2, OpenedGood
<1>4. SizesPart /\ SavedPart /\ Alive
  BY <1>0, <1>3 DEF SizesPart, SavedPart, Alive
<1>5. FlashPart
  <2>1. IsFlash(flash) /\ FlashFits(flash, Size(store)) /\ (flash.large <=> Size(store) = 2 * BankSize)
    BY <1>0, FreshFlash
  <2>2. IsJob(job)
    BY <1>0 DEF IsJob, NoJob
  <2>3. cart.kind = "FLASH" => Size(store) \in {BankSize, 2 * BankSize}
    BY <1>3 DEF Fits, Valid
  <2>4. QED
    BY <2>1, <2>2, <2>3 DEF FlashPart, IsSized
<1>6. EepromPart
  <2> SUFFICES ASSUME cart.kind = "EEPROM"
               PROVE  EepromPart
    BY DEF EepromPart
  <2>1. store.stream \in BOOLEAN /\ Size(store) \in Valid(cart)
    BY <1>3 DEF Good, IsStore, Fits
  <2>2. /\ IsEeprom(eeprom) /\ Sizes[eeprom.size].size = Size(store)
        /\ EepromFits(eeprom, Size(store)) /\ eeprom.address = 0
    BY <1>0, <1>3, <2>1, FreshEeprom
  <2>3. IsFrame(frame)
    BY <1>0 DEF IsFrame, NoFrame
  <2>4. QED
    BY <1>0, <2>2, <2>3 DEF EepromPart
<1>7. QED
  BY <1>4, <1>5, <1>6 DEF Fitting

\* Using a chip again with the size it had leaves what is known of the sizes.
LEMMA UsedSizes ==
  ASSUME SizesPart, UsedWith(Size(store')), saved' = saved
  PROVE  /\ SizesPart' /\ (OneSize' => OneSize) /\ (sizes' = {} <=> sizes = {})
         /\ OneSize' /\ sizes # {} => Size(store') = Size(store)
<1>1. CASE sizes = {}
  BY <1>1 DEF SizesPart, UsedWith, OneSize
<1>2. CASE sizes # {}
  <2>1. sizes' = sizes \cup {Size(store')} /\ Size(store) \in sizes
    BY <1>2 DEF SizesPart, UsedWith
  <2>2. SizesPart'
    BY <1>2, <2>1 DEF SizesPart, Size
  <2>3. QED
    BY <1>2, <2>1, <2>2 DEF OneSize
<1>3. QED
  BY <1>1, <1>2

\* A command is of three, four or six stores.
LEMMA StoresLen ==
  ASSUME NEW cmd \in Command
  PROVE  Len(Stores(cmd)) \in {3, 4, 6}
<1>1. cmd.op \in {"Program", "SelectBank", "EraseSector", "EraseChip", "ReadChipID", "FinishChipID"}
  BY FlashAssumption DEF FlashCommands
<1>2. CASE cmd.op \in {"Program", "SelectBank"}
  BY <1>2, StoresOf DEF Sends
<1>3. CASE cmd.op \in {"EraseSector", "EraseChip"}
  BY <1>3, StoresOf DEF Sends
<1>4. CASE cmd.op \in {"ReadChipID", "FinishChipID"}
  BY <1>4, StoresOf DEF Sends
<1>5. QED
  BY <1>1, <1>2, <1>3, <1>4

\* A command of the program is a command it may send, and what the chip makes
\* of it fits its memory.
LEMMA FlashNextFits ==
  ASSUME Good(store), IsFlash(flash), IsJob(job), IsSized(flash, Size(store)), FlashNext
  PROVE  KeepsFlash /\ IsJob(job)'
<1>1. ASSUME NEW cmd \in Command, Start(cmd)
      PROVE  KeepsFlash /\ IsJob(job)'
  <2>1. job' = [cmd |-> cmd, sent |-> 0, lost |-> FALSE] /\ store' = store /\ flash' = flash
    BY <1>1 DEF Start
  <2>2. 0 \in 0 .. Len(Stores(cmd)) - 1
    BY StoresLen
  <2>3. IsJob(job)'
    BY <1>1, <2>1, <2>2 DEF IsJob
  <2>4. QED
    BY <2>1, <2>3 DEF KeepsFlash, SameShape
<1>2. ASSUME NEW ok \in BOOLEAN, Send(ok)
      PROVE  KeepsFlash /\ IsJob(job)'
  <2> DEFINE n == Len(Stores(job.cmd))
             s == Stores(job.cmd)[job.sent + 1]
  <2>1. job # NoJob /\ job.cmd \in Command /\ job.sent \in 0 .. n - 1
    BY <1>2 DEF Send, IsJob
  <2>2. n \in Nat
    BY <2>1, StoresLen
  <2>3. job.sent + 1 \in 1 .. n
    <3> HIDE DEF n
    <3>1. QED
      BY <2>1, <2>2
  <2>4. s[1] \in 0 .. BankSize - 1 /\ s[2] \in Nat
    BY <2>1, <2>3, StoreInBank
  <2>5. FlashWrite(s[1], s[2], ok)
    BY <1>2 DEF Send
  <2> HIDE DEF s
  <2>6. KeepsFlash
    BY <2>4, <2>5, FlashWriteFits
  <2>7. IsJob(job)'
    <3>1. CASE Complete
      BY <1>2, <3>1 DEF Send, IsJob, NoJob
    <3>2. CASE ~Complete
      <4> DEFINE l == job.lost \/ orphan # "none"
      <4>1. job' = [job EXCEPT !.sent = job.sent + 1, !.lost = l]
        BY <1>2, <3>2 DEF Send
      <4>2. job = [cmd |-> job.cmd, sent |-> job.sent, lost |-> job.lost]
        BY DEF IsJob
      <4> HIDE DEF l
      <4>3. job' = [cmd |-> job.cmd, sent |-> job.sent + 1, lost |-> l]
        BY <4>1, <4>2
      <4>4. job.sent + 1 \in 0 .. n - 1
        <5>1. job.sent # n - 1
          BY <3>2 DEF Complete
        <5> HIDE DEF n
        <5>2. QED
          BY <5>1, <2>1, <2>2
      <4>5. QED
        BY <2>1, <4>3, <4>4 DEF IsJob
    <3>3. QED
      BY <3>1, <3>2
  <2>8. QED
    BY <2>6, <2>7
<1>3. ASSUME GiveUp
      PROVE  KeepsFlash /\ IsJob(job)'
  BY <1>3 DEF GiveUp, KeepsFlash, SameShape, IsJob, NoJob
<1>4. QED
  BY <1>1, <1>2, <1>3 DEF FlashNext

\* A step of a program with a FLASH keeps everything fitting.
LEMMA FittingFlash ==
  ASSUME Inv, Fitting, Others("FLASH"), UNCHANGED eepromVars, FlashNext, UsedWith(Size(store'))
  PROVE  Fitting'
<1>1. Good(store) /\ FlashPart /\ SavedPart /\ SizesPart /\ Alive
  BY DEF Inv, Fitting
<1>2. cart.kind = "FLASH" /\ cart' = cart /\ saved' = saved /\ ~store.panicked
  BY DEF Others
<1>3. KeepsFlash /\ IsJob(job)'
  BY <1>1, <1>2, FlashNextFits DEF FlashPart
<1>4. Size(store') = Size(store)
  BY <1>3 DEF KeepsFlash, SameShape, Size
<1>5. SizesPart' /\ (OneSize' => OneSize)
  BY <1>1, <1>2, UsedSizes
<1>6. SavedPart' /\ EepromPart'
  BY <1>1, <1>2 DEF SavedPart, EepromPart, Size
<1>7. OneSize' => FlashFits(flash', Size(store)) /\ ~store'.panicked
  BY <1>1, <1>2, <1>3, <1>5 DEF FlashPart, KeepsFlash
<1>8. FlashPart'
  <2>1. IsSized(flash', Size(store))
    BY <1>1, <1>2, <1>3 DEF FlashPart, KeepsFlash, IsSized
  <2>2. IsSized(flash, Size(store))' /\ (OneSize => FlashFits(flash, Size(store)))'
    BY <1>4, <1>7, <2>1 DEF IsSized, FlashFits, Size
  <2>3. QED
    BY <1>2, <1>3, <2>2 DEF FlashPart, KeepsFlash
<1>9. QED
  BY <1>5, <1>6, <1>7, <1>8 DEF Fitting, Alive

\* A chip that fits its memory has every bit it is asked for.
LEMMA NoReadPanics ==
  ASSUME Good(store), IsEeprom(eeprom), EepromFits(eeprom, Size(store))
  PROVE  ~ReadPanics(eeprom, store)
<1> DEFINE q == eeprom.transmittedBits \div CellBits
<1> SUFFICES ASSUME "Reading" \in eeprom.state, "DummyNibble" \notin eeprom.state
             PROVE  eeprom.address + q \in DOMAIN store.memory
  BY DEF ReadPanics
<1>1. eeprom.state = Reading
  BY DEF IsEeprom, EepromStates, AcceptCommand, Reading, Busy
<1>2. eeprom.transmittedBits \in Nat /\ eeprom.transmittedBits < BlockBits /\ eeprom.address \in Nat
  BY <1>1 DEF IsEeprom
<1>3. q \in 0 .. BlockSize - 1
  BY <1>2, BitInBlock
<1>4. BlockSize \in Nat
  BY EepromAssumption DEF EepromGeometry
<1>5. Size(store) \in Nat /\ DOMAIN store.memory = Cells(Size(store))
  BY StoreCells
<1> HIDE DEF q
<1>6. QED
  BY <1>2, <1>3, <1>4, <1>5 DEF EepromFits, Cells

\* A frame goes on by a bit.
LEMMA FrameGoesOn ==
  ASSUME NEW f, IsFrame(f)
  PROVE  /\ IsFrame([f EXCEPT !.sent = @ + 1])
         /\ \A g : IsFrame([f EXCEPT !.sent = @ + 1, !.got = g])
         /\ IsFrame(NoFrame)
<1>1. f = [op |-> f.op, block |-> f.block, data |-> f.data, sent |-> f.sent, got |-> f.got]
      /\ f.block \in Nat /\ f.sent \in Nat /\ (f.op = "write" => f.data \in Data)
  BY DEF IsFrame
<1> DEFINE Of(n, g) == [op |-> f.op, block |-> f.block, data |-> f.data, sent |-> n, got |-> g]
           h == [f EXCEPT !.sent = @ + 1]
<1>2. \A n \in Nat : \A g : IsFrame(Of(n, g))
  BY <1>1 DEF IsFrame
<1>3. h = Of(f.sent + 1, f.got) /\ f.sent + 1 \in Nat
  BY <1>1
<1>4. \A g : [f EXCEPT !.sent = @ + 1, !.got = g] = [h EXCEPT !.got = g]
  BY <1>1
<1>5. \A g : [Of(f.sent + 1, f.got) EXCEPT !.got = g] = Of(f.sent + 1, g)
  OBVIOUS
<1>6. IsFrame(NoFrame)
  BY DEF IsFrame, NoFrame
<1> HIDE DEF Of, h
<1>7. IsFrame(h) /\ \A g : IsFrame([h EXCEPT !.got = g])
  BY <1>2, <1>3, <1>5
<1>8. QED
  BY <1>4, <1>6, <1>7 DEF h

\* A bit that is sent, a bit that is read and the end of a write leave a chip
\* that fits its memory fitting it.
LEMMA EepromStepFits ==
  ASSUME Good(store), IsEeprom(eeprom), IsFrame(frame), chip \in {"4K", "64K"},
         Sizes[eeprom.size].size = Size(store),
         (\E ok \in BOOLEAN : Unit(ok)) \/ Answer \/ Ready
  PROVE  KeepsEeprom /\ IsFrame(frame)'
<1>0. SameShape(store, store)
  BY DEF SameShape
<1>1. ASSUME NEW ok \in BOOLEAN, Unit(ok)
      PROVE  KeepsEeprom /\ IsFrame(frame)'
  <2> DEFINE bit == FrameBits(frame)[frame.sent + 1]
  <2>1. frame.sent < Len(FrameBits(frame)) /\ EEPROMWrite(bit, ok)
    BY <1>1 DEF Unit
  <2>2. bit \in {0, 1}
    BY <2>1, FrameBitsAreBits
  <2> HIDE DEF bit
  <2>3. KeepsEeprom
    BY <2>1, <2>2, EEPROMWriteFits
  <2>4. frame' = NoFrame \/ frame' = [frame EXCEPT !.sent = @ + 1]
    BY <1>1 DEF Unit
  <2>5. QED
    BY <2>3, <2>4, FrameGoesOn
<1>2. ASSUME Answer
      PROVE  KeepsEeprom /\ IsFrame(frame)'
  <2>1. IsEeprom(AfterRead(eeprom))
    BY AfterReadFits, Zenon
  <2>2. AfterRead(eeprom).size = eeprom.size /\ AfterRead(eeprom).detectSize = eeprom.detectSize
        /\ AfterRead(eeprom).address = eeprom.address
    BY AfterReadFits, Zenon
  <2>3. eeprom' = AfterRead(eeprom)
    BY <1>2 DEF Answer
  <2>4. store' = IF ReadPanics(eeprom, store) THEN Panicked(store) ELSE store
    BY <1>2 DEF Answer
  <2>5. Panicked(store).memory = store.memory /\ Panicked(store).stream = store.stream
    BY StoreChanged DEF Panicked, Good
  <2>6. SameShape(store, store')
    BY <1>0, <2>4, <2>5 DEF SameShape
  <2>7. KeepsEeprom
    BY <2>1, <2>2, <2>3, <2>4, <2>6, NoReadPanics DEF KeepsEeprom, EepromFits
  <2>8. \/ frame' = NoFrame \/ \E g : frame' = [frame EXCEPT !.sent = @ + 1, !.got = g]
    BY <1>2, Zenon DEF Answer
  <2>9. CASE frame' = NoFrame
    BY <2>7, <2>9, FrameGoesOn
  <2>10. CASE frame' # NoFrame
    <3>1. PICK g : frame' = [frame EXCEPT !.sent = @ + 1, !.got = g]
      BY <2>8, <2>10
    <3>2. IsFrame([frame EXCEPT !.sent = @ + 1, !.got = g])
      BY FrameGoesOn, Zenon
    <3>3. QED
      BY <2>7, <3>1, <3>2
  <2>11. QED
    BY <2>9, <2>10
<1>3. ASSUME Ready
      PROVE  KeepsEeprom /\ IsFrame(frame)'
  <2> DEFINE e == EepromOf(eeprom.size, eeprom.detectSize, eeprom.state, eeprom.address,
                           eeprom.serialBuffer, eeprom.transmittedBits)
             g == EepromOf(eeprom.size, eeprom.detectSize, AcceptCommand, eeprom.address,
                           eeprom.serialBuffer, eeprom.transmittedBits)
  <2>1. eeprom' = [eeprom EXCEPT !.state = AcceptCommand] /\ eeprom = e /\ store' = store
        /\ frame' = frame
    BY <1>3, EepromIs DEF Ready
  <2>2. [e EXCEPT !.state = AcceptCommand] = g
    BY StateOf
  <2>3. AcceptCommand \in EepromStates /\ AcceptCommand # Reading
        /\ AcceptCommand # {"WriteMode", "Writing", "EatDummy"}
    BY DEF EepromStates, AcceptCommand, Reading
  <2>4. IsEeprom(g)
    BY <2>3, EepromFields DEF IsEeprom
  <2>5. g.size = eeprom.size /\ g.detectSize = eeprom.detectSize /\ g.address = eeprom.address
    BY DEF EepromOf
  <2>6. eeprom' = g
    BY <2>1, <2>2
  <2> HIDE DEF e, g
  <2>7. QED
    BY <1>0, <2>1, <2>4, <2>5, <2>6 DEF KeepsEeprom, EepromFits
<1>4. QED
  BY <1>1, <1>2, <1>3
-----------------------------------------------------------------------------
\* What a step of the program with an EEPROM does, if it does not begin a frame.
LEMMA FittingEepromStep ==
  ASSUME Inv, Fitting, Others("EEPROM"), UNCHANGED flashVars,
         (\E ok \in BOOLEAN : Unit(ok)) \/ Answer \/ Ready, UsedWith(Size(store'))
  PROVE  Fitting'
<1>1. Good(store) /\ FlashPart /\ EepromPart /\ SavedPart /\ SizesPart /\ Alive
  BY DEF Inv, Fitting
<1>2. cart.kind = "EEPROM" /\ cart' = cart /\ saved' = saved /\ ~store.panicked
  BY DEF Others
<1>3. /\ IsEeprom(eeprom) /\ IsFrame(frame) /\ Sizes[eeprom.size].size = Size(store)
      /\ chip \in {"4K", "64K"}
  BY <1>1, <1>2 DEF EepromPart, Inv
<1>4. KeepsEeprom /\ IsFrame(frame)'
  BY <1>1, <1>3, EepromStepFits
<1>5. Size(store') = Size(store)
  BY <1>4 DEF KeepsEeprom, SameShape, Size
<1>6. SizesPart' /\ (OneSize' => OneSize) /\ (sizes' = {} <=> sizes = {})
  BY <1>1, <1>2, UsedSizes
<1>7. SavedPart' /\ FlashPart'
  BY <1>1, <1>2 DEF SavedPart, FlashPart, Size, flashVars
<1>8. OneSize' => EepromFits(eeprom', Size(store)) /\ ~store'.panicked
  BY <1>1, <1>2, <1>4, <1>6 DEF EepromPart, KeepsEeprom
<1>9. sizes' = {} /\ eeprom'.detectSize => eeprom'.address = 0 /\ frame' = NoFrame
  <2> SUFFICES ASSUME sizes' = {}, eeprom'.detectSize
               PROVE  eeprom'.address = 0 /\ frame' = NoFrame
    OBVIOUS
  <2>1. sizes = {} /\ eeprom'.detectSize = eeprom.detectSize
    BY <1>4, <1>6 DEF KeepsEeprom
  <2>2. eeprom.address = 0 /\ frame = NoFrame
    BY <1>1, <1>2, <2>1 DEF EepromPart
  <2>3. Ready
    BY <2>2 DEF Unit, Answer, NoFrame
  <2>4. frame' = frame /\ eeprom' = [eeprom EXCEPT !.state = AcceptCommand]
    BY <2>3 DEF Ready
  <2>5. [eeprom EXCEPT !.state = AcceptCommand].address = eeprom.address
    BY <1>3 DEF IsEeprom
  <2>6. QED
    BY <2>2, <2>4, <2>5
<1>10. EepromPart'
  <2>1. Sizes[eeprom'.size].size = Size(store')
    BY <1>3, <1>4, <1>5 DEF KeepsEeprom
  <2>2. EepromFits(eeprom', Size(store)) => EepromFits(eeprom, Size(store))'
    BY <1>5 DEF EepromFits, Size
  <2>3. (Sizes[eeprom.size].size = Size(store))'
    BY <2>1 DEF Size
  <2>4. QED
    BY <1>4, <1>8, <1>9, <2>2, <2>3 DEF EepromPart, KeepsEeprom
<1>11. QED
  BY <1>6, <1>7, <1>8, <1>10 DEF Fitting, Alive

\* A chip that has found out its size.
LEMMA DetectOf ==
  ASSUME NEW z, NEW d, NEW st, NEW a, NEW sb, NEW t, NEW new
  PROVE  [EepromOf(z, d, st, a, sb, t) EXCEPT !.detectSize = new] = EepromOf(z, new, st, a, sb, t)
BY DEF EepromOf

\* What the hint does to a chip: its size is then that of its memory, which
\* holds the block the chip is at if it has not been given another size.
LEMMA SetSizeHintFits ==
  ASSUME Good(store), ~store.panicked, NEW e, IsEeprom(e), Sizes[e.size].size = Size(store),
         chip \in {"4K", "64K"}, SetSizeHint(e, chip)
  PROVE  /\ IsEeprom(eeprom') /\ Sizes[eeprom'.size].size = Size(store')
         /\ eeprom'.address = e.address /\ ~eeprom'.detectSize
         /\ ~e.detectSize => eeprom' = e /\ store' = store
         /\ ~store'.panicked
<1>1. CASE ~e.detectSize
  BY <1>1 DEF SetSizeHint
<1>2. CASE e.detectSize
  <2> DEFINE g == EepromOf(chip, FALSE, e.state, e.address, e.serialBuffer, e.transmittedBits)
             h == [e EXCEPT !.size = chip]
             n == Sizes[chip].size
  <2>1. h = EepromOf(chip, e.detectSize, e.state, e.address, e.serialBuffer, e.transmittedBits)
    BY DEF IsEeprom, EepromOf
  <2>2. [e EXCEPT !.size = chip, !.detectSize = FALSE] = [h EXCEPT !.detectSize = FALSE]
    BY DEF IsEeprom
  <2>3. [EepromOf(chip, e.detectSize, e.state, e.address, e.serialBuffer, e.transmittedBits)
           EXCEPT !.detectSize = FALSE] = g
    <3>1. PICK no : no = FALSE
      OBVIOUS
    <3>2. [EepromOf(chip, e.detectSize, e.state, e.address, e.serialBuffer, e.transmittedBits)
             EXCEPT !.detectSize = no]
            = EepromOf(chip, no, e.state, e.address, e.serialBuffer, e.transmittedBits)
      BY DetectOf
    <3>3. QED
      BY <3>1, <3>2
  <2> HIDE DEF h
  <2>4. eeprom' = g
    BY <1>2, <2>1, <2>2, <2>3 DEF SetSizeHint
  <2>5. IsEeprom(g)
    <3>1. /\ e.state \in EepromStates /\ e.address \in Nat /\ e.serialBuffer \in Nat
          /\ e.transmittedBits \in Nat /\ e.serialBuffer < 2 ^ e.transmittedBits
          /\ e.state \in {{"WriteMode", "Writing", "EatDummy"}, Reading} => e.transmittedBits < BlockBits
      BY DEF IsEeprom
    <3>2. QED
      BY <3>1, EepromFields
  <2>6. g.size = chip /\ ~g.detectSize /\ g.address = e.address
    BY DEF EepromOf
  <2> HIDE DEF g
  <2>7. store' = IF Size(store) = n THEN store ELSE NewInMemory(n, store.disk)
    BY <1>2 DEF SetSizeHint
  <2>8. n \in Nat /\ IsFile(store.disk)
    BY BlockInChip DEF Good, IsStore
  <2>9. Size(NewInMemory(n, store.disk)) = n /\ ~NewInMemory(n, store.disk).panicked
    BY <2>8, NewInMemoryGood
  <2>10. Size(store') = n /\ ~store'.panicked
    BY <2>7, <2>9
  <2>11. QED
    BY <1>2, <2>4, <2>5, <2>6, <2>10
<1>3. QED
  BY <1>1, <1>2

\* The first bit of a frame does, even if the memory is made anew for it.
LEMMA FittingBegin ==
  ASSUME Inv, Fitting, Others("EEPROM"), UNCHANGED flashVars,
         NEW op \in {"read", "write"}, NEW block \in Block, NEW data, op = "write" => data \in Data,
         Begin(op, block, data), UsedWith(Size(store'))
  PROVE  Fitting'
<1> DEFINE e == AfterRead(eeprom)
<1>1. Good(store) /\ FlashPart /\ EepromPart /\ SavedPart /\ SizesPart /\ Alive
  BY DEF Inv, Fitting
<1>2. cart.kind = "EEPROM" /\ cart' = cart /\ saved' = saved /\ ~store.panicked
  BY DEF Others
<1>3. /\ IsEeprom(eeprom) /\ IsFrame(frame) /\ Sizes[eeprom.size].size = Size(store)
      /\ chip \in {"4K", "64K"}
  BY <1>1, <1>2 DEF EepromPart, Inv
<1>4. IsEeprom(e)
  BY <1>3, AfterReadFits, Zenon
<1>5. e.size = eeprom.size /\ e.detectSize = eeprom.detectSize /\ e.address = eeprom.address
  BY <1>3, AfterReadFits, Zenon
<1>6. SetSizeHint(e, chip)
  BY DEF Begin
<1> HIDE DEF e
<1>7. /\ IsEeprom(eeprom') /\ Sizes[eeprom'.size].size = Size(store')
      /\ eeprom'.address = e.address /\ ~eeprom'.detectSize
      /\ ~e.detectSize => eeprom' = e /\ store' = store
      /\ ~store'.panicked
  BY <1>1, <1>2, <1>3, <1>4, <1>5, <1>6, SetSizeHintFits
<1>8. SizesPart' /\ (OneSize' => OneSize) /\ (sizes' = {} <=> sizes = {})
      /\ (OneSize' /\ sizes # {} => Size(store') = Size(store))
  BY <1>1, <1>2, UsedSizes
<1>9. SavedPart' /\ FlashPart'
  BY <1>1, <1>2 DEF SavedPart, FlashPart, Size, flashVars
<1>10. IsFrame(frame)'
  <2>1. frame' = [op |-> op, block |-> block, data |-> data, sent |-> 0, got |-> <<>>]
    BY DEF Begin, NoFrame
  <2>2. block \in Nat
    BY EepromAssumption DEF EepromGeometry
  <2>3. QED
    BY <2>1, <2>2 DEF IsFrame
<1>11. eeprom'.address = eeprom.address /\ ~eeprom'.detectSize
  BY <1>5, <1>7
<1>12. OneSize' => EepromFits(eeprom', Size(store'))
  <2> SUFFICES ASSUME OneSize'
               PROVE  EepromFits(eeprom', Size(store'))
    OBVIOUS
  <2>1. EepromFits(eeprom, Size(store))
    BY <1>1, <1>2, <1>8 DEF EepromPart
  <2>2. CASE sizes # {} \/ ~eeprom.detectSize
    <3>1. Size(store') = Size(store)
      BY <1>5, <1>7, <1>8, <2>2
    <3>2. QED
      BY <2>1, <3>1, <1>11 DEF EepromFits
  <2>3. CASE sizes = {} /\ eeprom.detectSize
    <3>1. eeprom'.address = 0
      BY <1>1, <1>2, <1>11, <2>3 DEF EepromPart
    <3>2. eeprom'.size \in {"4K", "64K"}
      BY <1>7 DEF IsEeprom
    <3>3. BlockSize \in Nat /\ BlockSize <= Sizes[eeprom'.size].size
      BY <3>2, BlockInChip
    <3>4. QED
      BY <1>7, <3>1, <3>3 DEF EepromFits
  <2>4. QED
    BY <2>2, <2>3
<1>13. EepromPart'
  <2>1. (Sizes[eeprom.size].size = Size(store))' /\ (OneSize => EepromFits(eeprom, Size(store)))'
    BY <1>7, <1>12 DEF EepromFits, Size
  <2>2. QED
    BY <1>7, <1>10, <1>11, <2>1 DEF EepromPart
<1>14. QED
  BY <1>7, <1>8, <1>9, <1>13 DEF Fitting, Alive

\* A load takes everything but a size, which stays that of the memory.
LEMMA FlashLoadedIs ==
  ASSUME NEW f, IsFlash(f)
  PROVE  /\ IsFlash(FlashLoaded(f)) /\ FlashLoaded(f).large = flash.large
         /\ FlashLoaded(f).currentBank = f.currentBank
         /\ FlashLoaded(f).enableSelect = f.enableSelect
<1> DEFINE g == FlashOf(f.large, f.currentBank, f.phase, f.enableChipID, f.enableErase, f.enableWrite, f.enableSelect)
<1>1. f = g
  BY DEF IsFlash, FlashOf
<1>2. \A l : [g EXCEPT !.large = l] =
               FlashOf(l, f.currentBank, f.phase, f.enableChipID, f.enableErase, f.enableWrite, f.enableSelect)
  BY DEF FlashOf
<1>3. \A l : LET h == FlashOf(l, f.currentBank, f.phase, f.enableChipID, f.enableErase, f.enableWrite, f.enableSelect) IN
             IsFlash(h) /\ h.large = l /\ h.currentBank = f.currentBank /\ h.enableSelect = f.enableSelect
  BY FlashFields DEF IsFlash, FlashOf
<1> HIDE DEF g
<1>4. PICK l : l = flash.large
  OBVIOUS
<1>5. FlashLoaded(f) = [g EXCEPT !.large = l]
  BY <1>1, <1>4 DEF FlashLoaded
<1> DEFINE h == FlashOf(l, f.currentBank, f.phase, f.enableChipID, f.enableErase, f.enableWrite, f.enableSelect)
<1>6. IsFlash(h) /\ h.large = l /\ h.currentBank = f.currentBank /\ h.enableSelect = f.enableSelect
  BY <1>3
<1>7. FlashLoaded(f) = h
  BY <1>2, <1>5
<1> HIDE DEF h
<1>8. QED
  BY <1>4, <1>6, <1>7

\* So does an EEPROM.
LEMMA EEPROMLoadedIs ==
  ASSUME NEW e, IsEeprom(e), IsEeprom(eeprom)
  PROVE  /\ IsEeprom(EEPROMLoaded(e)) /\ EEPROMLoaded(e).size = eeprom.size
         /\ EEPROMLoaded(e).address = e.address
<1> DEFINE Of(z, d) == EepromOf(z, d, e.state, e.address, e.serialBuffer, e.transmittedBits)
           h == [e EXCEPT !.size = eeprom.size]
           g == Of(e.size, e.detectSize)
<1>1. PICK d, d1 : d = eeprom.detectSize /\ d1 = e.detectSize
  OBVIOUS
<1>2. e = Of(e.size, d1)
  BY <1>1, EepromIs
<1>3. \A z, x, y : [Of(x, y) EXCEPT !.size = z] = Of(z, y)
  BY DEF EepromOf
<1>4. \A z, x, y : [Of(z, x) EXCEPT !.detectSize = y] = Of(z, y)
  <2> SUFFICES ASSUME NEW z, NEW x, NEW y
               PROVE  [Of(z, x) EXCEPT !.detectSize = y] = Of(z, y)
    OBVIOUS
  <2>1. QED
    BY DetectOf
<1>5. \A z \in {"4K", "64K"} : \A y : IsEeprom(Of(z, y)) /\ Of(z, y).size = z /\ Of(z, y).address = e.address
  <2> SUFFICES ASSUME NEW z \in {"4K", "64K"}, NEW y
               PROVE  IsEeprom(Of(z, y)) /\ Of(z, y).size = z /\ Of(z, y).address = e.address
    OBVIOUS
  <2>1. /\ e.state \in EepromStates /\ e.address \in Nat /\ e.serialBuffer \in Nat
        /\ e.transmittedBits \in Nat /\ e.serialBuffer < 2 ^ e.transmittedBits
        /\ e.state \in {{"WriteMode", "Writing", "EatDummy"}, Reading} => e.transmittedBits < BlockBits
    BY DEF IsEeprom
  <2>2. IsEeprom(Of(z, y))
    BY <2>1, EepromFields
  <2>3. QED
    BY <2>2 DEF EepromOf
<1> HIDE DEF Of
<1>6. h = Of(eeprom.size, d1)
  BY <1>2, <1>3
<1>7. EEPROMLoaded(e) = [h EXCEPT !.detectSize = d]
  BY <1>1 DEF EEPROMLoaded, IsEeprom
<1> HIDE DEF h
<1>8. EEPROMLoaded(e) = Of(eeprom.size, d)
  BY <1>4, <1>6, <1>7
<1>9. eeprom.size \in {"4K", "64K"}
  BY DEF IsEeprom
<1>10. QED
  BY <1>5, <1>8, <1>9

\* A load does, as far as the sizes agree.
LEMMA FittingLoad ==
  ASSUME Inv, Fitting, NEW ok \in BOOLEAN, LoadState(ok)
  PROVE  Fitting'
<1>1. Good(store) /\ FlashPart /\ EepromPart /\ SavedPart /\ SizesPart /\ Alive
  BY DEF Inv, Fitting
<1>2. /\ ~store.panicked /\ saved.of # "none" /\ store' = MemoryLoaded(store, saved.memory, ok)
      /\ sizes' = {Size(saved), Size(store)} /\ cart' = cart /\ saved' = saved
      /\ flash' = FlashLoaded(saved.flash) /\ job' = saved.job
      /\ eeprom' = EEPROMLoaded(saved.eeprom) /\ frame' = saved.frame
  BY DEF LoadState
<1>3. SameShape(store, MemoryLoaded(store, saved.memory, ok))
  BY <1>1, MemoryLoadedGood
<1>4. Size(store') = Size(store)
  BY <1>2, <1>3 DEF SameShape, Size
<1>5. ~store'.panicked
  BY <1>1, <1>2, MemoryLoadedDone
<1>6. SizesPart' /\ SavedPart' /\ Alive' /\ sizes' # {} /\ (OneSize' => Size(saved) = Size(store))
  BY <1>1, <1>2, <1>4, <1>5 DEF SizesPart, SavedPart, Alive, OneSize, Size
<1>7. FlashPart'
  <2>1. IsFlash(saved.flash) /\ IsJob(saved.job)
    BY <1>1, <1>2 DEF SavedPart
  <2>2. IsFlash(flash')
    BY <1>2, <2>1, FlashLoadedIs, Zenon
  <2>3. /\ flash'.large = flash.large /\ flash'.currentBank = saved.flash.currentBank
        /\ flash'.enableSelect = saved.flash.enableSelect
    BY <1>2, <2>1, FlashLoadedIs, Zenon
  <2>4. ASSUME cart.kind = "FLASH"
        PROVE  IsSized(flash', Size(store)) /\ (OneSize' => FlashFits(flash', Size(store)))
    <3>1. IsSized(flash', Size(store))
      BY <1>1, <2>3, <2>4 DEF FlashPart, IsSized
    <3>2. FlashFits(saved.flash, Size(saved))
      BY <1>1, <1>2, <2>4 DEF SavedPart
    <3>3. QED
      BY <1>6, <2>3, <3>1, <3>2 DEF FlashFits
  <2>5. cart.kind = "FLASH" => IsSized(flash, Size(store))' /\ (OneSize => FlashFits(flash, Size(store)))'
    BY <1>4, <2>4 DEF IsSized, FlashFits, Size
  <2>6. QED
    BY <1>2, <2>1, <2>2, <2>5 DEF FlashPart
<1>8. EepromPart'
  <2> SUFFICES ASSUME cart.kind = "EEPROM"
               PROVE  EepromPart'
    BY <1>2 DEF EepromPart
  <2>1. /\ IsEeprom(saved.eeprom) /\ IsFrame(saved.frame) /\ EepromFits(saved.eeprom, Size(saved))
        /\ IsEeprom(eeprom) /\ Sizes[eeprom.size].size = Size(store)
    BY <1>1, <1>2 DEF SavedPart, EepromPart
  <2>2. IsEeprom(eeprom')
    BY <1>2, <2>1, EEPROMLoadedIs, Zenon
  <2>3. eeprom'.size = eeprom.size /\ eeprom'.address = saved.eeprom.address
    BY <1>2, <2>1, EEPROMLoadedIs, Zenon
  <2>4. /\ (Sizes[eeprom.size].size = Size(store))'
        /\ (OneSize => EepromFits(eeprom, Size(store)))'
    BY <1>4, <1>6, <2>1, <2>3 DEF EepromFits, Size
  <2>5. QED
    BY <1>2, <1>6, <2>1, <2>2, <2>4 DEF EepromPart
<1>9. QED
  BY <1>6, <1>7, <1>8 DEF Fitting

\* So does a start of the machine, and a save.
LEMMA FittingRestart ==
  ASSUME Inv, Fitting, NEW opens \in BOOLEAN, NEW ok \in BOOLEAN, Restart(opens, ok)
  PROVE  Fitting'
<1>1. /\ cart' = cart /\ cart \in Cartridges /\ sizes' = {} /\ saved' = saved /\ job' = NoJob
      /\ frame' = NoFrame /\ flash' = ResetFlash(store') /\ eeprom' = EEPROMOf(cart, store')
      /\ store' = Opened(cart, store.disk, opens, ok)
  BY DEF Restart, Inv
<1>2. IsFile(store.disk)
  BY DEF Inv, Good, IsStore
<1> DEFINE s == Opened(cart, store.disk, opens, ok)
<1>3. /\ Good(s) /\ Fits(s, Valid(cart)) /\ ~s.panicked
      /\ cart.kind = "EEPROM" /\ ~s.stream =>
           Size(s) = Sizes[IF cart.hint = "Auto" THEN "64K" ELSE cart.hint].size
  BY <1>1, <1>2, OpenedGood
<1>4. s.stream \in BOOLEAN
  BY <1>3 DEF Good, IsStore
<1> HIDE DEF s
<1>5. SizesPart' /\ SavedPart' /\ Alive'
  BY <1>1, <1>3 DEF SizesPart, SavedPart, Alive, Fitting, Size, s
<1>6. FlashPart'
  <2>1. /\ IsFlash(ResetFlash(s)) /\ FlashFits(ResetFlash(s), Size(s))
        /\ (ResetFlash(s).large <=> Size(s) = 2 * BankSize)
    BY FreshFlash
  <2>2. cart.kind = "FLASH" => IsSized(ResetFlash(s), Size(s))
    BY <1>3, <2>1 DEF Fits, Valid, IsSized
  <2>3. flash' = ResetFlash(s) /\ store' = s
    BY <1>1 DEF s
  <2>4. /\ IsFlash(flash)' /\ FlashFits(flash, Size(store))'
        /\ (cart.kind = "FLASH" => IsSized(flash, Size(store)))'
    BY <1>1, <2>1, <2>2, <2>3 DEF FlashFits, IsSized, Size
  <2>5. IsJob(job)'
    BY <1>1 DEF IsJob, NoJob
  <2>6. QED
    BY <2>4, <2>5 DEF FlashPart
<1>7. EepromPart'
  <2> SUFFICES ASSUME cart.kind = "EEPROM"
               PROVE  EepromPart'
    BY <1>1 DEF EepromPart
  <2> DEFINE e == EEPROMOf(cart, s)
  <2>1. Size(s) \in Valid(cart)
    BY <1>3 DEF Fits
  <2>2. IsEeprom(e) /\ Sizes[e.size].size = Size(s) /\ EepromFits(e, Size(s)) /\ e.address = 0
    BY <1>1, <1>3, <1>4, <2>1, FreshEeprom
  <2> HIDE DEF e
  <2>3. eeprom' = e /\ store' = s
    BY <1>1 DEF s, e
  <2>4. IsFrame(frame)'
    BY <1>1 DEF IsFrame, NoFrame
  <2>5. /\ (Sizes[eeprom.size].size = Size(store))' /\ EepromFits(eeprom, Size(store))'
        /\ IsEeprom(eeprom)' /\ eeprom'.address = 0
    BY <2>2, <2>3 DEF EepromFits, Size
  <2>6. QED
    BY <1>1, <2>4, <2>5 DEF EepromPart
<1>8. QED
  BY <1>5, <1>6, <1>7 DEF Fitting

\* A save fits.
LEMMA FittingCopy ==
  ASSUME Inv, Fitting, CopyState
  PROVE  Fitting'
<1>1. Good(store) /\ FlashPart /\ EepromPart /\ SavedPart /\ SizesPart /\ Alive
  BY DEF Inv, Fitting
<1>2. /\ saved.of = "none" /\ store' = store /\ cart' = cart /\ sizes' = sizes
      /\ flash' = flash /\ job' = job /\ eeprom' = eeprom /\ frame' = frame
  BY DEF CopyState, flashVars, eepromVars
<1>3. sizes = {} /\ OneSize
  BY <1>1, <1>2 DEF SizesPart, OneSize
<1>4. /\ saved'.of = "cartridge" /\ saved'.memory = store.memory /\ saved'.flash = flash
      /\ saved'.job = job /\ saved'.eeprom = eeprom /\ saved'.frame = frame
  BY DEF CopyState
<1>5. Size(saved') = Size(store)
  BY <1>4 DEF Size
<1>6. SavedPart'
  <2>1. (Size(saved))' = Size(saved')
    BY DEF Size
  <2>2. IsFlash(saved'.flash) /\ IsJob(saved'.job)
    BY <1>1, <1>4 DEF FlashPart
  <2>3. cart.kind = "FLASH" => IsSized(saved'.flash, Size(saved')) /\ FlashFits(saved'.flash, Size(saved'))
    BY <1>1, <1>3, <1>4, <1>5 DEF FlashPart
  <2>4. cart.kind = "EEPROM" =>
          IsEeprom(saved'.eeprom) /\ IsFrame(saved'.frame) /\ EepromFits(saved'.eeprom, Size(saved'))
    BY <1>1, <1>3, <1>4, <1>5 DEF EepromPart
  <2>5. QED
    BY <1>2, <2>1, <2>2, <2>3, <2>4 DEF SavedPart, IsSized, FlashFits, EepromFits
<1>7. SizesPart'
  BY <1>2, <1>3 DEF SizesPart
<1>8. FlashPart' /\ EepromPart' /\ Alive'
  BY <1>1, <1>2 DEF FlashPart, EepromPart, Alive, OneSize, Size
<1>9. QED
  BY <1>6, <1>7, <1>8 DEF Fitting

\* A chip that is of no use to the step is as it was.
LEMMA FittingOthers ==
  ASSUME Inv, Fitting, cart' = cart, saved' = saved, cart.kind \notin {"FLASH", "EEPROM"},
         UNCHANGED <<flashVars, eepromVars>>, UsedWith(Size(store')),
         store'.panicked = store.panicked
  PROVE  Fitting'
<1>1. FlashPart /\ EepromPart /\ SavedPart /\ SizesPart /\ Alive
  BY DEF Fitting
<1>2. SizesPart' /\ (OneSize' => OneSize)
  BY <1>1, UsedSizes
<1>3. FlashPart' /\ EepromPart' /\ SavedPart'
  BY <1>1 DEF FlashPart, EepromPart, SavedPart, flashVars, Size
<1>4. QED
  BY <1>1, <1>2, <1>3 DEF Fitting, Alive

\* Every step keeps everything fitting.
LEMMA FittingNext == Inv /\ Fitting /\ [Next]_vars => Fitting'
<1> SUFFICES ASSUME Inv, Fitting, [Next]_vars
             PROVE  Fitting'
  OBVIOUS
<1>1. CASE UNCHANGED vars
  BY <1>1 DEF vars, flashVars, eepromVars, Fitting, FlashPart, EepromPart, SavedPart, SizesPart,
              Alive, OneSize, Size
<1>2. ASSUME Others("SRAM"), UNCHANGED <<flashVars, eepromVars, gpioVars>>,
             NEW i \in Cell0, NEW value \in {0, Erased}, NEW ok \in BOOLEAN, SRAMWrite(i, value, ok),
             UsedWith(Size(store'))
      PROVE  Fitting'
  <2>1. cart.kind = "SRAM" /\ cart' = cart /\ saved' = saved /\ cart \in Cartridges /\ Good(store)
    BY <1>2 DEF Others, Inv
  <2>2. store' = MemorySet(store, {i}, value, ok)
    BY <1>2 DEF SRAMWrite, Write
  <2>3. {i} \subseteq DOMAIN store.memory
    <3>1. Cell0 \subseteq Cells(BankSize)
      BY <2>1, CartridgesAssumption
    <3>2. Size(store) = BankSize
      BY <2>1 DEF Inv, Fits, Valid
    <3>3. QED
      BY <1>2, <2>1, <3>1, <3>2, StoreCells
  <2>4. store'.panicked = store.panicked
    BY <2>1, <2>2, <2>3, NoPanic
  <2>5. QED
    BY <1>2, <2>1, <2>4, FittingOthers
<1>3. CASE Others("FLASH") /\ UNCHANGED <<eepromVars, gpioVars>> /\ FlashNext /\ UsedWith(Size(store'))
  BY <1>3, FittingFlash
<1>4. ASSUME Others("EEPROM"), UNCHANGED <<flashVars, gpioVars>>, EepromNext, UsedWith(Size(store'))
      PROVE  Fitting'
  <2>1. CASE \E block \in Block : Begin("read", block, <<>>)
    <3>1. PICK block \in Block : Begin("read", block, <<>>)
      BY <2>1
    <3>2. QED
      BY <1>4, <3>1, FittingBegin
  <2>2. CASE \E block \in Block, data \in Data : Begin("write", block, data)
    <3>1. PICK block \in Block, data \in Data : Begin("write", block, data)
      BY <2>2
    <3>2. QED
      BY <1>4, <3>1, FittingBegin
  <2>3. CASE (\E ok \in BOOLEAN : Unit(ok)) \/ Answer \/ Ready
    BY <1>4, <2>3, FittingEepromStep
  <2>4. QED
    BY <1>4, <2>1, <2>2, <2>3 DEF EepromNext
<1>5. ASSUME Others("GPIO"), UNCHANGED <<did, store, flashVars, eepromVars>>, UsedWith(Size(store))
      PROVE  Fitting'
  BY <1>5, FittingOthers DEF Others, Size
<1>6. ASSUME NEW opens \in BOOLEAN, NEW ok \in BOOLEAN, Restart(opens, ok)
      PROVE  Fitting'
  BY <1>6, FittingRestart
<1>7. CASE CopyState
  BY <1>7, FittingCopy
<1>8. ASSUME NEW ok \in BOOLEAN, LoadState(ok)
      PROVE  Fitting'
  BY <1>8, FittingLoad
<1>9. QED
  BY <1>1, <1>2, <1>3, <1>4, <1>5, <1>6, <1>7, <1>8 DEF Next

\* No access is outside a memory, whatever the program sends, wherever it is
\* stopped and whichever states are loaded, as long as no state has brought a
\* chip's bank or address to a memory of another size.
THEOREM PanicsNeedTwoSizes == Spec => []PanicsAcrossSizesOnly
<1>1. Fitting => PanicsAcrossSizesOnly
  BY DEF Fitting, Alive, PanicsAcrossSizesOnly
<1>2. Spec => []Fitting
  BY FittingInit, FittingNext, InvHolds, PTL DEF Spec
<1>3. QED
  BY <1>1, <1>2, PTL
-----------------------------------------------------------------------------
\* How far the chip is in the command under way (j), or given up (o): between
\* commands; at the argument of one that was given up; where the program is;
\* or, since the first store was taken for that argument, a store behind.
Idle(f, j, o) == j = NoJob /\ o = "none" /\ f.phase # 3 /\ ~f.enableWrite

Torn(f, j, o) ==
  /\ o \in {"Program", "SelectBank"} /\ f.phase = 3 /\ (f.enableWrite <=> o = "Program")
  /\ j = NoJob \/ (j.sent = 0 /\ ~j.lost)

Sending(f, j, o) ==
  /\ j # NoJob /\ ~j.lost /\ o = "none"
  /\ \/ j.sent = 0 /\ f.phase # 3 /\ ~f.enableWrite
     \/ j.sent = 1 /\ f.phase \in {1, 2} /\ ~f.enableWrite
     \/ j.sent = 2 /\ f.phase = 2 /\ ~f.enableWrite
     \/ j.sent = 3 /\ j.cmd.op = "Program" /\ f.phase = 3 /\ f.enableWrite
     \/ /\ j.sent = 3 /\ j.cmd.op = "SelectBank" /\ ~f.enableWrite
        /\ (f.large /\ f.phase = 3 /\ f.enableSelect) \/ (~f.large /\ f.phase = 0)
     \/ /\ j.sent \in 3 .. 5 /\ j.cmd.op \in {"EraseSector", "EraseChip"} /\ ~f.enableWrite
        /\ f.phase = j.sent - 3 /\ f.enableErase

Lost(f, j, o) ==
  /\ j # NoJob /\ j.lost /\ o = "none" /\ ~f.enableWrite
  /\ \/ j.sent \in 1 .. 3 /\ f.phase = 0
     \/ j.sent \in 4 .. 5 /\ f.phase = j.sent - 3

\* The chip follows the program, in the machine and in the save state.
Follows(f, j, o) == Idle(f, j, o) \/ Torn(f, j, o) \/ Sending(f, j, o) \/ Lost(f, j, o)

Followed ==
  cart.kind = "FLASH" =>
    /\ OneSize => Follows(flash, job, orphan)
    /\ saved.of # "none" => Follows(saved.flash, saved.job, saved.orphan)

\* What a store does that changes no more of the chip than how far it is in a
\* command.
Same(p) ==
  /\ flash'.phase = p /\ flash'.large = flash.large /\ flash'.currentBank = flash.currentBank
  /\ flash'.enableChipID = flash.enableChipID
  /\ (flash'.enableErase <=> flash.enableErase) /\ (flash'.enableWrite <=> flash.enableWrite)
  /\ (flash'.enableSelect <=> flash.enableSelect)
  /\ store' = store

\* Setting the phase is such a store.
LEMMA SameOf ==
  ASSUME IsFlash(flash), NEW p, flash' = [flash EXCEPT !.phase = p], store' = store
  PROVE  Same(p)
<1> DEFINE g == FlashOf(flash.large, flash.currentBank, p, flash.enableChipID, flash.enableErase,
                        flash.enableWrite, flash.enableSelect)
<1>1. flash' = g
  BY FlashSet, Zenon
<1>2. QED
  BY <1>1 DEF FlashOf, Same

\* A store at each step of the preamble, one after it that is no command, and
\* one where an argument was expected that is none.
LEMMA AtFirst ==
  ASSUME IsFlash(flash), NEW a, NEW v, NEW ok, FlashWrite(a, v, ok), flash.phase = 0
  PROVE  Same(IF a = Unlock1 /\ v = First THEN 1 ELSE 0)
<1> DEFINE p == IF a = Unlock1 /\ v = First THEN 1 ELSE 0
<1>1. flash' = [flash EXCEPT !.phase = p] /\ store' = store
  BY DEF FlashWrite
<1> HIDE DEF p
<1>2. Same(p)
  BY <1>1, SameOf
<1>3. QED
  BY <1>2 DEF p

\* A byte while the second of the preamble is due.
LEMMA AtSecond ==
  ASSUME IsFlash(flash), NEW a, NEW v, NEW ok, FlashWrite(a, v, ok), flash.phase = 1
  PROVE  Same(IF a = Unlock2 /\ v = Second THEN 2 ELSE 1)
<1> DEFINE p == IF a = Unlock2 /\ v = Second THEN 2 ELSE 1
<1>1. flash' = [flash EXCEPT !.phase = p] /\ store' = store
  BY DEF FlashWrite
<1> HIDE DEF p
<1>2. Same(p)
  BY <1>1, SameOf
<1>3. QED
  BY <1>2 DEF p

\* A preamble sent again while a command is due changes nothing.
LEMMA PreambleAgain ==
  ASSUME IsFlash(flash), NEW a, NEW v, NEW ok, FlashWrite(a, v, ok), flash.phase = 2,
         (a = Unlock1 /\ v = First) \/ (a = Unlock2 /\ v = Second)
  PROVE  Same(2)
<1>1. Commanded(flash, First) = flash
  <2>1. First \notin {cmdReadChipID, cmdFinishChipID, cmdErase, cmdEraseChip, cmdWriteByte, cmdSelectBank}
    BY DEF First, cmdReadChipID, cmdFinishChipID, cmdErase, cmdEraseChip, cmdWriteByte, cmdSelectBank
  <2>2. QED
    BY <2>1, CommandedIs, Zenon
<1>2. Unlock2 # Unlock1
  BY FlashAssumption DEF FlashGeometry
<1>3. First # cmdEraseChip /\ Second # cmdEraseSector
  BY DEF First, Second, cmdEraseChip, cmdEraseSector
<1>4. HandleCommand(flash, a, v, ok)
  BY DEF FlashWrite
<1>5. flash' = flash /\ store' = store
  <2>1. CASE a = Unlock1 /\ v = First
    BY <1>1, <1>3, <1>4, <2>1 DEF HandleCommand
  <2>2. CASE a = Unlock2 /\ v = Second
    BY <1>2, <1>3, <1>4, <2>2 DEF HandleCommand
  <2>3. QED
    BY <2>1, <2>2
<1>6. QED
  BY <1>5 DEF Same

\* A byte that no command waits for ends the command.
LEMMA NoArgument ==
  ASSUME IsFlash(flash), NEW a, NEW v, NEW ok, FlashWrite(a, v, ok), flash.phase = 3,
         ~flash.enableWrite, ~(flash.enableSelect /\ a = 0)
  PROVE  Same(0)
<1>1. flash' = [flash EXCEPT !.phase = 0] /\ store' = store
  BY DEF FlashWrite, HandleExtended
<1>2. QED
  BY <1>1, SameOf

\* The command goes on by a store, or ends.
LEMMA JobAfter ==
  ASSUME IsJob(job), NEW ok \in BOOLEAN, Send(ok)
  PROVE  /\ job # NoJob /\ job.cmd \in Command /\ job.sent \in 0 .. Len(Stores(job.cmd)) - 1
         /\ FlashWrite(Stores(job.cmd)[job.sent + 1][1], Stores(job.cmd)[job.sent + 1][2], ok)
         /\ orphan' = "none"
         /\ Complete => job' = NoJob
         /\ ~Complete => /\ job' # NoJob /\ job'.cmd = job.cmd /\ job'.sent = job.sent + 1
                         /\ (job'.lost <=> job.lost \/ orphan # "none")
<1>1. job # NoJob /\ job.cmd \in Command /\ job.sent \in 0 .. Len(Stores(job.cmd)) - 1
  BY DEF Send, IsJob
<1>2. Complete => job' = NoJob
  BY DEF Send
<1>3. ASSUME ~Complete
      PROVE  /\ job' # NoJob /\ job'.cmd = job.cmd /\ job'.sent = job.sent + 1
             /\ (job'.lost <=> job.lost \/ orphan # "none")
  <2> DEFINE l == job.lost \/ orphan # "none"
  <2>1. job' = [job EXCEPT !.sent = job.sent + 1, !.lost = l]
    BY <1>3 DEF Send
  <2>2. job = [cmd |-> job.cmd, sent |-> job.sent, lost |-> job.lost]
    BY DEF IsJob
  <2>3. PICK b : b = l
    OBVIOUS
  <2>4. job' = [cmd |-> job.cmd, sent |-> job.sent + 1, lost |-> b]
    BY <2>1, <2>2, <2>3
  <2> HIDE DEF l
  <2>5. job'.cmd = job.cmd /\ job'.sent = job.sent + 1 /\ job'.lost = b
    BY <2>4
  <2>6. job'.sent # 0
    BY <1>1, <2>5
  <2>7. job' # NoJob
    BY <2>6 DEF NoJob
  <2>8. QED
    BY <2>3, <2>5, <2>7 DEF l
<1>4. QED
  BY <1>1, <1>2, <1>3 DEF Send

\* A store that changes nothing but the phase is all that a command does
\* before its last store, and what it may do if it was not recognised.
LEMMA StillWhole ==
  ASSUME NEW p, Same(p), ~Complete \/ job.lost, orphan # "Program"
  PROVE  WholeCommand
BY DEF Same, WholeCommand
-----------------------------------------------------------------------------
\* The commands there are.
Ops == {"Program", "SelectBank", "EraseSector", "EraseChip", "ReadChipID", "FinishChipID"}

\* Every command begins with the preamble and a word at the first address.
LEMMA Prelude ==
  ASSUME NEW cmd \in Command
  PROVE  /\ Stores(cmd)[1] = <<Unlock1, First>> /\ Stores(cmd)[2] = <<Unlock2, Second>>
         /\ Len(Stores(cmd)) \in {3, 4, 6} /\ Stores(cmd)[3][1] = Unlock1
         /\ Stores(cmd)[3][2] # First
<1>1. cmd.op \in Ops
  BY FlashAssumption DEF FlashCommands, Ops
<1> DEFINE W == {cmdReadChipID, cmdFinishChipID, cmdErase, cmdWriteByte, cmdSelectBank}
<1>2. First \notin W
  BY DEF First, cmdReadChipID, cmdFinishChipID, cmdErase, cmdWriteByte, cmdSelectBank
<1>3. (\E n \in {3, 4, 6} : Sends(cmd, n)) /\ (\E w \in W : Stores(cmd)[3] = <<Unlock1, w>>)
  <2>1. CASE cmd.op = "Program"
    <3>1. Sends(cmd, 4) /\ Stores(cmd)[3] = <<Unlock1, cmdWriteByte>>
      BY <2>1, StoresOf
    <3>2. QED
      BY <3>1
  <2>2. CASE cmd.op = "SelectBank"
    <3>1. Sends(cmd, 4) /\ Stores(cmd)[3] = <<Unlock1, cmdSelectBank>>
      BY <2>2, StoresOf
    <3>2. QED
      BY <3>1
  <2>3. CASE cmd.op \in {"EraseSector", "EraseChip"}
    <3>1. Sends(cmd, 6) /\ Stores(cmd)[3] = <<Unlock1, cmdErase>>
      BY <2>3, StoresOf
    <3>2. QED
      BY <3>1
  <2>4. CASE cmd.op = "ReadChipID"
    <3>1. Sends(cmd, 3) /\ Stores(cmd)[3] = <<Unlock1, cmdReadChipID>>
      BY <2>4, StoresOf
    <3>2. QED
      BY <3>1
  <2>5. CASE cmd.op = "FinishChipID"
    <3>1. Sends(cmd, 3) /\ Stores(cmd)[3] = <<Unlock1, cmdFinishChipID>>
      BY <2>5, StoresOf
    <3>2. QED
      BY <3>1
  <2>6. QED
    BY <1>1, <2>1, <2>2, <2>3, <2>4, <2>5 DEF Ops
<1>4. PICK n \in {3, 4, 6}, w \in W : Sends(cmd, n) /\ Stores(cmd)[3] = <<Unlock1, w>>
  BY <1>3
<1>5. w # First
  BY <1>2
<1>6. QED
  BY <1>4, <1>5 DEF Sends

\* Only an erasure has more than four stores.
LEMMA Longer ==
  ASSUME NEW cmd \in Command, NEW k \in Nat, k < Len(Stores(cmd))
  PROVE  /\ k <= 5
         /\ k = 3 => cmd.op \in {"Program", "SelectBank", "EraseSector", "EraseChip"}
         /\ k > 3 => cmd.op \in {"EraseSector", "EraseChip"}
<1>1. cmd.op \in Ops
  BY FlashAssumption DEF FlashCommands, Ops
<1>2. CASE cmd.op \in {"Program", "SelectBank"}
  <2>1. Sends(cmd, 4)
    BY <1>2, StoresOf
  <2>2. QED
    BY <1>2, <2>1 DEF Sends
<1>3. CASE cmd.op \in {"EraseSector", "EraseChip"}
  <2>1. Sends(cmd, 6)
    BY <1>3, StoresOf
  <2>2. QED
    BY <1>3, <2>1 DEF Sends
<1>4. CASE cmd.op \in {"ReadChipID", "FinishChipID"}
  <2>1. Sends(cmd, 3)
    BY <1>4, StoresOf
  <2>2. QED
    BY <1>4, <2>1 DEF Sends
<1>5. QED
  BY <1>1, <1>2, <1>3, <1>4 DEF Ops

\* The first store after a command that was given up: it is taken for the
\* argument that is missing.
LEMMA TornSend ==
  ASSUME Good(store), IsFlash(flash), IsJob(job), IsSized(flash, Size(store)),
         FlashFits(flash, Size(store)), NEW ok \in BOOLEAN, Send(ok), Torn(flash, job, orphan)
  PROVE  WholeCommand /\ Follows(flash', job', orphan')
<1>1. /\ job # NoJob /\ job.cmd \in Command /\ orphan' = "none"
      /\ FlashWrite(Stores(job.cmd)[job.sent + 1][1], Stores(job.cmd)[job.sent + 1][2], ok)
      /\ ~Complete => /\ job' # NoJob /\ job'.cmd = job.cmd /\ job'.sent = job.sent + 1
                      /\ (job'.lost <=> job.lost \/ orphan # "none")
  BY JobAfter
<1>2. /\ orphan \in {"Program", "SelectBank"} /\ flash.phase = 3
      /\ (flash.enableWrite <=> orphan = "Program") /\ job.sent = 0 /\ ~job.lost
  BY <1>1 DEF Torn
<1>3. Stores(job.cmd)[1] = <<Unlock1, First>> /\ Len(Stores(job.cmd)) \in {3, 4, 6}
  BY <1>1, Prelude
<1>4. ~Complete
  BY <1>2, <1>3 DEF Complete
<1>5. FlashWrite(Unlock1, First, ok)
  BY <1>1, <1>2, <1>3
<1>6. job' # NoJob /\ job'.lost /\ job'.sent = 1
  BY <1>1, <1>2, <1>4
<1>7. Unlock1 \in 0 .. BankSize - 1 /\ Unlock1 # 0
  BY FlashAssumption DEF FlashGeometry
<1>8. CASE orphan = "SelectBank"
  <2>1. Same(0)
    BY <1>2, <1>5, <1>7, <1>8, NoArgument
  <2>2. WholeCommand
    BY <1>4, <1>8, <2>1, StillWhole
  <2>3. Lost(flash', job', orphan')
    BY <1>1, <1>2, <1>6, <1>8, <2>1 DEF Lost, Same
  <2>4. QED
    BY <2>2, <2>3 DEF Follows
<1>9. CASE orphan = "Program"
  <2> DEFINE torn == flash.currentBank * BankSize + Unlock1
             m == [i \in DOMAIN store.memory |-> IF i \in {torn} THEN First ELSE store.memory[i]]
             g == FlashOf(flash.large, flash.currentBank, 0, flash.enableChipID, flash.enableErase,
                          FALSE, flash.enableSelect)
  <2>1. /\ flash' = [flash EXCEPT !.enableWrite = FALSE, !.phase = 0]
        /\ store' = MemorySet(store, {torn}, First, ok)
    BY <1>2, <1>5, <1>9 DEF FlashWrite, HandleExtended, Write, Physical
  <2>2. flash' = g
    BY <2>1, FlashSet, Zenon
  <2>3. /\ flash'.phase = 0 /\ ~flash'.enableWrite /\ flash'.currentBank = flash.currentBank
        /\ flash'.enableChipID = flash.enableChipID
    BY <2>2 DEF FlashOf
  <2>4. {torn} \subseteq DOMAIN store.memory
    <3>1. Size(store) \in {BankSize, 2 * BankSize} /\ DOMAIN store.memory = Cells(Size(store))
      BY StoreCells DEF IsSized
    <3>2. Physical(flash, Unlock1) \in Cells(Size(store))
      BY <1>7, <3>1, PhysicalCells
    <3>3. QED
      BY <3>1, <3>2 DEF Physical
  <2> HIDE DEF torn, g
  <2>5. store'.memory = m
    BY <2>1, <2>4, SpanSet
  <2>6. m = [store.memory EXCEPT ![torn] = First]
    BY <2>4 DEF Good, IsStore, IsFile
  <2> HIDE DEF m
  <2>7. WholeCommand
    BY <1>4, <1>9, <2>3, <2>5, <2>6 DEF WholeCommand, torn
  <2>8. Lost(flash', job', orphan')
    BY <1>1, <1>6, <2>3 DEF Lost
  <2>9. QED
    BY <2>7, <2>8 DEF Follows
<1>10. QED
  BY <1>2, <1>8, <1>9

\* What the last store of an erasure does, if the chip takes it for that.
Erases(cmd) ==
  /\ store'.memory = IF flash.enableErase THEN Effect(cmd, store.memory, flash) ELSE store.memory
  /\ flash'.phase # 3 /\ flash'.currentBank = flash.currentBank
  /\ flash'.enableChipID = flash.enableChipID /\ (flash'.enableWrite <=> flash.enableWrite)

\* An erasure of a sector, and of the chip.
LEMMA SectorErased ==
  ASSUME Good(store), IsFlash(flash), IsSized(flash, Size(store)), FlashFits(flash, Size(store)),
         NEW cmd \in Command, cmd.op = "EraseSector", NEW ok \in BOOLEAN,
         FlashWrite(cmd.at, cmdEraseSector, ok), flash.phase = 2
  PROVE  Erases(cmd)
<1> DEFINE x == flash.currentBank * BankSize
           at == x + cmd.at
           m == [i \in DOMAIN store.memory |-> IF i \in at .. at + SectorSize - 1 THEN Erased ELSE store.memory[i]]
<1>1. /\ cmd.at \in 0 .. BankSize - 1 /\ cmd.at % SectorSize = 0 /\ cmd.at # Unlock1
      /\ SectorSize \in Nat /\ BankSize \in Nat
  BY FlashAssumption DEF FlashCommands, FlashGeometry
<1>2. HandleCommand(flash, cmd.at, cmdEraseSector, ok)
  BY DEF FlashWrite
<1>3. CASE ~flash.enableErase
  <2>1. flash' = flash /\ store' = store
    BY <1>1, <1>2, <1>3 DEF HandleCommand
  <2>2. QED
    BY <1>3, <2>1 DEF Erases
<1>4. CASE flash.enableErase
  <2> DEFINE g == FlashOf(flash.large, flash.currentBank, 0, flash.enableChipID, FALSE,
                          flash.enableWrite, flash.enableSelect)
             span == Sector(flash, cmd.at)
  <2>1. /\ flash' = [flash EXCEPT !.enableErase = FALSE, !.phase = 0]
        /\ store' = MemorySet(store, span, Erased, ok)
    BY <1>1, <1>2, <1>4 DEF HandleCommand
  <2>2. flash' = g
    BY <2>1, FlashSet, Zenon
  <2>3. /\ flash'.phase = 0 /\ flash'.currentBank = flash.currentBank
        /\ flash'.enableChipID = flash.enableChipID /\ (flash'.enableWrite <=> flash.enableWrite)
    BY <2>2 DEF FlashOf
  <2> HIDE DEF g
  <2>4. x \in Nat
    <3>1. flash.currentBank \in {0, 1}
      BY DEF IsFlash
    <3>2. QED
      BY <1>1, <3>1
  <2>5. span = at .. at + SectorSize - 1
    <3>1. span = {x + i : i \in cmd.at .. cmd.at + SectorSize - 1}
      BY DEF Sector, Physical
    <3> HIDE DEF x
    <3>2. \A j \in at .. at + SectorSize - 1 : j - x \in cmd.at .. cmd.at + SectorSize - 1 /\ x + (j - x) = j
      BY <1>1, <2>4
    <3>3. \A i \in cmd.at .. cmd.at + SectorSize - 1 : x + i \in at .. at + SectorSize - 1
      BY <1>1, <2>4
    <3>4. QED
      BY <3>1, <3>2, <3>3
  <2>6. span \subseteq DOMAIN store.memory
    <3>1. Size(store) \in {BankSize, 2 * BankSize} /\ DOMAIN store.memory = Cells(Size(store))
      BY StoreCells DEF IsSized
    <3>2. QED
      BY <1>1, <3>1, PhysicalCells
  <2> HIDE DEF span
  <2>7. m = [i \in DOMAIN store.memory |-> IF i \in span THEN Erased ELSE store.memory[i]]
    BY <2>5
  <2>8. Effect(cmd, store.memory, flash) = m
    BY DEF Effect
  <2> HIDE DEF m
  <2>9. store'.memory = m
    BY <2>1, <2>6, <2>7, SpanSet
  <2>10. QED
    BY <1>4, <2>3, <2>8, <2>9 DEF Erases
<1>5. QED
  BY <1>3, <1>4

\* A whole chip is erased.
LEMMA ChipErased ==
  ASSUME Good(store), IsFlash(flash),
         NEW cmd \in Command, cmd.op = "EraseChip", NEW ok \in BOOLEAN,
         FlashWrite(Unlock1, cmdEraseChip, ok), flash.phase = 2
  PROVE  Erases(cmd)
<1> DEFINE g == FlashOf(flash.large, flash.currentBank, 0, flash.enableChipID, FALSE,
                        flash.enableWrite, flash.enableSelect)
           span == DOMAIN store.memory
           m == [i \in DOMAIN store.memory |-> Erased]
<1>1. HandleCommand(flash, Unlock1, cmdEraseChip, ok)
  BY DEF FlashWrite
<1>2. /\ flash' = Commanded(flash, cmdEraseChip)
      /\ store' = IF flash.enableErase THEN MemorySet(store, span, Erased, ok) ELSE store
  BY <1>1 DEF HandleCommand
<1>3. flash' = g
  BY <1>2, CommandedIs, Zenon
<1>4. /\ flash'.phase = 0 /\ flash'.currentBank = flash.currentBank
      /\ flash'.enableChipID = flash.enableChipID /\ (flash'.enableWrite <=> flash.enableWrite)
  BY <1>3 DEF FlashOf
<1> HIDE DEF g
<1>5. m = [i \in DOMAIN store.memory |-> IF i \in span THEN Erased ELSE store.memory[i]]
  OBVIOUS
<1>6. Effect(cmd, store.memory, flash) = m
  BY DEF Effect
<1> HIDE DEF m
<1>7. flash.enableErase => store'.memory = m
  <2>1. span \subseteq DOMAIN store.memory
    OBVIOUS
  <2> HIDE DEF span
  <2>2. QED
    BY <1>2, <1>5, <2>1, SpanSet
<1>8. QED
  BY <1>2, <1>4, <1>6, <1>7 DEF Erases

\* A store of a command that was not recognised from its beginning.
LEMMA LostSend ==
  ASSUME Good(store), IsFlash(flash), IsJob(job), IsSized(flash, Size(store)),
         FlashFits(flash, Size(store)), NEW ok \in BOOLEAN, Send(ok), Lost(flash, job, orphan)
  PROVE  WholeCommand /\ Follows(flash', job', orphan')
<1> DEFINE n == Len(Stores(job.cmd))
           s == Stores(job.cmd)
           k == job.sent
<1>1. /\ job.cmd \in Command /\ orphan' = "none" /\ k \in 0 .. n - 1
      /\ FlashWrite(s[k + 1][1], s[k + 1][2], ok)
      /\ Complete => job' = NoJob
      /\ ~Complete => /\ job' # NoJob /\ job'.cmd = job.cmd /\ job'.sent = job.sent + 1
                      /\ (job'.lost <=> job.lost \/ orphan # "none")
  BY JobAfter
<1>2. /\ job.lost /\ orphan = "none" /\ ~flash.enableWrite
      /\ (k \in 1 .. 3 /\ flash.phase = 0) \/ (k \in 4 .. 5 /\ flash.phase = k - 3)
  BY DEF Lost
<1>3. /\ s[1] = <<Unlock1, First>> /\ s[2] = <<Unlock2, Second>>
      /\ n \in {3, 4, 6} /\ s[3][1] = Unlock1 /\ s[3][2] # First
  BY <1>1, Prelude
<1>4. /\ k = 3 => job.cmd.op \in {"Program", "SelectBank", "EraseSector", "EraseChip"}
      /\ k > 3 => job.cmd.op \in {"EraseSector", "EraseChip"}
  <2>1. k \in Nat /\ k < n
    BY <1>1, <1>3
  <2>2. QED
    BY <1>1, <2>1, Longer
<1>5. Complete <=> k = n - 1
  BY DEF Complete
<1>6. Unlock1 # Unlock2
  BY FlashAssumption DEF FlashGeometry
<1> HIDE DEF n, s, k
<1>10. k = job.sent
  BY DEF k
<1>7. ASSUME NEW p \in {0, 1, 2}, Same(p),
             Complete \/ (k + 1 \in 1 .. 3 /\ p = 0) \/ (k + 1 \in 4 .. 5 /\ p = k + 1 - 3)
      PROVE  WholeCommand /\ Follows(flash', job', orphan')
  <2>1. WholeCommand
    BY <1>2, <1>7, StillWhole
  <2>2. flash'.phase = p /\ ~flash'.enableWrite
    BY <1>2, <1>7 DEF Same
  <2>3. CASE Complete
    BY <1>1, <2>1, <2>2, <2>3 DEF Follows, Idle
  <2>4. CASE ~Complete
    <3>1. Lost(flash', job', orphan')
      BY <1>1, <1>2, <1>7, <1>10, <2>2, <2>4 DEF Lost
    <3>2. QED
      BY <2>1, <3>1 DEF Follows
  <2>5. QED
    BY <2>3, <2>4
<1>8. CASE k = 1 \/ k = 2
  <2> DEFINE a == s[k + 1][1]
             v == s[k + 1][2]
  <2>1. FlashWrite(a, v, ok) /\ flash.phase = 0
    BY <1>1, <1>2, <1>8
  <2>2. ~(a = Unlock1 /\ v = First)
    BY <1>3, <1>6, <1>8
  <2> HIDE DEF a, v
  <2>3. Same(0)
    BY <2>1, <2>2, AtFirst
  <2>4. QED
    BY <1>7, <1>8, <2>3
<1>9. CASE k = 3 /\ job.cmd.op \in {"Program", "SelectBank"}
  <2> DEFINE a == s[k + 1][1]
             v == s[k + 1][2]
  <2>1. FlashWrite(a, v, ok) /\ flash.phase = 0
    BY <1>1, <1>2, <1>9
  <2> HIDE DEF a, v
  <2>2. \E p \in {0, 1} : Same(p)
    BY <2>1, AtFirst
  <2>3. n = 4
    <3>1. Sends(job.cmd, 4)
      BY <1>1, <1>9, StoresOf
    <3>2. QED
      BY <3>1 DEF Sends, n
  <2>4. Complete
    BY <1>5, <1>9, <2>3
  <2>5. QED
    BY <1>7, <2>2, <2>4
<1>11. ASSUME job.cmd.op \in {"EraseSector", "EraseChip"}
       PROVE  /\ n = 6 /\ s[4] = <<Unlock1, First>> /\ s[5] = <<Unlock2, Second>>
              /\ s[6] = IF job.cmd.op = "EraseSector" THEN <<job.cmd.at, cmdEraseSector>>
                                                      ELSE <<Unlock1, cmdEraseChip>>
  <2>1. /\ Sends(job.cmd, 6) /\ Stores(job.cmd)[4] = <<Unlock1, First>>
        /\ Stores(job.cmd)[5] = <<Unlock2, Second>>
        /\ Stores(job.cmd)[6] = IF job.cmd.op = "EraseSector" THEN <<job.cmd.at, cmdEraseSector>>
                                                              ELSE <<Unlock1, cmdEraseChip>>
    BY <1>1, <1>11, StoresOf
  <2>2. QED
    BY <2>1 DEF Sends, n, s
<1>12. CASE k = 3 /\ job.cmd.op \in {"EraseSector", "EraseChip"}
  <2>1. FlashWrite(Unlock1, First, ok) /\ flash.phase = 0
    BY <1>1, <1>2, <1>11, <1>12
  <2>2. Same(1)
    BY <2>1, AtFirst
  <2>3. QED
    BY <1>7, <1>12, <2>2
<1>13. CASE k = 4
  <2>1. FlashWrite(Unlock2, Second, ok) /\ flash.phase = 1
    BY <1>1, <1>2, <1>4, <1>11, <1>13
  <2>2. Same(2)
    BY <2>1, AtSecond
  <2>3. QED
    BY <1>7, <1>13, <2>2
<1>14. CASE k = 5
  <2>1. job.cmd.op \in {"EraseSector", "EraseChip"} /\ flash.phase = 2 /\ Complete
    BY <1>2, <1>4, <1>5, <1>11, <1>14
  <2>2. Erases(job.cmd)
    <3>1. CASE job.cmd.op = "EraseSector"
      <4>1. FlashWrite(job.cmd.at, cmdEraseSector, ok)
        BY <1>1, <1>11, <1>14, <3>1
      <4>2. QED
        BY <1>1, <2>1, <3>1, <4>1, SectorErased
    <3>2. CASE job.cmd.op = "EraseChip"
      <4>1. FlashWrite(Unlock1, cmdEraseChip, ok)
        BY <1>1, <1>11, <1>14, <3>2
      <4>2. QED
        BY <1>1, <2>1, <3>2, <4>1, ChipErased
    <3>3. QED
      BY <2>1, <3>1, <3>2
  <2>3. WholeCommand
    BY <1>2, <2>1, <2>2 DEF WholeCommand, Erases
  <2>4. Idle(flash', job', orphan')
    BY <1>1, <1>2, <2>1, <2>2 DEF Idle, Erases
  <2>5. QED
    BY <2>3, <2>4 DEF Follows
<1>15. k \in 1 .. 5
  BY <1>2
<1>16. QED
  BY <1>4, <1>8, <1>9, <1>12, <1>13, <1>14, <1>15

\* The word that says which command it is.
LEMMA CommandWord ==
  ASSUME flash.phase = 2, NEW ok, NEW v,
         v \in {cmdReadChipID, cmdFinishChipID, cmdErase, cmdWriteByte, cmdSelectBank},
         FlashWrite(Unlock1, v, ok)
  PROVE  flash' = Commanded(flash, v) /\ store' = store
<1>1. v # cmdEraseChip
  BY DEF cmdReadChipID, cmdFinishChipID, cmdErase, cmdWriteByte, cmdSelectBank, cmdEraseChip
<1>2. HandleCommand(flash, Unlock1, v, ok)
  BY DEF FlashWrite
<1>3. QED
  BY <1>1, <1>2 DEF HandleCommand

\* The store that carries a command's argument, in the chip that expects it.
LEMMA ProgramSend ==
  ASSUME Good(store), IsFlash(flash), IsSized(flash, Size(store)), FlashFits(flash, Size(store)),
         NEW cmd \in Command, cmd.op = "Program", NEW ok \in BOOLEAN,
         FlashWrite(cmd.at, cmd.value, ok), flash.phase = 3, flash.enableWrite
  PROVE  /\ store'.memory = Effect(cmd, store.memory, flash)
         /\ flash'.phase = 0 /\ ~flash'.enableWrite /\ flash'.currentBank = flash.currentBank
         /\ flash'.enableChipID = flash.enableChipID
<1> DEFINE at == flash.currentBank * BankSize + cmd.at
           m == [i \in DOMAIN store.memory |-> IF i \in {at} THEN cmd.value ELSE store.memory[i]]
           g == FlashOf(flash.large, flash.currentBank, 0, flash.enableChipID, flash.enableErase,
                        FALSE, flash.enableSelect)
<1>1. /\ flash' = [flash EXCEPT !.enableWrite = FALSE, !.phase = 0]
      /\ store' = MemorySet(store, {at}, cmd.value, ok)
  BY DEF FlashWrite, HandleExtended, Write, Physical
<1>2. flash' = g
  <2>1. \A p, w : [flash EXCEPT !.enableWrite = w, !.phase = p] =
          FlashOf(flash.large, flash.currentBank, p, flash.enableChipID, flash.enableErase, w, flash.enableSelect)
    BY FlashSet, Zenon
  <2>2. QED
    BY <1>1, <2>1, Zenon
<1>3. /\ flash'.phase = 0 /\ ~flash'.enableWrite /\ flash'.currentBank = flash.currentBank
      /\ flash'.enableChipID = flash.enableChipID
  BY <1>2 DEF FlashOf
<1>4. {at} \subseteq DOMAIN store.memory
  <2>1. Size(store) \in {BankSize, 2 * BankSize} /\ DOMAIN store.memory = Cells(Size(store))
    BY StoreCells DEF IsSized
  <2>2. cmd.at \in 0 .. BankSize - 1
    BY FlashAssumption DEF FlashCommands
  <2>3. Physical(flash, cmd.at) \in Cells(Size(store))
    BY <2>1, <2>2, PhysicalCells
  <2>4. QED
    BY <2>1, <2>3 DEF Physical
<1>5. Effect(cmd, store.memory, flash) = [store.memory EXCEPT ![at] = cmd.value]
  BY DEF Effect
<1> HIDE DEF at, g
<1>6. store'.memory = m
  BY <1>1, <1>4, SpanSet
<1>7. m = [store.memory EXCEPT ![at] = cmd.value]
  BY <1>4 DEF Good, IsStore, IsFile
<1> HIDE DEF m
<1>8. QED
  BY <1>3, <1>5, <1>6, <1>7

\* The bank is selected, by a chip that has banks.
LEMMA SelectSend ==
  ASSUME IsFlash(flash), NEW cmd \in Command, cmd.op = "SelectBank", NEW ok \in BOOLEAN,
         FlashWrite(0, cmd.bank, ok), ~flash.enableWrite,
         (flash.large /\ flash.phase = 3 /\ flash.enableSelect) \/ (~flash.large /\ flash.phase = 0)
  PROVE  /\ store' = store /\ Effect(cmd, store.memory, flash) = store.memory
         /\ flash'.phase = 0 /\ ~flash'.enableWrite /\ flash'.currentBank = BankAfter(cmd, flash)
         /\ flash'.enableChipID = flash.enableChipID
<1>1. cmd.bank \in {0, 1} /\ Unlock1 # 0
  BY FlashAssumption DEF FlashCommands, FlashGeometry
<1>2. Effect(cmd, store.memory, flash) = store.memory
  BY DEF Effect
<1>3. CASE ~flash.large
  <2>1. Same(IF 0 = Unlock1 /\ cmd.bank = First THEN 1 ELSE 0)
    BY <1>3, AtFirst
  <2>2. QED
    BY <1>1, <1>2, <1>3, <2>1 DEF Same, BankAfter
<1>4. CASE flash.large
  <2> DEFINE g == FlashOf(flash.large, cmd.bank, 0, flash.enableChipID, flash.enableErase,
                          flash.enableWrite, FALSE)
  <2>1. flash' = [flash EXCEPT !.currentBank = cmd.bank % 2, !.enableSelect = FALSE, !.phase = 0]
        /\ store' = store
    BY <1>4 DEF FlashWrite, HandleExtended
  <2>2. cmd.bank % 2 = cmd.bank
    BY <1>1
  <2>3. \A b, s, p : [flash EXCEPT !.currentBank = b, !.enableSelect = s, !.phase = p] =
              FlashOf(flash.large, b, p, flash.enableChipID, flash.enableErase, flash.enableWrite, s)
    BY FlashSet, Zenon
  <2>4. flash' = g
    BY <2>1, <2>2, <2>3, Zenon
  <2>5. /\ flash'.phase = 0 /\ ~flash'.enableWrite /\ flash'.currentBank = cmd.bank
        /\ flash'.enableChipID = flash.enableChipID
    BY <2>4 DEF FlashOf
  <2>6. QED
    BY <1>2, <1>4, <2>1, <2>5 DEF BankAfter
<1>5. QED
  BY <1>3, <1>4

\* A store of a command that has been recognised so far.
LEMMA PreambleSend ==
  ASSUME IsFlash(flash), IsJob(job), NEW ok \in BOOLEAN, Send(ok), Sending(flash, job, orphan),
         job.sent \in {0, 1}
  PROVE  WholeCommand /\ Follows(flash', job', orphan')
<1> DEFINE s == Stores(job.cmd)
           k == job.sent
<1>1. /\ job.cmd \in Command /\ orphan' = "none"
      /\ FlashWrite(s[k + 1][1], s[k + 1][2], ok)
      /\ ~Complete => /\ job' # NoJob /\ job'.cmd = job.cmd /\ job'.sent = job.sent + 1
                      /\ (job'.lost <=> job.lost \/ orphan # "none")
  BY JobAfter
<1>2. /\ ~job.lost /\ orphan = "none" /\ ~flash.enableWrite
      /\ (k = 0 /\ flash.phase # 3) \/ (k = 1 /\ flash.phase \in {1, 2})
  BY DEF Sending
<1>3. s[1] = <<Unlock1, First>> /\ s[2] = <<Unlock2, Second>> /\ Len(s) \in {3, 4, 6}
  BY <1>1, Prelude
<1>4. ~Complete
  <2>1. Len(Stores(job.cmd)) - 1 \in {2, 3, 5}
    BY <1>3
  <2>2. job.sent # Len(Stores(job.cmd)) - 1
    <3>1. PICK n : n = Len(Stores(job.cmd)) - 1
      OBVIOUS
    <3>2. n # 0 /\ n # 1
      BY <2>1, <3>1
    <3>3. QED
      BY <3>1, <3>2
  <2>3. QED
    BY <2>2 DEF Complete
<1>5. Unlock1 # Unlock2
  BY FlashAssumption DEF FlashGeometry
<1>6. flash.phase \in {0, 1, 2, 3}
  BY DEF IsFlash
<1> HIDE DEF s
<1>7. \E p \in {1, 2} : Same(p) /\ (k = 1 => p = 2)
  <2>1. CASE k = 0
    <3>1. FlashWrite(Unlock1, First, ok)
      BY <1>1, <1>3, <2>1
    <3>2. flash.phase = 0 => Same(1)
      BY <3>1, AtFirst
    <3>3. flash.phase = 1 => Same(1)
      BY <3>1, <1>5, AtSecond
    <3>4. flash.phase = 2 => Same(2)
      BY <3>1, PreambleAgain
    <3>5. QED
      BY <1>2, <1>6, <2>1, <3>2, <3>3, <3>4
  <2>2. CASE k = 1
    <3>1. FlashWrite(Unlock2, Second, ok)
      BY <1>1, <1>3, <2>2
    <3>2. flash.phase = 1 => Same(2)
      BY <3>1, AtSecond
    <3>3. flash.phase = 2 => Same(2)
      BY <3>1, PreambleAgain
    <3>4. QED
      BY <1>2, <2>2, <3>2, <3>3
  <2>3. QED
    BY <2>1, <2>2
<1>8. PICK p \in {1, 2} : Same(p) /\ (k = 1 => p = 2)
  BY <1>7
<1>9. WholeCommand
  BY <1>2, <1>4, <1>8, StillWhole
<1>10. flash'.phase = p /\ ~flash'.enableWrite
  BY <1>2, <1>8 DEF Same
<1>11. job' # NoJob /\ job'.sent = k + 1 /\ ~job'.lost
  BY <1>1, <1>2, <1>4
<1>12. Sending(flash', job', orphan')
  BY <1>1, <1>8, <1>10, <1>11 DEF Sending
<1>13. QED
  BY <1>9, <1>12 DEF Follows

\* The word of a command that has been recognised.
LEMMA WordSend ==
  ASSUME IsFlash(flash), IsJob(job), NEW ok \in BOOLEAN, Send(ok), Sending(flash, job, orphan),
         job.sent = 2
  PROVE  WholeCommand /\ Follows(flash', job', orphan')
<1> DEFINE s == Stores(job.cmd)
           cmd == job.cmd
           Left(p, i, e, w, b) == FlashOf(flash.large, flash.currentBank, p, i, e, w, b)
           Id == flash.enableChipID
           Er == flash.enableErase
           Wr == flash.enableWrite
           Se == flash.enableSelect
<1>1. /\ cmd \in Command /\ orphan' = "none"
      /\ FlashWrite(s[3][1], s[3][2], ok)
      /\ Complete => job' = NoJob
      /\ ~Complete => /\ job' # NoJob /\ job'.cmd = cmd /\ job'.sent = 3
                      /\ (job'.lost <=> job.lost \/ orphan # "none")
  BY JobAfter
<1>2. ~job.lost /\ orphan = "none" /\ ~flash.enableWrite /\ flash.phase = 2
  BY DEF Sending
<1>3. cmd.op \in Ops
  BY <1>1, FlashAssumption DEF FlashCommands, Ops
<1>4. CASE cmd.op = "Program"
  <2>1. Sends(cmd, 4) /\ s[3] = <<Unlock1, cmdWriteByte>>
    BY <1>4, StoresOf
  <2>2. ~Complete
    BY <2>1 DEF Complete, Sends
  <2>3. flash' = Commanded(flash, cmdWriteByte) /\ store' = store
    BY <1>1, <1>2, <2>1, CommandWord
  <2>4. flash' = Left(3, Id, Er, TRUE, Se)
    BY <2>3, CommandedIs, Zenon
  <2>5. /\ flash'.phase = 3 /\ flash'.enableWrite /\ flash'.currentBank = flash.currentBank
        /\ flash'.enableChipID = flash.enableChipID
    BY <2>4 DEF FlashOf
  <2>6. WholeCommand
    BY <1>2, <2>2, <2>3, <2>5 DEF WholeCommand
  <2>7. Sending(flash', job', orphan')
    BY <1>1, <1>2, <1>4, <2>2, <2>5 DEF Sending
  <2>8. QED
    BY <2>6, <2>7 DEF Follows
<1>5. CASE cmd.op = "SelectBank"
  <2>1. Sends(cmd, 4) /\ s[3] = <<Unlock1, cmdSelectBank>>
    BY <1>5, StoresOf
  <2>2. ~Complete
    BY <2>1 DEF Complete, Sends
  <2>3. flash' = Commanded(flash, cmdSelectBank) /\ store' = store
    BY <1>1, <1>2, <2>1, CommandWord
  <2>4. flash.large => flash' = Left(3, Id, Er, Wr, TRUE)
    BY <2>3, CommandedIs, Zenon
  <2>5. ~flash.large => flash' = Left(0, Id, Er, Wr, Se)
    BY <2>3, CommandedIs, Zenon
  <2>6. /\ ~flash'.enableWrite /\ flash'.currentBank = flash.currentBank
        /\ flash'.enableChipID = flash.enableChipID
        /\ (flash'.large /\ flash'.phase = 3 /\ flash'.enableSelect) \/ (~flash'.large /\ flash'.phase = 0)
    <3>1. CASE flash.large
      BY <1>2, <2>4, <3>1 DEF FlashOf
    <3>2. CASE ~flash.large
      BY <1>2, <2>5, <3>2 DEF FlashOf
    <3>3. QED
      BY <3>1, <3>2
  <2>7. WholeCommand
    BY <1>2, <2>2, <2>3, <2>6 DEF WholeCommand
  <2>8. Sending(flash', job', orphan')
    BY <1>1, <1>2, <1>5, <2>2, <2>6 DEF Sending
  <2>9. QED
    BY <2>7, <2>8 DEF Follows
<1>6. CASE cmd.op \in {"EraseSector", "EraseChip"}
  <2>1. Sends(cmd, 6) /\ s[3] = <<Unlock1, cmdErase>>
    BY <1>6, StoresOf
  <2>2. ~Complete
    BY <2>1 DEF Complete, Sends
  <2>3. flash' = Commanded(flash, cmdErase) /\ store' = store
    BY <1>1, <1>2, <2>1, CommandWord
  <2>4. flash' = Left(0, Id, TRUE, Wr, Se)
    BY <2>3, CommandedIs, Zenon
  <2>5. /\ flash'.phase = 0 /\ ~flash'.enableWrite /\ flash'.currentBank = flash.currentBank
        /\ flash'.enableChipID = flash.enableChipID /\ flash'.enableErase
    BY <1>2, <2>4 DEF FlashOf
  <2>6. WholeCommand
    BY <1>2, <2>2, <2>3, <2>5 DEF WholeCommand
  <2>7. Sending(flash', job', orphan')
    BY <1>1, <1>2, <1>6, <2>2, <2>5 DEF Sending
  <2>8. QED
    BY <2>6, <2>7 DEF Follows
<1>7. CASE cmd.op \in {"ReadChipID", "FinishChipID"}
  <2> DEFINE id == cmd.op = "ReadChipID"
             v == IF id THEN cmdReadChipID ELSE cmdFinishChipID
  <2>1. Sends(cmd, 3)
    BY <1>7, StoresOf
  <2>2. s[3] = <<Unlock1, v>>
    BY <1>7, StoresOf
  <2>3. Complete
    BY <2>1 DEF Complete, Sends
  <2>4. flash' = Commanded(flash, v) /\ store' = store
    <3>1. FlashWrite(Unlock1, v, ok) /\ v \in {cmdReadChipID, cmdFinishChipID, cmdErase, cmdWriteByte, cmdSelectBank}
      BY <1>1, <2>2
    <3>2. QED
      BY <1>2, <3>1, CommandWord
  <2>5. /\ id => flash' = Left(0, TRUE, Er, Wr, Se)
        /\ ~id => flash' = Left(0, FALSE, Er, Wr, Se)
    <3>1. Commanded(flash, cmdReadChipID) = Left(0, TRUE, Er, Wr, Se)
      BY CommandedIs, Zenon
    <3>2. Commanded(flash, cmdFinishChipID) = Left(0, FALSE, Er, Wr, Se)
      BY CommandedIs, Zenon
    <3> HIDE DEF id, Left
    <3>3. QED
      BY <2>4, <3>1, <3>2, Zenon
  <2>6. /\ flash'.phase = 0 /\ ~flash'.enableWrite /\ flash'.currentBank = flash.currentBank
        /\ flash'.enableChipID = ShowsID(cmd, flash)
    <3>1. CASE id
      <4>1. ShowsID(cmd, flash) = TRUE
        BY <3>1 DEF ShowsID
      <4>2. flash' = Left(0, TRUE, Er, Wr, Se)
        BY <2>5, <3>1
      <4>3. QED
        BY <1>2, <4>1, <4>2 DEF FlashOf
    <3>2. CASE ~id
      <4>1. ShowsID(cmd, flash) = FALSE
        BY <1>7, <3>2 DEF ShowsID
      <4>2. flash' = Left(0, FALSE, Er, Wr, Se)
        BY <2>5, <3>2
      <4>3. QED
        BY <1>2, <4>1, <4>2 DEF FlashOf
    <3>3. QED
      BY <3>1, <3>2
  <2>7. Effect(cmd, store.memory, flash) = store.memory /\ BankAfter(cmd, flash) = flash.currentBank
    BY <1>7 DEF Effect, BankAfter
  <2>8. WholeCommand
    BY <1>2, <2>3, <2>4, <2>6, <2>7 DEF WholeCommand
  <2>9. Idle(flash', job', orphan')
    BY <1>1, <2>3, <2>6 DEF Idle
  <2>10. QED
    BY <2>8, <2>9 DEF Follows
<1>8. QED
  BY <1>3, <1>4, <1>5, <1>6, <1>7 DEF Ops

\* Its argument.
LEMMA ArgumentSend ==
  ASSUME Good(store), IsFlash(flash), IsJob(job), IsSized(flash, Size(store)),
         FlashFits(flash, Size(store)), NEW ok \in BOOLEAN, Send(ok), Sending(flash, job, orphan),
         job.sent = 3, job.cmd.op \in {"Program", "SelectBank"}
  PROVE  WholeCommand /\ Follows(flash', job', orphan')
<1> DEFINE s == Stores(job.cmd)
           cmd == job.cmd
<1>1. /\ cmd \in Command /\ orphan' = "none" /\ FlashWrite(s[4][1], s[4][2], ok)
      /\ Complete => job' = NoJob
  BY JobAfter
<1>2. /\ ~job.lost /\ orphan = "none"
      /\ \/ cmd.op = "Program" /\ flash.phase = 3 /\ flash.enableWrite
         \/ /\ cmd.op = "SelectBank" /\ ~flash.enableWrite
            /\ (flash.large /\ flash.phase = 3 /\ flash.enableSelect) \/ (~flash.large /\ flash.phase = 0)
  BY DEF Sending
<1>3. Sends(cmd, 4)
  BY StoresOf
<1>4. Complete
  BY <1>3 DEF Complete, Sends
<1>5. /\ store'.memory = Effect(cmd, store.memory, flash)
      /\ flash'.phase = 0 /\ ~flash'.enableWrite /\ flash'.currentBank = BankAfter(cmd, flash)
      /\ flash'.enableChipID = flash.enableChipID
  <2>1. CASE cmd.op = "Program"
    <3>1. s[4] = <<cmd.at, cmd.value>>
      BY <2>1, StoresOf
    <3>2. FlashWrite(cmd.at, cmd.value, ok)
      BY <1>1, <3>1
    <3>3. /\ store'.memory = Effect(cmd, store.memory, flash)
          /\ flash'.phase = 0 /\ ~flash'.enableWrite /\ flash'.currentBank = flash.currentBank
          /\ flash'.enableChipID = flash.enableChipID
      BY <1>1, <1>2, <2>1, <3>2, ProgramSend
    <3>4. QED
      BY <2>1, <3>3 DEF BankAfter
  <2>2. CASE cmd.op = "SelectBank"
    <3>1. s[4] = <<0, cmd.bank>>
      BY <2>2, StoresOf
    <3>2. FlashWrite(0, cmd.bank, ok)
      BY <1>1, <3>1
    <3>3. QED
      BY <1>1, <1>2, <2>2, <3>2, SelectSend
  <2>3. QED
    BY <2>1, <2>2
<1>6. ShowsID(cmd, flash) = flash.enableChipID
  BY DEF ShowsID
<1>7. WholeCommand
  BY <1>2, <1>4, <1>5, <1>6 DEF WholeCommand
<1>8. Idle(flash', job', orphan')
  BY <1>1, <1>4, <1>5 DEF Idle
<1>9. QED
  BY <1>7, <1>8 DEF Follows

\* The second half of an erasure.
LEMMA EraseSend ==
  ASSUME Good(store), IsFlash(flash), IsJob(job), IsSized(flash, Size(store)),
         FlashFits(flash, Size(store)), NEW ok \in BOOLEAN, Send(ok), Sending(flash, job, orphan),
         job.sent \in 3 .. 5, job.cmd.op \in {"EraseSector", "EraseChip"}
  PROVE  WholeCommand /\ Follows(flash', job', orphan')
<1> DEFINE s == Stores(job.cmd)
           cmd == job.cmd
           k == job.sent
<1>1. /\ cmd \in Command /\ orphan' = "none" /\ FlashWrite(s[k + 1][1], s[k + 1][2], ok)
      /\ Complete => job' = NoJob
      /\ ~Complete => /\ job' # NoJob /\ job'.cmd = job.cmd /\ job'.sent = job.sent + 1
                      /\ (job'.lost <=> job.lost \/ orphan # "none")
  BY JobAfter
<1>2. /\ ~job.lost /\ orphan = "none" /\ ~flash.enableWrite /\ flash.phase = k - 3
      /\ flash.enableErase
  BY DEF Sending
<1>3. /\ Sends(cmd, 6) /\ s[4] = <<Unlock1, First>> /\ s[5] = <<Unlock2, Second>>
      /\ s[6] = IF cmd.op = "EraseSector" THEN <<cmd.at, cmdEraseSector>>
                                          ELSE <<Unlock1, cmdEraseChip>>
  BY StoresOf
<1>4. Complete <=> k = 5
  BY <1>3 DEF Complete, Sends
<1>5. k \in {3, 4, 5} /\ k = job.sent
  OBVIOUS
<1> HIDE DEF s, k
<1>6. CASE k = 3 \/ k = 4
  <2>1. Same(k - 2)
    <3>1. CASE k = 3
      <4>1. FlashWrite(Unlock1, First, ok) /\ flash.phase = 0
        BY <1>1, <1>2, <1>3, <3>1
      <4>2. Same(1)
        BY <4>1, AtFirst
      <4>3. QED
        BY <3>1, <4>2
    <3>2. CASE k = 4
      <4>1. FlashWrite(Unlock2, Second, ok) /\ flash.phase = 1
        BY <1>1, <1>2, <1>3, <3>2
      <4>2. Same(2)
        BY <4>1, AtSecond
      <4>3. QED
        BY <3>2, <4>2
    <3>3. QED
      BY <1>6, <3>1, <3>2
  <2>2. ~Complete
    BY <1>4, <1>6
  <2>3. WholeCommand
    BY <1>2, <2>1, <2>2, StillWhole
  <2>4. flash'.phase = k - 2 /\ ~flash'.enableWrite /\ flash'.enableErase
    BY <1>2, <2>1 DEF Same
  <2>5. /\ job' # NoJob /\ job'.cmd = cmd /\ job'.sent = k + 1 /\ ~job'.lost
        /\ job'.sent \in 3 .. 5 /\ flash'.phase = job'.sent - 3
    BY <1>1, <1>2, <1>5, <1>6, <2>2, <2>4
  <2>6. Sending(flash', job', orphan')
    BY <1>1, <2>4, <2>5 DEF Sending
  <2>7. QED
    BY <2>3, <2>6 DEF Follows
<1>7. CASE k = 5
  <2>1. flash.phase = 2 /\ Complete
    BY <1>2, <1>4, <1>7
  <2>2. Erases(cmd)
    <3>1. CASE cmd.op = "EraseSector"
      <4>1. FlashWrite(cmd.at, cmdEraseSector, ok)
        BY <1>1, <1>3, <1>7, <3>1
      <4>2. QED
        BY <1>1, <2>1, <3>1, <4>1, SectorErased
    <3>2. CASE cmd.op = "EraseChip"
      <4>1. FlashWrite(Unlock1, cmdEraseChip, ok)
        BY <1>1, <1>3, <1>7, <3>2
      <4>2. QED
        BY <1>1, <2>1, <3>2, <4>1, ChipErased
    <3>3. QED
      BY <3>1, <3>2
  <2>3. BankAfter(cmd, flash) = flash.currentBank /\ ShowsID(cmd, flash) = flash.enableChipID
    BY DEF BankAfter, ShowsID
  <2>4. WholeCommand
    BY <1>2, <2>1, <2>2, <2>3 DEF WholeCommand, Erases
  <2>5. Idle(flash', job', orphan')
    BY <1>1, <1>2, <2>1, <2>2 DEF Idle, Erases
  <2>6. QED
    BY <2>4, <2>5 DEF Follows
<1>8. QED
  BY <1>5, <1>6, <1>7

\* Wherever the chip is, it follows the next store, and does no more than the
\* command says.
LEMMA SendFollows ==
  ASSUME Good(store), IsFlash(flash), IsJob(job), IsSized(flash, Size(store)),
         FlashFits(flash, Size(store)), NEW ok \in BOOLEAN, Send(ok), Follows(flash, job, orphan)
  PROVE  WholeCommand /\ Follows(flash', job', orphan')
<1>1. job # NoJob
  BY DEF Send
<1>2. CASE Torn(flash, job, orphan)
  BY <1>2, TornSend
<1>3. CASE Lost(flash, job, orphan)
  BY <1>3, LostSend
<1>4. CASE Sending(flash, job, orphan)
  <2>1. \/ job.sent \in {0, 1} \/ job.sent = 2
        \/ job.sent = 3 /\ job.cmd.op \in {"Program", "SelectBank"}
        \/ job.sent \in 3 .. 5 /\ job.cmd.op \in {"EraseSector", "EraseChip"}
    BY <1>4 DEF Sending
  <2>2. QED
    BY <1>4, <2>1, PreambleSend, WordSend, ArgumentSend, EraseSend
<1>5. QED
  BY <1>1, <1>2, <1>3, <1>4 DEF Follows, Idle

\* A command that is begun or given up.
LEMMA StartFollows ==
  ASSUME IsJob(job), Follows(flash, job, orphan), NEW cmd \in Command, Start(cmd)
  PROVE  Follows(flash', job', orphan')
<1>1. job' = [cmd |-> cmd, sent |-> 0, lost |-> FALSE] /\ flash' = flash /\ orphan' = orphan
      /\ job = NoJob
  BY DEF Start, Starting
<1>2. job' # NoJob
  <2>1. cmd.op \in Ops
    BY FlashAssumption DEF FlashCommands, Ops
  <2>2. cmd.op # "none"
    BY <2>1 DEF Ops
  <2>3. job'.cmd.op # NoJob.cmd.op
    BY <1>1, <2>2 DEF NoJob
  <2>4. QED
    BY <2>3
<1>3. job'.sent = 0 /\ ~job'.lost
  BY <1>1
<1>4. CASE Idle(flash, job, orphan)
  BY <1>1, <1>2, <1>3, <1>4 DEF Idle, Sending, Follows
<1>5. CASE Torn(flash, job, orphan)
  BY <1>1, <1>3, <1>5 DEF Torn, Follows
<1>6. QED
  BY <1>1, <1>4, <1>5 DEF Follows, Sending, Lost

\* A command that is given up.
LEMMA GiveUpFollows ==
  ASSUME IsFlash(flash), IsJob(job), Follows(flash, job, orphan), GiveUp
  PROVE  Follows(flash', job', orphan')
<1>1. /\ job # NoJob /\ job' = NoJob /\ flash' = flash
      /\ orphan' = IF job.sent = 3 /\ ~job.lost /\ job.cmd.op \in {"Program", "SelectBank"}
                   THEN IF job.cmd.op = "SelectBank" /\ ~flash.large THEN "none" ELSE job.cmd.op
                   ELSE orphan
  BY DEF GiveUp
<1>2. CASE Torn(flash, job, orphan)
  BY <1>1, <1>2 DEF Torn, Follows
<1>3. CASE Lost(flash, job, orphan)
  <2>1. orphan' = "none" /\ flash.phase # 3 /\ ~flash.enableWrite
    BY <1>1, <1>3 DEF Lost
  <2>2. QED
    BY <1>1, <2>1 DEF Idle, Follows
<1>4. CASE Sending(flash, job, orphan)
  <2>1. CASE job.sent = 3 /\ job.cmd.op = "Program"
    <3>1. flash.phase = 3 /\ flash.enableWrite /\ ~job.lost
      BY <1>4, <2>1 DEF Sending
    <3>2. orphan' = "Program"
      BY <1>1, <2>1, <3>1
    <3>3. QED
      BY <1>1, <3>1, <3>2 DEF Torn, Follows
  <2>2. CASE job.sent = 3 /\ job.cmd.op = "SelectBank"
    <3>1. /\ ~flash.enableWrite /\ ~job.lost
          /\ (flash.large /\ flash.phase = 3) \/ (~flash.large /\ flash.phase = 0)
      BY <1>4, <2>2 DEF Sending
    <3>2. CASE flash.large
      BY <1>1, <2>2, <3>1, <3>2 DEF Torn, Follows
    <3>3. CASE ~flash.large
      BY <1>1, <2>2, <3>1, <3>3 DEF Idle, Follows
    <3>4. QED
      BY <3>2, <3>3
  <2>3. CASE ~(job.sent = 3 /\ job.cmd.op \in {"Program", "SelectBank"})
    <3>1. orphan' = "none"
      BY <1>1, <1>4, <2>3 DEF Sending
    <3>2. flash.phase # 3 /\ ~flash.enableWrite
      BY <1>4, <2>3 DEF Sending
    <3>3. QED
      BY <1>1, <3>1, <3>2 DEF Idle, Follows
  <2>4. QED
    BY <2>1, <2>2, <2>3
<1>5. QED
  BY <1>1, <1>2, <1>3, <1>4 DEF Follows, Idle

\* A chip that has just been started, and one whose state has been loaded.
LEMMA FreshFollows ==
  ASSUME NEW s
  PROVE  Follows(ResetFlash(s), NoJob, "none")
<1>1. ResetFlash(s).phase = 0 /\ ResetFlash(s).enableWrite = FALSE
  BY DEF ResetFlash
<1>2. QED
  BY <1>1 DEF Follows, Idle

\* What follows in the save state follows when it has been loaded.
LEMMA LoadedFollows ==
  ASSUME NEW f, NEW j, NEW o, IsFlash(f), f.large <=> flash.large, Follows(f, j, o)
  PROVE  Follows(FlashLoaded(f), j, o)
<1> DEFINE g == FlashOf(f.large, f.currentBank, f.phase, f.enableChipID, f.enableErase, f.enableWrite, f.enableSelect)
<1>1. f = g
  BY DEF IsFlash, FlashOf
<1>2. PICK l : l = flash.large
  OBVIOUS
<1> DEFINE h == FlashOf(l, f.currentBank, f.phase, f.enableChipID, f.enableErase, f.enableWrite, f.enableSelect)
<1>3. [g EXCEPT !.large = l] = h
  BY DEF FlashOf
<1> HIDE DEF g
<1>4. FlashLoaded(f) = h
  BY <1>1, <1>2, <1>3 DEF FlashLoaded
<1>5. /\ h.phase = f.phase /\ h.large = l /\ (h.enableErase <=> f.enableErase)
      /\ (h.enableWrite <=> f.enableWrite) /\ (h.enableSelect <=> f.enableSelect)
  BY DEF FlashOf
<1> HIDE DEF h
<1>6. Follows(h, j, o)
  <2>1. h.large <=> f.large
    BY <1>2, <1>5
  <2>2. CASE Idle(f, j, o)
    BY <1>5, <2>2 DEF Follows, Idle
  <2>3. CASE Torn(f, j, o)
    BY <1>5, <2>3 DEF Follows, Torn
  <2>4. CASE Sending(f, j, o)
    BY <1>5, <2>1, <2>4 DEF Follows, Sending
  <2>5. CASE Lost(f, j, o)
    BY <1>5, <2>5 DEF Follows, Lost
  <2>6. QED
    BY <2>2, <2>3, <2>4, <2>5 DEF Follows
<1>7. QED
  BY <1>4, <1>6

\* A chip that has just been equipped follows.
LEMMA FollowedInit == Init => Followed
<1> SUFFICES ASSUME Init
             PROVE  Followed
  OBVIOUS
<1>1. flash = ResetFlash(store) /\ job = NoJob /\ orphan = "none" /\ saved = [of |-> "none"]
  BY DEF Init
<1>2. Follows(flash, job, orphan)
  BY <1>1, FreshFollows
<1>3. QED
  BY <1>1, <1>2 DEF Followed

\* What the chip makes of the stores of the program, at every step.
LEMMA FlashFollows ==
  ASSUME Inv, Fitting, Followed, Others("FLASH"), FlashNext, OneSize
  PROVE  Follows(flash', job', orphan') /\ WholeCommand
<1>1. Good(store) /\ FlashPart /\ cart.kind = "FLASH"
  BY DEF Inv, Fitting, Others
<1>3. /\ IsFlash(flash) /\ IsJob(job) /\ IsSized(flash, Size(store)) /\ FlashFits(flash, Size(store))
      /\ Follows(flash, job, orphan)
  BY <1>1 DEF FlashPart, Followed
<1>4. ASSUME NEW cmd \in Command, Start(cmd)
      PROVE  Follows(flash', job', orphan') /\ did' # "send"
  BY <1>3, <1>4, StartFollows DEF Start
<1>5. ASSUME NEW ok \in BOOLEAN, Send(ok)
      PROVE  Follows(flash', job', orphan') /\ WholeCommand
  BY <1>1, <1>3, <1>5, SendFollows
<1>6. ASSUME GiveUp
      PROVE  Follows(flash', job', orphan') /\ did' # "send"
  BY <1>3, <1>6, GiveUpFollows DEF GiveUp
<1>7. QED
  BY <1>4, <1>5, <1>6 DEF FlashNext, WholeCommand

\* Every step keeps the chip following the program.
LEMMA FollowedNext == Inv /\ Fitting /\ Followed /\ [Next]_vars => Followed'
<1> SUFFICES ASSUME Inv, Fitting, Followed, [Next]_vars, cart'.kind = "FLASH"
             PROVE  /\ OneSize' => Follows(flash', job', orphan')
                    /\ saved'.of # "none" => Follows(saved'.flash, saved'.job, saved'.orphan)
  BY DEF Followed
<1>1. FlashPart /\ SavedPart /\ SizesPart
  BY DEF Fitting
<1>2. CASE UNCHANGED vars
  BY <1>2 DEF vars, flashVars, Followed, OneSize
<1>3. CASE Others("FLASH") /\ FlashNext /\ UsedWith(Size(store'))
  <2>1. cart' = cart /\ saved' = saved
    BY <1>3 DEF Others
  <2>2. OneSize' => OneSize
    BY <1>1, <1>3, <2>1, UsedSizes
  <2>3. QED
    BY <1>3, <2>1, <2>2, FlashFollows DEF Followed
<1>4. CASE \E kind \in {"SRAM", "EEPROM", "GPIO"} : Others(kind)
  BY <1>4 DEF Others
<1>5. ASSUME NEW opens \in BOOLEAN, NEW ok \in BOOLEAN, Restart(opens, ok)
      PROVE  /\ OneSize' => Follows(flash', job', orphan')
             /\ saved'.of # "none" => Follows(saved'.flash, saved'.job, saved'.orphan)
  <2>1. cart' = cart /\ saved' = saved /\ flash' = ResetFlash(store') /\ job' = NoJob /\ orphan' = "none"
    BY <1>5 DEF Restart
  <2>2. Follows(flash', job', orphan')
    BY <2>1, FreshFollows
  <2>3. QED
    BY <2>1, <2>2 DEF Followed
<1>6. CASE CopyState
  <2>1. /\ saved.of = "none" /\ cart' = cart /\ sizes' = sizes
        /\ flash' = flash /\ job' = job /\ orphan' = orphan
        /\ saved'.flash = flash /\ saved'.job = job /\ saved'.orphan = orphan
    BY <1>6 DEF CopyState, flashVars
  <2>2. OneSize
    BY <1>1, <2>1 DEF SizesPart, OneSize
  <2>3. QED
    BY <2>1, <2>2 DEF Followed
<1>7. ASSUME NEW ok \in BOOLEAN, LoadState(ok)
      PROVE  /\ OneSize' => Follows(flash', job', orphan')
             /\ saved'.of # "none" => Follows(saved'.flash, saved'.job, saved'.orphan)
  <2>1. /\ saved.of # "none" /\ cart' = cart /\ saved' = saved /\ sizes' = {Size(saved), Size(store)}
        /\ flash' = FlashLoaded(saved.flash) /\ job' = saved.job /\ orphan' = saved.orphan
    BY <1>7 DEF LoadState
  <2>2. Follows(saved.flash, saved.job, saved.orphan)
    BY <2>1 DEF Followed
  <2>3. ASSUME OneSize'
        PROVE  Follows(flash', job', orphan')
    <3>1. Size(saved) = Size(store)
      BY <2>1, <2>3 DEF OneSize
    <3>2. IsFlash(saved.flash) /\ IsSized(saved.flash, Size(saved)) /\ IsSized(flash, Size(store))
      BY <1>1, <2>1 DEF SavedPart, FlashPart
    <3>3. saved.flash.large <=> flash.large
      BY <3>1, <3>2 DEF IsSized
    <3>4. QED
      BY <2>1, <2>2, <3>2, <3>3, LoadedFollows
  <2>4. QED
    BY <2>1, <2>2, <2>3
<1>8. QED
  BY <1>2, <1>3, <1>4, <1>5, <1>6, <1>7 DEF Next

\* Every FLASH command happens as a whole: the chip and the program agree on
\* how far a command is, but for one that was given up before its argument.
THEOREM CommandsHappenWhole == Spec => CommandsAreWhole
<1>1. Spec => [](Inv /\ Fitting /\ Followed)
  BY InvInit, InvNext, FittingInit, FittingNext, FollowedInit, FollowedNext, PTL DEF Spec
<1>2. Inv /\ Fitting /\ Followed /\ [Next]_vars => [OneSize => WholeCommand]_<<store, flash, job>>
  <2> SUFFICES ASSUME Inv, Fitting, Followed, [Next]_vars, ~UNCHANGED <<store, flash, job>>,
                      OneSize, did' = "send"
               PROVE  WholeCommand
    BY DEF WholeCommand
  <2>1. ~UNCHANGED vars /\ ~CopyState
    BY DEF vars, flashVars, CopyState
  <2>2. ~Others("GPIO") \/ ~UNCHANGED <<did, store, flashVars, eepromVars>>
    BY DEF flashVars
  <2>3. ASSUME NEW i, NEW value, NEW ok, SRAMWrite(i, value, ok)
        PROVE  FALSE
    BY <2>3 DEF SRAMWrite
  <2>4. ~EepromNext
    BY DEF EepromNext, Begin, Unit, Answer, Ready
  <2>5. ASSUME NEW opens, NEW ok, Restart(opens, ok) \/ LoadState(ok)
        PROVE  FALSE
    BY <2>5 DEF Restart, LoadState
  <2>6. Others("FLASH") /\ FlashNext
    BY <2>1, <2>2, <2>3, <2>4, <2>5 DEF Next
  <2>7. QED
    BY <2>6, FlashFollows
<1>3. QED
  BY <1>1, <1>2, PTL DEF Spec, CommandsAreWhole
-----------------------------------------------------------------------------
\* The clock.  What was heard is a sequence of bits, its meaning that of the
\* first of its bytes with the code 0110.

\* A set of numbers that has any has a least one: how an induction over bits
\* or bytes is made here, from the well-foundedness of the numbers.
LEMMA NatLeast ==
  ASSUME NEW T \in SUBSET Nat, T # {}
  PROVE  \E x \in T : \A y \in T : x <= y
<1> DEFINE R == OpToRel(<, Nat)
<1>1. IsWellFoundedOn(R, Nat)
  BY NatLessThanWellFounded
<1>2. \A m, n \in Nat : ~(<<m, n>> \in R) => n <= m
  BY DEF OpToRel
<1> HIDE DEF R
<1>3. PICK x \in T : \A y \in T : ~ (<<y, x>> \in R)
  BY <1>1, WFMin
<1>4. \A y \in T : x <= y
  <2> SUFFICES ASSUME NEW y \in T PROVE x <= y
    OBVIOUS
  <2>1. x \in Nat /\ y \in Nat /\ ~(<<y, x>> \in R)
    BY <1>3
  <2>2. QED
    BY <1>2, <2>1
<1>5. QED
  BY <1>4

Heard == Seq({0, 1})
Wholly(h, k) == k \in Nat /\ 8 * k + 8 <= Len(h)
IsByte(byte) == byte \in [1 .. 8 -> {0, 1}]
Understood(byte) == CodeFirst(byte) \/ CodeLast(byte)
Turned(byte) == IF CodeLast(byte) THEN Reverse(byte) ELSE byte
FirstCommand(h) == CHOOSE n \in Commands(h) : \A other \in Commands(h) : n <= other

\* A whole byte of what was heard is made of the bits at its place.
LEMMA Bytes ==
  ASSUME NEW h \in Heard, NEW k, Wholly(h, k)
  PROVE  IsByte(ByteAt(h, k)) /\ \A i \in 1 .. 8 : ByteAt(h, k)[i] = h[8 * k + i]
<1>1. k \in Nat /\ 8 * k + 8 <= Len(h) /\ Len(h) \in Nat
  BY DEF Wholly, Heard
<1>2. \A i \in 1 .. 8 : 8 * k + i \in 1 .. Len(h) /\ h[8 * k + i] \in {0, 1}
  BY <1>1 DEF Heard
<1>3. SubSeq(h, 8 * k + 1, 8 * k + 8) = [i \in 1 .. 8 |-> h[8 * k + i]]
  BY <1>1 DEF Heard
<1>4. QED
  BY <1>2, <1>3 DEF ByteAt, IsByte

\* The code 0110 at either end of a byte, and a byte turned round.
LEMMA Codes ==
  ASSUME NEW byte, IsByte(byte)
  PROVE  /\ CodeFirst(byte) <=> byte[1] = 0 /\ byte[2] = 1 /\ byte[3] = 1 /\ byte[4] = 0
         /\ CodeLast(byte) <=> byte[5] = 0 /\ byte[6] = 1 /\ byte[7] = 1 /\ byte[8] = 0
         /\ IsByte(Reverse(byte)) /\ \A i \in 1 .. 8 : Reverse(byte)[i] = byte[9 - i]
<1>1. \A i \in 1 .. 8 : byte[i] \in {0, 1}
  BY DEF IsByte
<1>2. /\ CommandCode \in Seq({0, 1}) /\ Len(CommandCode) = 4
      /\ CommandCode[1] = 0 /\ CommandCode[2] = 1 /\ CommandCode[3] = 1 /\ CommandCode[4] = 0
  BY DEF CommandCode
<1> DEFINE four(k) == SubSeq(byte, k, k + 3)
<1>3. \A k \in {1, 5} : four(k) \in Seq({0, 1}) /\ Len(four(k)) = 4 /\ \A i \in 1 .. 4 : four(k)[i] = byte[k + i - 1]
  <2> SUFFICES ASSUME NEW k \in {1, 5}
               PROVE  four(k) \in Seq({0, 1}) /\ Len(four(k)) = 4 /\ \A i \in 1 .. 4 : four(k)[i] = byte[k + i - 1]
    OBVIOUS
  <2>1. \A i \in k .. k + 3 : byte[i] \in {0, 1}
    BY <1>1
  <2>2. k \in Int /\ k + 3 \in Int /\ k <= k + 3 /\ (k + 3) - k + 1 = 4
    OBVIOUS
  <2>3. /\ four(k) \in Seq({0, 1}) /\ Len(four(k)) = (k + 3) - k + 1
        /\ \A i \in 1 .. (k + 3) - k + 1 : four(k)[i] = byte[k + i - 1]
    BY <2>1, <2>2, SubSeqProperties
  <2>4. QED
    BY <2>2, <2>3
<1>4. \A k \in {1, 5} : four(k) = CommandCode <=>
        byte[k] = 0 /\ byte[k + 1] = 1 /\ byte[k + 2] = 1 /\ byte[k + 3] = 0
  <2> SUFFICES ASSUME NEW k \in {1, 5}
               PROVE  four(k) = CommandCode <=>
                        byte[k] = 0 /\ byte[k + 1] = 1 /\ byte[k + 2] = 1 /\ byte[k + 3] = 0
    OBVIOUS
  <2>1. /\ four(k)[1] = byte[k] /\ four(k)[2] = byte[k + 1]
        /\ four(k)[3] = byte[k + 2] /\ four(k)[4] = byte[k + 3]
    BY <1>3
  <2>2. four(k) \in Seq({0, 1}) /\ Len(four(k)) = 4
    BY <1>3
  <2> HIDE DEF four
  <2>3. (\A i \in 1 .. 4 : four(k)[i] = CommandCode[i]) => four(k) = CommandCode
    BY <1>2, <2>2, SeqEqual
  <2>4. ASSUME four(k)[1] = 0, four(k)[2] = 1, four(k)[3] = 1, four(k)[4] = 0
        PROVE  \A i \in 1 .. 4 : four(k)[i] = CommandCode[i]
    BY <1>2, <2>4
  <2>5. QED
    BY <1>2, <2>1, <2>3, <2>4
<1>5. CodeFirst(byte) <=> byte[1] = 0 /\ byte[2] = 1 /\ byte[3] = 1 /\ byte[4] = 0
  BY <1>4 DEF CodeFirst
<1>6. CodeLast(byte) <=> byte[5] = 0 /\ byte[6] = 1 /\ byte[7] = 1 /\ byte[8] = 0
  BY <1>4 DEF CodeLast
<1>7. IsByte(Reverse(byte)) /\ \A i \in 1 .. 8 : Reverse(byte)[i] = byte[9 - i]
  <2>1. byte \in Seq({0, 1}) /\ Len(byte) = 8
    <3>1. byte \in [1 .. 8 -> {0, 1}] /\ 8 \in Nat
      BY DEF IsByte
    <3>2. byte \in Seq({0, 1})
      BY <3>1, SeqDef
    <3>3. DOMAIN byte = 1 .. 8 /\ DOMAIN byte = 1 .. Len(byte) /\ Len(byte) \in Nat
      BY <3>1, <3>2, LenProperties
    <3>4. QED
      BY <3>2, <3>3
  <2>2. Reverse(byte) = [i \in 1 .. 8 |-> byte[9 - i]]
    BY <2>1 DEF Reverse
  <2>3. QED
    BY <1>1, <2>2 DEF IsByte
<1>8. QED
  BY <1>5, <1>6, <1>7

\* The commands are the whole bytes with the code.
LEMMA CommandsAre ==
  ASSUME NEW h \in Heard
  PROVE  /\ Commands(h) \subseteq Nat
         /\ \A k : k \in Commands(h) <=> Wholly(h, k) /\ Understood(ByteAt(h, k))
<1>1. Len(h) \in Nat
  BY DEF Heard
<1>2. \A k \in Nat : k \in 0 .. (Len(h) \div 8) - 1 <=> Wholly(h, k)
  BY <1>1 DEF Wholly
<1>3. \A k : Wholly(h, k) => k \in Nat
  BY DEF Wholly
<1>4. Len(h) \div 8 \in Nat
  BY <1>1
<1>5. \A k : k \in 0 .. (Len(h) \div 8) - 1 => k \in Nat
  BY <1>4
<1> HIDE DEF Wholly
<1>6. QED
  BY <1>2, <1>3, <1>5 DEF Commands, Understood

\* There is a first command if there is any.
LEMMA Firsts ==
  ASSUME NEW h \in Heard, Commands(h) # {}
  PROVE  /\ FirstCommand(h) \in Commands(h) /\ FirstCommand(h) \in Nat /\ Wholly(h, FirstCommand(h))
         /\ \A k \in Commands(h) : FirstCommand(h) <= k
<1>1. Commands(h) \in SUBSET Nat
  BY CommandsAre
<1>2. \E n \in Commands(h) : \A other \in Commands(h) : n <= other
  BY <1>1, NatLeast
<1>3. FirstCommand(h) \in Commands(h) /\ \A k \in Commands(h) : FirstCommand(h) <= k
  BY <1>2 DEF FirstCommand
<1>4. QED
  BY <1>1, <1>3, CommandsAre

\* The first command is the only one with none before it.
LEMMA FirstIs ==
  ASSUME NEW h \in Heard, NEW k \in Commands(h), \A n \in Commands(h) : k <= n
  PROVE  FirstCommand(h) = k
<1>1. FirstCommand(h) \in Nat /\ FirstCommand(h) <= k /\ k <= FirstCommand(h)
  BY Firsts
<1>2. k \in Nat
  BY CommandsAre
<1>3. QED
  BY <1>1, <1>2

\* What is heard first stays what it means.
Extends(g, h) == Len(h) <= Len(g) /\ \A i \in 1 .. Len(h) : g[i] = h[i]

\* A byte that was heard stays, whatever is heard after it.
LEMMA BytesStay ==
  ASSUME NEW h \in Heard, NEW g \in Heard, Extends(g, h), NEW k, Wholly(h, k)
  PROVE  Wholly(g, k) /\ ByteAt(g, k) = ByteAt(h, k)
<1>1. Len(h) \in Nat /\ Len(g) \in Nat /\ k \in Nat
  BY DEF Heard, Wholly
<1>2. Wholly(g, k)
  BY <1>1 DEF Wholly, Extends
<1>3. \A i \in 1 .. 8 : g[8 * k + i] = h[8 * k + i]
  BY <1>1 DEF Extends, Wholly
<1>4. IsByte(ByteAt(h, k)) /\ \A i \in 1 .. 8 : ByteAt(h, k)[i] = h[8 * k + i]
  BY Bytes
<1>5. IsByte(ByteAt(g, k)) /\ \A i \in 1 .. 8 : ByteAt(g, k)[i] = g[8 * k + i]
  BY <1>2, Bytes
<1>6. QED
  BY <1>2, <1>3, <1>4, <1>5 DEF IsByte

\* So does the first command: none is found before it later.
LEMMA FirstStays ==
  ASSUME NEW h \in Heard, NEW g \in Heard, Extends(g, h), Commands(h) # {}
  PROVE  Commands(g) # {} /\ FirstCommand(g) = FirstCommand(h) /\ ByteAt(g, FirstCommand(h)) = ByteAt(h, FirstCommand(h))
<1> DEFINE k == FirstCommand(h)
<1>1. k \in Commands(h) /\ k \in Nat /\ Wholly(h, k) /\ \A n \in Commands(h) : k <= n
  BY Firsts
<1>2. Wholly(g, k) /\ ByteAt(g, k) = ByteAt(h, k)
  BY <1>1, BytesStay
<1>3. k \in Commands(g)
  BY <1>1, <1>2, CommandsAre
<1>4. \A n \in Commands(g) : k <= n
  <2> SUFFICES ASSUME NEW n \in Commands(g) PROVE k <= n
    OBVIOUS
  <2>1. n \in Nat /\ Wholly(g, n) /\ Understood(ByteAt(g, n))
    BY CommandsAre DEF Wholly
  <2>2. CASE Wholly(h, n)
    <3>1. ByteAt(g, n) = ByteAt(h, n)
      BY <2>2, BytesStay
    <3>2. n \in Commands(h)
      BY <2>1, <2>2, <3>1, CommandsAre
    <3>3. QED
      BY <1>1, <3>2
  <2>3. CASE ~Wholly(h, n)
    <3>1. Len(h) \in Nat
      BY DEF Heard
    <3> HIDE DEF k
    <3>2. QED
      BY <1>1, <2>1, <2>3, <3>1 DEF Wholly
  <2>4. QED
    BY <2>2, <2>3
<1> HIDE DEF k
<1>5. FirstCommand(g) = k
  BY <1>3, <1>4, FirstIs
<1>6. QED
  BY <1>2, <1>3, <1>5 DEF k

Rest(h, k) == SubSeq(h, 8 * (k + 1) + 1, Len(h))
SaidBy(byte, rest) ==
  [reg |-> Turned(byte)[5] + 2 * Turned(byte)[6] + 4 * Turned(byte)[7],
   asks |-> Turned(byte)[8] = 1, rest |-> rest]

\* The meaning is that of the first command and of the bits after it.
LEMMA MeaningIs ==
  ASSUME NEW h
  PROVE  Meaning(h) = SaidBy(ByteAt(h, FirstCommand(h)), Rest(h, FirstCommand(h)))
BY DEF Meaning, SaidBy, FirstCommand, Turned, Rest

\* The bits after a byte are those from its end.
LEMMA Rests ==
  ASSUME NEW h \in Heard, NEW k, Wholly(h, k)
  PROVE  /\ Rest(h, k) \in Heard /\ Len(Rest(h, k)) = Len(h) - 8 * (k + 1)
         /\ \A i \in 1 .. Len(Rest(h, k)) : Rest(h, k)[i] = h[8 * (k + 1) + i]
<1>1. Len(h) \in Nat /\ k \in Nat /\ 8 * (k + 1) <= Len(h)
  BY DEF Heard, Wholly
<1> DEFINE m == 8 * (k + 1) + 1
           n == Len(h)
<1>2. m \in Int /\ n \in Int /\ \A i \in m .. n : h[i] \in {0, 1}
  BY <1>1 DEF Heard
<1> HIDE DEF m, n
<1>3. /\ SubSeq(h, m, n) \in Seq({0, 1})
      /\ Len(SubSeq(h, m, n)) = IF m <= n THEN n - m + 1 ELSE 0
      /\ \A i \in 1 .. n - m + 1 : SubSeq(h, m, n)[i] = h[m + i - 1]
  BY <1>2, SubSeqProperties
<1>4. IF m <= n THEN n - m + 1 = Len(h) - 8 * (k + 1) ELSE Len(h) - 8 * (k + 1) = 0
  BY <1>1 DEF m, n
<1>5. n - m + 1 = Len(h) - 8 * (k + 1) /\ m - 1 = 8 * (k + 1)
  BY <1>1 DEF m, n
<1>6. Rest(h, k) = SubSeq(h, m, n)
  BY DEF Rest, m, n
<1>7. Rest(h, k) \in Heard /\ Len(Rest(h, k)) = Len(h) - 8 * (k + 1)
  BY <1>3, <1>4, <1>6 DEF Heard
<1>8. \A i \in 1 .. Len(Rest(h, k)) : Rest(h, k)[i] = h[8 * (k + 1) + i]
  <2> SUFFICES ASSUME NEW i \in 1 .. Len(Rest(h, k)) PROVE Rest(h, k)[i] = h[8 * (k + 1) + i]
    OBVIOUS
  <2>1. i \in 1 .. n - m + 1
    BY <1>5, <1>7
  <2>2. SubSeq(h, m, n)[i] = h[m + i - 1]
    BY <1>3, <2>1
  <2>3. m + i - 1 = 8 * (k + 1) + i
    BY <1>1, <1>2, <1>5, <2>1
  <2>4. QED
    BY <1>6, <2>2, <2>3
<1>9. QED
  BY <1>7, <1>8

\* A byte turned round is a byte.
LEMMA Turning ==
  ASSUME NEW byte, IsByte(byte)
  PROVE  IsByte(Turned(byte))
BY Codes DEF Turned

\* The meaning of what has a command in it.
LEMMA Meanings ==
  ASSUME NEW h \in Heard, Commands(h) # {}
  PROVE  /\ Meaning(h) = SaidBy(ByteAt(h, FirstCommand(h)), Rest(h, FirstCommand(h)))
         /\ Meaning(h).reg \in 0 .. 7 /\ Meaning(h).asks \in BOOLEAN
         /\ Meaning(h).rest = Rest(h, FirstCommand(h)) /\ Meaning(h).rest \in Heard
<1> DEFINE byte == ByteAt(h, FirstCommand(h))
<1>1. Wholly(h, FirstCommand(h))
  BY Firsts
<1>2. IsByte(byte)
  BY <1>1, Bytes
<1>3. IsByte(Turned(byte))
  BY <1>2, Turning
<1>4. Meaning(h) = SaidBy(byte, Rest(h, FirstCommand(h)))
  BY MeaningIs
<1>5. Rest(h, FirstCommand(h)) \in Heard
  BY <1>1, Rests
<1> HIDE DEF byte
<1>6. /\ SaidBy(byte, Rest(h, FirstCommand(h))).reg \in 0 .. 7
      /\ SaidBy(byte, Rest(h, FirstCommand(h))).asks \in BOOLEAN
      /\ SaidBy(byte, Rest(h, FirstCommand(h))).rest = Rest(h, FirstCommand(h))
  <2>1. Turned(byte)[5] \in {0, 1} /\ Turned(byte)[6] \in {0, 1} /\ Turned(byte)[7] \in {0, 1}
    BY <1>3 DEF IsByte
  <2> HIDE DEF Turned
  <2>2. QED
    BY <2>1 DEF SaidBy
<1>7. QED
  BY <1>4, <1>5, <1>6 DEF byte

\* One more bit is heard.
LEMMA Appended ==
  ASSUME NEW h \in Heard, NEW b \in {0, 1}
  PROVE  /\ Append(h, b) \in Heard /\ Len(Append(h, b)) = Len(h) + 1 /\ Len(h) \in Nat
         /\ Append(h, b)[Len(h) + 1] = b /\ \A i \in 1 .. Len(h) : Append(h, b)[i] = h[i]
BY DEF Heard

\* What follows a command adds to its bits and changes nothing else.
LEMMA MeaningGrows ==
  ASSUME NEW h \in Heard, NEW b \in {0, 1}, Commands(h) # {}
  PROVE  /\ Commands(Append(h, b)) # {}
         /\ Meaning(Append(h, b)).reg = Meaning(h).reg
         /\ Meaning(Append(h, b)).asks = Meaning(h).asks
         /\ Meaning(Append(h, b)).rest = Append(Meaning(h).rest, b)
<1> DEFINE g == Append(h, b)
           k == FirstCommand(h)
<1>1. g \in Heard /\ Len(g) = Len(h) + 1 /\ Len(h) \in Nat /\ g[Len(h) + 1] = b
      /\ \A i \in 1 .. Len(h) : g[i] = h[i]
  BY Appended
<1> HIDE DEF g
<1>2. Extends(g, h)
  BY <1>1 DEF Extends
<1>3. Commands(g) # {} /\ FirstCommand(g) = k /\ ByteAt(g, k) = ByteAt(h, k)
  BY <1>1, <1>2, FirstStays
<1>4. Meaning(h) = SaidBy(ByteAt(h, k), Rest(h, k)) /\ Meaning(h).rest = Rest(h, k)
  BY Meanings
<1>5. Meaning(g) = SaidBy(ByteAt(h, k), Rest(g, k)) /\ Meaning(g).rest = Rest(g, k)
  BY <1>1, <1>3, Meanings
<1>6. Meaning(g).reg = Meaning(h).reg /\ Meaning(g).asks = Meaning(h).asks
  BY <1>4, <1>5 DEF SaidBy
<1>7. Wholly(h, k) /\ Wholly(g, k) /\ k \in Nat
  BY <1>1, <1>3, Firsts
<1> HIDE DEF k
<1>8. /\ Rest(h, k) \in Heard /\ Len(Rest(h, k)) = Len(h) - 8 * (k + 1)
      /\ \A i \in 1 .. Len(Rest(h, k)) : Rest(h, k)[i] = h[8 * (k + 1) + i]
  BY <1>7, Rests
<1>9. /\ Rest(g, k) \in Heard /\ Len(Rest(g, k)) = Len(g) - 8 * (k + 1)
      /\ \A i \in 1 .. Len(Rest(g, k)) : Rest(g, k)[i] = g[8 * (k + 1) + i]
  BY <1>1, <1>7, Rests
<1> DEFINE R == Append(Rest(h, k), b)
<1>10. /\ R \in Heard /\ Len(R) = Len(Rest(h, k)) + 1 /\ Len(Rest(h, k)) \in Nat
       /\ R[Len(Rest(h, k)) + 1] = b /\ \A i \in 1 .. Len(Rest(h, k)) : R[i] = Rest(h, k)[i]
  BY <1>8, Appended
<1> HIDE DEF R
<1>11. Len(Rest(g, k)) = Len(R)
  BY <1>1, <1>7, <1>8, <1>9, <1>10
<1>12. \A i \in 1 .. Len(R) : Rest(g, k)[i] = R[i]
  <2> SUFFICES ASSUME NEW i \in 1 .. Len(R) PROVE Rest(g, k)[i] = R[i]
    OBVIOUS
  <2>1. Rest(g, k)[i] = g[8 * (k + 1) + i]
    BY <1>9, <1>11
  <2>2. CASE i = Len(Rest(h, k)) + 1
    <3>1. 8 * (k + 1) + i = Len(h) + 1
      BY <1>1, <1>7, <1>8, <1>10, <2>2
    <3>2. QED
      BY <1>1, <1>10, <2>1, <2>2, <3>1
  <2>3. CASE i # Len(Rest(h, k)) + 1
    <3>1. i \in 1 .. Len(Rest(h, k))
      BY <1>10, <2>3
    <3>2. 8 * (k + 1) + i \in 1 .. Len(h)
      <4>1. k \in Nat /\ Len(h) \in Nat /\ i \in Nat /\ i >= 1
        BY <1>1, <1>7, <1>10, <3>1
      <4>2. i <= Len(h) - 8 * (k + 1)
        BY <1>8, <3>1
      <4>3. QED
        BY <4>1, <4>2
    <3>3. QED
      BY <1>1, <1>8, <1>10, <2>1, <3>1, <3>2
  <2>4. QED
    BY <2>2, <2>3
<1>13. Rest(g, k) = R
  BY <1>9, <1>10, <1>11, <1>12, SeqEqual DEF Heard
<1>14. QED
  BY <1>3, <1>4, <1>5, <1>6, <1>13 DEF g, R

\* The first command ends with the bit that makes its byte whole.
LEMMA MeaningBegins ==
  ASSUME NEW h \in Heard, NEW b \in {0, 1}, Commands(h) = {}
  PROVE  LET g == Append(h, b)
             k == Len(h) \div 8
         IN  /\ Len(h) % 8 # 7 => Commands(g) = {}
             /\ Len(h) % 8 = 7 => Wholly(g, k)
             /\ Len(h) % 8 = 7 /\ ~Understood(ByteAt(g, k)) => Commands(g) = {}
             /\ Len(h) % 8 = 7 /\ Understood(ByteAt(g, k)) =>
                  /\ Commands(g) # {}
                  /\ Meaning(g) = SaidBy(ByteAt(g, k), <<>>)
<1> DEFINE g == Append(h, b)
           k == Len(h) \div 8
<1>1. g \in Heard /\ Len(g) = Len(h) + 1 /\ Len(h) \in Nat
      /\ \A i \in 1 .. Len(h) : g[i] = h[i]
  BY Appended
<1> HIDE DEF g
<1>2. Extends(g, h)
  BY <1>1 DEF Extends
<1>3. \A n \in Commands(g) : Wholly(g, n) /\ ~Wholly(h, n) /\ Understood(ByteAt(g, n))
  <2> SUFFICES ASSUME NEW n \in Commands(g)
               PROVE  Wholly(g, n) /\ ~Wholly(h, n) /\ Understood(ByteAt(g, n))
    OBVIOUS
  <2>1. Wholly(g, n) /\ Understood(ByteAt(g, n))
    BY <1>1, CommandsAre
  <2>2. ASSUME Wholly(h, n) PROVE FALSE
    <3>1. ByteAt(g, n) = ByteAt(h, n)
      BY <1>1, <1>2, <2>2, BytesStay
    <3>2. n \in Commands(h)
      BY <2>1, <2>2, <3>1, CommandsAre
    <3>3. QED
      BY <3>2
  <2>3. QED
    BY <2>1, <2>2
<1>4. \A n \in Commands(g) : Len(h) % 8 = 7 /\ n = k
  <2> SUFFICES ASSUME NEW n \in Commands(g) PROVE Len(h) % 8 = 7 /\ n = k
    OBVIOUS
  <2>1. n \in Nat /\ 8 * n + 8 <= Len(h) + 1 /\ ~(8 * n + 8 <= Len(h))
    BY <1>1, <1>3 DEF Wholly
  <2>2. Len(h) = 8 * n + 7
    BY <1>1, <2>1
  <2>3. QED
    BY <1>1, <2>1, <2>2
<1>5. ASSUME Len(h) % 8 = 7 PROVE Wholly(g, k) /\ Len(g) = 8 * (k + 1) /\ k \in Nat
  BY <1>1, <1>5 DEF Wholly
<1>6. ASSUME Len(h) % 8 = 7, Understood(ByteAt(g, k))
      PROVE  Commands(g) # {} /\ Meaning(g) = SaidBy(ByteAt(g, k), <<>>)
  <2>1. k \in Commands(g)
    BY <1>1, <1>5, <1>6, CommandsAre
  <2>2. FirstCommand(g) = k
    <3>1. \A n \in Commands(g) : k <= n
      BY <1>4, <1>5, <1>6
    <3>2. QED
      BY <1>1, <2>1, <3>1, FirstIs
  <2>3. Rest(g, k) \in Heard /\ Len(Rest(g, k)) = Len(g) - 8 * (k + 1)
    BY <1>1, <1>5, <1>6, Rests
  <2>4. Len(Rest(g, k)) = 0
    BY <1>5, <1>6, <2>3
  <2>5. Rest(g, k) = <<>>
    BY <2>3, <2>4, EmptySeq DEF Heard
  <2>6. Meaning(g) = SaidBy(ByteAt(g, FirstCommand(g)), Rest(g, FirstCommand(g)))
    BY MeaningIs
  <2>7. QED
    BY <2>1, <2>2, <2>5, <2>6
<1>7. ASSUME Len(h) % 8 # 7 PROVE Commands(g) = {}
  BY <1>4, <1>7
<1>8. ASSUME Len(h) % 8 = 7, ~Understood(ByteAt(g, k)) PROVE Commands(g) = {}
  BY <1>3, <1>4, <1>8
<1>9. QED
  BY <1>5, <1>6, <1>7, <1>8 DEF g

-----------------------------------------------------------------------------
\* The clock, field by field
RTCOf(bit, byte, reg, data, buffer, port, state, control) ==
  [currentBit |-> bit, currentByte |-> byte, reg |-> reg, data |-> data, buffer |-> buffer,
   port |-> port, state |-> state, control |-> control]

Bits8 == [0 .. 7 -> {0, 1}]
IsBuffer(f) == f = [n \in 0 .. 6 |-> f[n]]

IsRTC(r) ==
  /\ r = RTCOf(r.currentBit, r.currentByte, r.reg, r.data, r.buffer, r.port, r.state, r.control)
  /\ r.currentBit \in 0 .. 7 /\ r.currentByte \in Nat /\ r.reg \in 0 .. 7 /\ r.data \in Bits8
  /\ IsBuffer(r.buffer) /\ r.port \in SUBSET All
  /\ r.state \in {"Command", "Sending", "Receiving", "Complete"}

\* The fields of a clock.
LEMMA RTCFields ==
  ASSUME NEW bit, NEW byte, NEW reg, NEW data, NEW buffer, NEW port, NEW state, NEW control
  PROVE  LET r == RTCOf(bit, byte, reg, data, buffer, port, state, control) IN
         /\ r.currentBit = bit /\ r.currentByte = byte /\ r.reg = reg /\ r.data = data
         /\ r.buffer = buffer /\ r.port = port /\ r.state = state /\ r.control = control
BY DEF RTCOf

\* A record of such fields is a clock.
LEMMA IsRTCOf ==
  ASSUME NEW bit \in 0 .. 7, NEW byte \in Nat, NEW reg \in 0 .. 7, NEW data \in Bits8, NEW buffer,
         IsBuffer(buffer), NEW port \in SUBSET All,
         NEW state \in {"Command", "Sending", "Receiving", "Complete"}, NEW control
  PROVE  IsRTC(RTCOf(bit, byte, reg, data, buffer, port, state, control))
<1> DEFINE r == RTCOf(bit, byte, reg, data, buffer, port, state, control)
<1>1. /\ r.currentBit = bit /\ r.currentByte = byte /\ r.reg = reg /\ r.data = data
      /\ r.buffer = buffer /\ r.port = port /\ r.state = state /\ r.control = control
  BY RTCFields
<1>2. r = RTCOf(r.currentBit, r.currentByte, r.reg, r.data, r.buffer, r.port, r.state, r.control)
  BY <1>1
<1> HIDE DEF r
<1>3. IsRTC(r)
  BY <1>1, <1>2 DEF IsRTC
<1>4. QED
  BY <1>3 DEF r

\* What becomes of one field of the clock that is set: currentBit alone
LEMMA SetBit ==
  ASSUME NEW bit, NEW byte, NEW reg, NEW data, NEW buffer, NEW port, NEW state, NEW control, NEW x
  PROVE  [RTCOf(bit, byte, reg, data, buffer, port, state, control) EXCEPT !.currentBit = x] =
           RTCOf(x, byte, reg, data, buffer, port, state, control)
BY DEF RTCOf

\* currentByte alone
LEMMA SetByte ==
  ASSUME NEW bit, NEW byte, NEW reg, NEW data, NEW buffer, NEW port, NEW state, NEW control, NEW x
  PROVE  [RTCOf(bit, byte, reg, data, buffer, port, state, control) EXCEPT !.currentByte = x] =
           RTCOf(bit, x, reg, data, buffer, port, state, control)
BY DEF RTCOf

\* reg alone
LEMMA SetReg ==
  ASSUME NEW bit, NEW byte, NEW reg, NEW data, NEW buffer, NEW port, NEW state, NEW control, NEW x
  PROVE  [RTCOf(bit, byte, reg, data, buffer, port, state, control) EXCEPT !.reg = x] =
           RTCOf(bit, byte, x, data, buffer, port, state, control)
BY DEF RTCOf

\* data alone
LEMMA SetData ==
  ASSUME NEW bit, NEW byte, NEW reg, NEW data, NEW buffer, NEW port, NEW state, NEW control, NEW x
  PROVE  [RTCOf(bit, byte, reg, data, buffer, port, state, control) EXCEPT !.data = x] =
           RTCOf(bit, byte, reg, x, buffer, port, state, control)
BY DEF RTCOf

\* buffer alone
LEMMA SetBuffer ==
  ASSUME NEW bit, NEW byte, NEW reg, NEW data, NEW buffer, NEW port, NEW state, NEW control, NEW x
  PROVE  [RTCOf(bit, byte, reg, data, buffer, port, state, control) EXCEPT !.buffer = x] =
           RTCOf(bit, byte, reg, data, x, port, state, control)
BY DEF RTCOf

\* port alone
LEMMA SetPort ==
  ASSUME NEW bit, NEW byte, NEW reg, NEW data, NEW buffer, NEW port, NEW state, NEW control, NEW x
  PROVE  [RTCOf(bit, byte, reg, data, buffer, port, state, control) EXCEPT !.port = x] =
           RTCOf(bit, byte, reg, data, buffer, x, state, control)
BY DEF RTCOf

\* state alone
LEMMA SetState ==
  ASSUME NEW bit, NEW byte, NEW reg, NEW data, NEW buffer, NEW port, NEW state, NEW control, NEW x
  PROVE  [RTCOf(bit, byte, reg, data, buffer, port, state, control) EXCEPT !.state = x] =
           RTCOf(bit, byte, reg, data, buffer, port, x, control)
BY DEF RTCOf

\* control alone
LEMMA SetControl ==
  ASSUME NEW bit, NEW byte, NEW reg, NEW data, NEW buffer, NEW port, NEW state, NEW control, NEW x
  PROVE  [RTCOf(bit, byte, reg, data, buffer, port, state, control) EXCEPT !.control = x] =
           RTCOf(bit, byte, reg, data, buffer, port, state, x)
BY DEF RTCOf

\* ReadSIO, field by field.
LEMMA ReadSIOIs ==
  ASSUME NEW bit, NEW byte, NEW reg, NEW data, NEW buffer, NEW port, NEW state, NEW control
  PROVE  ReadSIO(RTCOf(bit, byte, reg, data, buffer, port, state, control)) =
           RTCOf((bit + 1) % 8, byte, reg, [data EXCEPT ![bit] = Level(port, SIO)], buffer, port, state, control)
<1> DEFINE r == RTCOf(bit, byte, reg, data, buffer, port, state, control)
           B == (bit + 1) % 8
           D == [data EXCEPT ![bit] = Level(port, SIO)]
           g1 == [r EXCEPT !.data = D]
           g2 == [g1 EXCEPT !.currentBit = B]
<1>1. r.currentBit = bit /\ r.port = port /\ r.data = data
  BY RTCFields
<1>2. g1 = RTCOf(bit, byte, reg, D, buffer, port, state, control)
  <2> HIDE DEF D
  <2>1. QED
    BY SetData
<1>3. g1.currentBit = bit
  <2> HIDE DEF g1, D
  <2>1. QED
    BY <1>2, RTCFields
<1>4. [r EXCEPT !.data[r.currentBit] = Level(r.port, SIO)] = [r EXCEPT !.data = [r.data EXCEPT ![r.currentBit] = Level(r.port, SIO)]]
  OBVIOUS
<1>5. [r EXCEPT !.data[r.currentBit] = Level(r.port, SIO)] = g1
  BY <1>1, <1>4
<1> HIDE DEF r, g1, B
<1>6. ReadSIO(r) = [[r EXCEPT !.data[r.currentBit] = Level(r.port, SIO)] EXCEPT !.currentBit = (@ + 1) % 8]
  BY DEF ReadSIO
<1>7. ReadSIO(r) = g2
  BY <1>3, <1>5, <1>6 DEF B
<1>8. g2 = RTCOf(B, byte, reg, D, buffer, port, state, control)
  <2> HIDE DEF D
  <2>1. QED
    BY <1>2, SetBit
<1>9. QED
  BY <1>7, <1>8 DEF r, B

\* CommandOf, field by field.
LEMMA CommandOfIs ==
  ASSUME NEW bit, NEW byte, NEW reg, NEW data, NEW buffer, NEW port, NEW state, NEW control, NEW d
  PROVE  CommandOf(RTCOf(bit, byte, reg, data, buffer, port, state, control), d) =
           RTCOf(0, 0, d[4] + 2 * d[5] + 4 * d[6], d, buffer, port, state, control)
<1> DEFINE r == RTCOf(bit, byte, reg, data, buffer, port, state, control)
           g1 == [r EXCEPT !.data = d]
           g2 == [g1 EXCEPT !.reg = d[4] + 2 * d[5] + 4 * d[6]]
           g3 == [g2 EXCEPT !.currentBit = 0]
           g4 == [g3 EXCEPT !.currentByte = 0]
<1>1. CommandOf(r, d) = g4
  BY RTCFields DEF CommandOf
<1>2. g1 = RTCOf(bit, byte, reg, d, buffer, port, state, control)
  BY SetData
<1> HIDE DEF g1
<1>3. g2 = RTCOf(bit, byte, d[4] + 2 * d[5] + 4 * d[6], d, buffer, port, state, control)
  BY <1>2, SetReg
<1> HIDE DEF g2
<1>4. g3 = RTCOf(0, byte, d[4] + 2 * d[5] + 4 * d[6], d, buffer, port, state, control)
  BY <1>3, SetBit
<1> HIDE DEF g3
<1>5. g4 = RTCOf(0, 0, d[4] + 2 * d[5] + 4 * d[6], d, buffer, port, state, control)
  BY <1>4, SetByte
<1> HIDE DEF g4
<1>6. QED
  BY <1>1, <1>5

\* Selected, field by field.
LEMMA SelectedIs ==
  ASSUME NEW bit, NEW byte, NEW reg, NEW data, NEW buffer, NEW port, NEW state, NEW control
  PROVE  Selected(RTCOf(bit, byte, reg, data, buffer, port, state, control)) =
           RTCOf(0, 0, reg, data, buffer, port, "Command", control)
<1> DEFINE r == RTCOf(bit, byte, reg, data, buffer, port, state, control)
           g1 == [r EXCEPT !.state = "Command"]
           g2 == [g1 EXCEPT !.currentBit = 0]
           g3 == [g2 EXCEPT !.currentByte = 0]
<1>1. Selected(r) = g3
  BY RTCFields DEF Selected
<1>2. g1 = RTCOf(bit, byte, reg, data, buffer, port, "Command", control)
  BY SetState
<1> HIDE DEF g1
<1>3. g2 = RTCOf(0, byte, reg, data, buffer, port, "Command", control)
  BY <1>2, SetBit
<1> HIDE DEF g2
<1>4. g3 = RTCOf(0, 0, reg, data, buffer, port, "Command", control)
  BY <1>3, SetByte
<1> HIDE DEF g3
<1>5. QED
  BY <1>1, <1>4

ControlAfter(reg, buffer, control) ==
  CASE reg = ControlReg -> ControlOf(control, buffer[0])
    [] reg = ForceReset -> NoControl
    [] OTHER -> control

\* WriteRegister, for each register that it knows.
LEMMA WriteRegisterIs ==
  ASSUME NEW r
  PROVE  /\ r.reg = ControlReg => WriteRegister(r) = [r EXCEPT !.control = ControlOf(r.control, r.buffer[0])]
         /\ r.reg = ForceReset => WriteRegister(r) = [r EXCEPT !.control = NoControl]
         /\ r.reg \notin {ControlReg, ForceReset} => WriteRegister(r) = r
<1>1. [r EXCEPT !.control = ControlOf(@, r.buffer[0])] = [r EXCEPT !.control = ControlOf(r.control, r.buffer[0])]
  OBVIOUS
<1>2. ControlReg # ForceReset
  BY DEF ControlReg, ForceReset
<1>3. QED
  BY <1>1, <1>2, Zenon DEF WriteRegister

\* Written, field by field.
LEMMA WrittenIs ==
  ASSUME NEW bit, NEW byte, NEW reg, NEW data, NEW buffer, NEW port, NEW state, NEW control
  PROVE  Written(RTCOf(bit, byte, reg, data, buffer, port, state, control)) =
           RTCOf(bit, byte, reg, data, buffer, port, "Complete", ControlAfter(reg, buffer, control))
<1> DEFINE r == RTCOf(bit, byte, reg, data, buffer, port, state, control)
           c == ControlAfter(reg, buffer, control)
           g == RTCOf(bit, byte, reg, data, buffer, port, state, c)
<1>1. r.reg = reg /\ r.buffer = buffer /\ r.control = control
  BY RTCFields
<1>2. \A x : [r EXCEPT !.control = x] = RTCOf(bit, byte, reg, data, buffer, port, state, x)
  BY SetControl
<1>3. Written(r) = [WriteRegister(r) EXCEPT !.state = "Complete"]
  BY DEF Written
<1> HIDE DEF r
<1>4. WriteRegister(r) = g
  <2>1. CASE reg = ControlReg
    <3>1. WriteRegister(r) = [r EXCEPT !.control = ControlOf(control, buffer[0])]
      BY <1>1, <2>1, WriteRegisterIs
    <3>2. c = ControlOf(control, buffer[0])
      <4>1. ControlReg # ForceReset
        BY DEF ControlReg, ForceReset
      <4>2. QED
        BY <2>1, <4>1, Zenon DEF ControlAfter
    <3> HIDE DEF c
    <3>3. QED
      BY <1>2, <3>1, <3>2
  <2>2. CASE reg = ForceReset
    <3>1. WriteRegister(r) = [r EXCEPT !.control = NoControl]
      BY <1>1, <2>2, WriteRegisterIs
    <3>2. c = NoControl
      <4>1. ControlReg # ForceReset
        BY DEF ControlReg, ForceReset
      <4>2. QED
        BY <2>2, <4>1, Zenon DEF ControlAfter
    <3> HIDE DEF c
    <3>3. QED
      BY <1>2, <3>1, <3>2
  <2>3. CASE reg \notin {ControlReg, ForceReset}
    <3>1. WriteRegister(r) = r
      BY <1>1, <2>3, WriteRegisterIs
    <3>2. c = control
      BY <2>3, Zenon DEF ControlAfter
    <3>3. QED
      BY <3>1, <3>2 DEF r
  <2>4. QED
    BY <2>1, <2>2, <2>3
<1> HIDE DEF c
<1>5. [g EXCEPT !.state = "Complete"] = RTCOf(bit, byte, reg, data, buffer, port, "Complete", c)
  BY SetState
<1>6. QED
  BY <1>3, <1>4, <1>5 DEF r, c

\* A register that is asked for fills as many bytes as it has.
LEMMA DecimalNat ==
  ASSUME NEW x \in Nat
  PROVE  DecimalToBCD(x) \in Nat
BY DEF DecimalToBCD

\* ReadRegister changes the buffer and fills it with numbers.
LEMMA ReadRegisterIs ==
  ASSUME NEW r, IsRTC(r), NEW now \in Now
  PROVE  \E f : /\ IsBuffer(f) /\ \A j \in 0 .. rtcArgCount(r.reg) - 1 : f[j] \in Nat
                /\ ReadRegister(r, now) =
                     RTCOf(r.currentBit, r.currentByte, r.reg, r.data, f, r.port, r.state, r.control)
<1> DEFINE bit == r.currentBit
           byte == r.currentByte
           reg == r.reg
           data == r.data
           buffer == r.buffer
           port == r.port
           state == r.state
           control == r.control
           Fill(bytes) == [n \in 0 .. 6 |-> IF n < Len(bytes) THEN bytes[n + 1] ELSE buffer[n]]
<1>1. /\ r.reg = reg /\ r.buffer = buffer /\ r.control = control /\ reg \in 0 .. 7
      /\ r = RTCOf(bit, byte, reg, data, buffer, port, state, control) /\ IsBuffer(buffer)
  BY DEF IsRTC
<1> HIDE DEF bit, byte, reg, data, buffer, port, state, control
<1>2. \A bytes : Filled(r, bytes) = RTCOf(bit, byte, reg, data, Fill(bytes), port, state, control)
  <2> SUFFICES ASSUME NEW bytes
               PROVE  Filled(r, bytes) = RTCOf(bit, byte, reg, data, Fill(bytes), port, state, control)
    OBVIOUS
  <2>1. Filled(r, bytes) = [r EXCEPT !.buffer = Fill(bytes)]
    BY <1>1 DEF Filled
  <2> HIDE DEF Fill
  <2>2. QED
    BY <1>1, <2>1, SetBuffer
<1>3. \A bytes : IsBuffer(Fill(bytes))
  BY DEF IsBuffer
<1>4. \A n \in 1 .. 4 : now.date[n] \in Nat
  BY GpioAssumption
<1>5. now.hour \in Nat /\ now.minute \in Nat /\ now.second \in Nat
  BY GpioAssumption
<1>6. AdjustHour(control, now.hour) \in Nat
  BY <1>5 DEF AdjustHour
<1> DEFINE times == TimeBytes(control, now)
           dates == [k \in 1 .. 4 |-> DecimalToBCD(now.date[k])]
<1>7. times \in Seq(Nat) /\ Len(times) = 3
  <2>1. /\ DecimalToBCD(AdjustHour(control, now.hour)) \in Nat
        /\ DecimalToBCD(now.minute) \in Nat /\ DecimalToBCD(now.second) \in Nat
    BY <1>5, <1>6, DecimalNat
  <2>2. QED
    BY <2>1 DEF TimeBytes
<1>8. dates \in Seq(Nat) /\ Len(dates) = 4
  <2>1. dates \in [1 .. 4 -> Nat] /\ 4 \in Nat
    BY <1>4, DecimalNat
  <2> HIDE DEF dates
  <2>2. dates \in Seq(Nat)
    BY <2>1, SeqDef
  <2>3. DOMAIN dates = 1 .. 4 /\ DOMAIN dates = 1 .. Len(dates) /\ Len(dates) \in Nat
    BY <2>1, <2>2, LenProperties
  <2>4. QED
    BY <2>2, <2>3
<1> HIDE DEF times, dates
<1>9. dates \o times \in Seq(Nat) /\ Len(dates \o times) = 7
  <2>1. dates \o times \in Seq(Nat) /\ Len(dates \o times) = Len(dates) + Len(times)
    BY <1>7, <1>8, ConcatProperties, Zenon
  <2>2. QED
    BY <1>7, <1>8, <2>1
<1>10. <<ControlByte(control)>> \in Seq(Nat) /\ Len(<<ControlByte(control)>>) = 1
  BY DEF ControlByte
<1>11. \A n \in 0 .. 7 : rtcArgCount(n) =
         CASE n = 2 -> 7 [] n = 4 -> 1 [] n = 6 -> 3 [] OTHER -> 0
  BY DEF rtcArgCount, ArgCount
<1>12. ASSUME NEW bytes \in Seq(Nat), Len(bytes) = rtcArgCount(reg)
       PROVE  \A j \in 0 .. rtcArgCount(reg) - 1 : Fill(bytes)[j] \in Nat
  <2> SUFFICES ASSUME NEW j \in 0 .. rtcArgCount(reg) - 1 PROVE Fill(bytes)[j] \in Nat
    OBVIOUS
  <2>1. rtcArgCount(reg) \in 0 .. 7
    BY <1>1, <1>11
  <2>2. j \in 0 .. 6 /\ j < Len(bytes) /\ j + 1 \in 1 .. Len(bytes)
    BY <1>12, <2>1
  <2>3. Fill(bytes)[j] = bytes[j + 1]
    BY <2>2
  <2>4. QED
    BY <2>2, <2>3, <1>12, ElementOfSeq
<1> HIDE DEF Fill
<1>13. ASSUME NEW bytes \in Seq(Nat), Len(bytes) = rtcArgCount(reg), ReadRegister(r, now) = Filled(r, bytes)
       PROVE  \E f : /\ IsBuffer(f) /\ \A j \in 0 .. rtcArgCount(reg) - 1 : f[j] \in Nat
                     /\ ReadRegister(r, now) = RTCOf(bit, byte, reg, data, f, port, state, control)
  BY <1>2, <1>3, <1>12, <1>13, Zenon
<1>19. ControlReg = 4 /\ DateTime = 2 /\ Time = 6 /\ 4 # 2 /\ 4 # 6 /\ 2 # 6
  BY DEF ControlReg, DateTime, Time
<1>14. CASE reg = 4
  <2>1. ReadRegister(r, now) = Filled(r, <<ControlByte(control)>>)
    BY <1>1, <1>14, <1>19, Zenon DEF ReadRegister
  <2>2. rtcArgCount(reg) = 1
    BY <1>11, <1>14
  <2>3. QED
    BY <1>10, <1>13, <2>1, <2>2, Zenon DEF bit, byte, reg, data, port, state, control
<1>15. CASE reg = 2
  <2>1. ReadRegister(r, now) = Filled(r, dates \o times)
    BY <1>1, <1>15, <1>19, Zenon DEF ReadRegister, dates, times
  <2>2. rtcArgCount(reg) = 7
    BY <1>11, <1>15
  <2>3. QED
    BY <1>9, <1>13, <2>1, <2>2, Zenon DEF bit, byte, reg, data, port, state, control
<1>16. CASE reg = 6
  <2>1. ReadRegister(r, now) = Filled(r, times)
    BY <1>1, <1>16, <1>19, Zenon DEF ReadRegister, times
  <2>2. rtcArgCount(reg) = 3
    BY <1>11, <1>16
  <2>3. QED
    BY <1>7, <1>13, <2>1, <2>2, Zenon DEF bit, byte, reg, data, port, state, control
<1>17. CASE reg \notin {2, 4, 6}
  <2>1. ReadRegister(r, now) = r
    BY <1>1, <1>17 DEF ReadRegister, ControlReg, DateTime, Time
  <2>2. rtcArgCount(reg) = 0
    BY <1>1, <1>11, <1>17
  <2>3. QED
    BY <1>1, <2>1, <2>2 DEF bit, byte, reg, data, port, state, control
<1>18. QED
  BY <1>14, <1>15, <1>16, <1>17

-----------------------------------------------------------------------------
\* What the clock does with the bits it has heard
Waiting(r, h) ==
  /\ r.state = "Command" /\ r.currentBit = Len(h) % 8
  /\ \A i \in 0 .. r.currentBit - 1 : r.data[i] = h[8 * (Len(h) \div 8) + i + 1]

At(r, m) == r.currentByte = Len(m.rest) \div 8 /\ r.currentBit = Len(m.rest) % 8

Taking(r, m) ==
  /\ r.state = "Receiving" /\ r.reg = m.reg /\ At(r, m)
  /\ \A i \in 0 .. r.currentBit - 1 : r.data[i] = m.rest[8 * (Len(m.rest) \div 8) + i + 1]

Telling(r, m, a) ==
  /\ r.state = "Sending" /\ r.reg = m.reg /\ At(r, m)
  /\ \A j \in 0 .. rtcArgCount(m.reg) - 1 :
       /\ a[j] \in Nat
       /\ j = r.currentByte => r.buffer[j] = a[j] \div 2 ^ r.currentBit
       /\ j > r.currentByte => r.buffer[j] = a[j]

Finished(r, m) == r.state = "Complete" /\ r.reg = m.reg

Decoded(r, h, a) ==
  LET m == Meaning(h) IN
  /\ Commands(h) = {} => Waiting(r, h)
  /\ Commands(h) # {} /\ Len(m.rest) < Arguments(m) /\ m.asks => Telling(r, m, a)
  /\ Commands(h) # {} /\ Len(m.rest) < Arguments(m) /\ ~m.asks => Taking(r, m)
  /\ Commands(h) # {} /\ Len(m.rest) >= Arguments(m) => Finished(r, m)

\* The bit that makes a frame a whole one that sets a register
Acts(g) ==
  /\ Commands(g) # {} /\ ~Meaning(g).asks
  /\ Len(Meaning(g).rest) = Arguments(Meaning(g)) /\ Len(g) % 8 = 0

ControlWith(control, g) ==
  CASE Acts(g) /\ Meaning(g).reg = ControlReg -> ControlOf(control, Number(SubSeq(Meaning(g).rest, 1, 8)))
    [] Acts(g) /\ Meaning(g).reg = ForceReset -> NoControl
    [] OTHER -> control

\* The registers and how many bytes each has.
LEMMA RegistersAre ==
  /\ ForceReset = 0 /\ DateTime = 2 /\ ForceIRQ = 3 /\ ControlReg = 4 /\ Time = 6
  /\ \A n \in 0 .. 7 : rtcArgCount(n) = CASE n = 2 -> 7 [] n = 4 -> 1 [] n = 6 -> 3 [] OTHER -> 0
  /\ \A n \in 0 .. 7 : rtcArgCount(n) \in 0 .. 7
<1>1. \A n \in 0 .. 7 : rtcArgCount(n) = CASE n = 2 -> 7 [] n = 4 -> 1 [] n = 6 -> 3 [] OTHER -> 0
  BY DEF rtcArgCount, ArgCount
<1>2. \A n \in 0 .. 7 : rtcArgCount(n) \in 0 .. 7
  BY <1>1
<1>3. QED
  BY <1>1, <1>2 DEF ForceReset, DateTime, ForceIRQ, ControlReg, Time

\* A bit from the line
Latched(r) == [r.data EXCEPT ![r.currentBit] = Level(r.port, SIO)]

\* ReadSIO puts the level of the line at the bit that is due, and moves on.
LEMMA BitIsRead ==
  ASSUME NEW r, IsRTC(r)
  PROVE  /\ IsRTC(ReadSIO(r)) /\ Latched(r) \in Bits8
         /\ ReadSIO(r) = RTCOf((r.currentBit + 1) % 8, r.currentByte, r.reg, Latched(r), r.buffer, r.port, r.state,
                               r.control)
         /\ Level(r.port, SIO) \in {0, 1}
         /\ Latched(r)[r.currentBit] = Level(r.port, SIO)
         /\ \A i \in 0 .. 7 : i # r.currentBit => Latched(r)[i] = r.data[i]
<1>1. r = RTCOf(r.currentBit, r.currentByte, r.reg, r.data, r.buffer, r.port, r.state, r.control)
  BY DEF IsRTC
<1>2. ReadSIO(RTCOf(r.currentBit, r.currentByte, r.reg, r.data, r.buffer, r.port, r.state, r.control)) =
        RTCOf((r.currentBit + 1) % 8, r.currentByte, r.reg, Latched(r), r.buffer, r.port, r.state, r.control)
  BY ReadSIOIs DEF Latched
<1>3. ReadSIO(r) = RTCOf((r.currentBit + 1) % 8, r.currentByte, r.reg, Latched(r), r.buffer, r.port, r.state, r.control)
  BY <1>1, <1>2
<1>4. Level(r.port, SIO) \in {0, 1}
  BY DEF Level
<1>5. r.currentBit \in 0 .. 7 /\ r.data \in Bits8
  BY DEF IsRTC
<1>6. /\ Latched(r) \in Bits8 /\ Latched(r)[r.currentBit] = Level(r.port, SIO)
      /\ \A i \in 0 .. 7 : i # r.currentBit => Latched(r)[i] = r.data[i]
  BY <1>4, <1>5 DEF Bits8, Latched
<1>7. (r.currentBit + 1) % 8 \in 0 .. 7
  BY <1>5
<1>8. /\ r.currentByte \in Nat /\ r.reg \in 0 .. 7 /\ IsBuffer(r.buffer) /\ r.port \in SUBSET All
      /\ r.state \in {"Command", "Sending", "Receiving", "Complete"}
  BY DEF IsRTC
<1>9. IsRTC(ReadSIO(r))
  <2>1. IsRTC(RTCOf((r.currentBit + 1) % 8, r.currentByte, r.reg, Latched(r), r.buffer, r.port, r.state, r.control))
    BY <1>6, <1>7, <1>8, IsRTCOf
  <2>2. QED
    BY <1>3, <2>1
<1>10. QED
  BY <1>3, <1>4, <1>6, <1>9

\* The clock finds the code, and the order, that the byte on the line has.
LEMMA SameByte ==
  ASSUME NEW d \in Bits8, NEW byte, IsByte(byte), \A i \in 0 .. 7 : d[i] = byte[i + 1]
  PROVE  /\ InOrder(d) \in Bits8
         /\ Lower(InOrder(d)) = CommandCode <=> Understood(byte)
         /\ Understood(byte) => \A i \in 0 .. 7 : InOrder(d)[i] = Turned(byte)[i + 1]
<1>1. \A x \in Bits8 : Lower(x) = CommandCode <=> x[0] = 0 /\ x[1] = 1 /\ x[2] = 1 /\ x[3] = 0
  BY DEF Lower, CommandCode
<1>2. Upper(d) = CommandCode <=> d[4] = 0 /\ d[5] = 1 /\ d[6] = 1 /\ d[7] = 0
  BY DEF Upper, CommandCode
<1>3. /\ d[0] = byte[1] /\ d[1] = byte[2] /\ d[2] = byte[3] /\ d[3] = byte[4]
      /\ d[4] = byte[5] /\ d[5] = byte[6] /\ d[6] = byte[7] /\ d[7] = byte[8]
  <2>1. \A i \in 0 .. 7 : d[i] = byte[i + 1]
    OBVIOUS
  <2>2. QED
    BY <2>1
<1>4. /\ CodeFirst(byte) <=> byte[1] = 0 /\ byte[2] = 1 /\ byte[3] = 1 /\ byte[4] = 0
      /\ CodeLast(byte) <=> byte[5] = 0 /\ byte[6] = 1 /\ byte[7] = 1 /\ byte[8] = 0
      /\ \A i \in 1 .. 8 : Reverse(byte)[i] = byte[9 - i]
  BY Codes
<1>5. CASE CodeLast(byte)
  <2> DEFINE e == [b \in 0 .. 7 |-> d[7 - b]]
  <2>1. InOrder(d) = e
    BY <1>2, <1>3, <1>4, <1>5 DEF InOrder
  <2>2. e \in Bits8
    BY DEF Bits8
  <2>3. \A i \in 0 .. 7 : e[i] = byte[8 - i]
    <3> SUFFICES ASSUME NEW i \in 0 .. 7 PROVE e[i] = byte[8 - i]
      OBVIOUS
    <3>1. e[i] = d[7 - i] /\ 7 - i \in 0 .. 7 /\ (7 - i) + 1 = 8 - i
      OBVIOUS
    <3>2. QED
      BY <3>1
  <2>4. \A i \in 0 .. 7 : Turned(byte)[i + 1] = byte[8 - i]
    <3> SUFFICES ASSUME NEW i \in 0 .. 7 PROVE Turned(byte)[i + 1] = byte[8 - i]
      OBVIOUS
    <3>1. i + 1 \in 1 .. 8 /\ 9 - (i + 1) = 8 - i
      OBVIOUS
    <3>2. QED
      BY <1>4, <1>5, <3>1 DEF Turned
  <2>5. e[0] = byte[8] /\ e[1] = byte[7] /\ e[2] = byte[6] /\ e[3] = byte[5]
    BY <2>3
  <2> HIDE DEF e
  <2>6. Lower(e) = CommandCode
    BY <1>1, <1>4, <1>5, <2>2, <2>5
  <2>7. QED
    BY <1>5, <2>1, <2>2, <2>3, <2>4, <2>6 DEF Understood
<1>6. CASE ~CodeLast(byte)
  <2>1. InOrder(d) = d
    BY <1>2, <1>3, <1>4, <1>6 DEF InOrder
  <2>2. Lower(d) = CommandCode <=> CodeFirst(byte)
    BY <1>1, <1>3, <1>4
  <2>3. QED
    BY <1>6, <2>1, <2>2 DEF Understood, Turned
<1>7. QED
  BY <1>5, <1>6

\* The answer is what the register was when it was asked for.
AnswerOf(r, n, a) == IF r.state = "Command" /\ n.state = "Sending" THEN n.buffer ELSE a

Answered(n, g, a) ==
  Commands(g) # {} /\ Meaning(g).asks /\ Len(Meaning(g).rest) \in 1 .. Arguments(Meaning(g)) =>
    Level(n.port, SIO) = BitOf(a[(Len(Meaning(g).rest) - 1) \div 8], (Len(Meaning(g).rest) - 1) % 8)

Interrupts(r, n) == r.state = "Command" /\ n.state = "Complete" /\ Raises(n) /\ n.data[7] = 0

\* The clock r, with the bit on its line that makes what was heard g, becomes n.
Heeds(r, n, g, a) ==
  /\ IsRTC(n) /\ \A l \in {SCK, CS} : l \in n.port <=> l \in r.port
  /\ Decoded(n, g, AnswerOf(r, n, a)) /\ Answered(n, g, AnswerOf(r, n, a))
  /\ n.control = ControlWith(r.control, g)
  /\ Interrupts(r, n) <=> Acts(g) /\ Meaning(g).reg = ForceIRQ

\* A bit that does not complete a frame leaves the register.
LEMMA Quiet ==
  ASSUME NEW g, NEW control, ~Acts(g)
  PROVE  ControlWith(control, g) = control
BY Zenon DEF ControlWith

\* ReceiveCommandSIO, case by case.
LEMMA CommandCases ==
  ASSUME NEW r, NEW now
  PROVE  /\ ~ByteRead(r) => ReceiveCommandSIO(r, now) = ReadSIO(r)
         /\ ByteRead(r) /\ Lower(InOrder(ReadSIO(r).data)) # CommandCode => ReceiveCommandSIO(r, now) = ReadSIO(r)
         /\ ByteRead(r) /\ Lower(InOrder(ReadSIO(r).data)) = CommandCode /\ InOrder(ReadSIO(r).data)[7] = 1 =>
              ReceiveCommandSIO(r, now) =
                [ReadRegister(CommandOf(ReadSIO(r), InOrder(ReadSIO(r).data)), now) EXCEPT
                   !.state = IF rtcArgCount(CommandOf(ReadSIO(r), InOrder(ReadSIO(r).data)).reg) = 0
                               THEN "Complete" ELSE "Sending"]
         /\ ByteRead(r) /\ Lower(InOrder(ReadSIO(r).data)) = CommandCode /\ InOrder(ReadSIO(r).data)[7] = 0 =>
              ReceiveCommandSIO(r, now) =
                IF rtcArgCount(CommandOf(ReadSIO(r), InOrder(ReadSIO(r).data)).reg) > 0
                  THEN [CommandOf(ReadSIO(r), InOrder(ReadSIO(r).data)) EXCEPT !.state = "Receiving"]
                  ELSE Written(CommandOf(ReadSIO(r), InOrder(ReadSIO(r).data)))
<1>1. 0 # 1
  OBVIOUS
<1>2. QED
  BY <1>1, Zenon DEF ReceiveCommandSIO

\* The bits of a byte, as far as it was read
LEMMA ByteSoFar ==
  ASSUME NEW r, IsRTC(r), NEW s \in Heard, NEW b \in {0, 1}, Level(r.port, SIO) = b,
         r.currentBit = Len(s) % 8,
         \A i \in 0 .. r.currentBit - 1 : r.data[i] = s[8 * (Len(s) \div 8) + i + 1]
  PROVE  /\ Len(s) = 8 * (Len(s) \div 8) + r.currentBit /\ Len(s) \div 8 \in Nat /\ Len(s) \in Nat
         /\ \A i \in 0 .. r.currentBit : Latched(r)[i] = Append(s, b)[8 * (Len(s) \div 8) + i + 1]
<1> DEFINE k == Len(s) \div 8
           g == Append(s, b)
<1>1. /\ g \in Heard /\ Len(g) = Len(s) + 1 /\ Len(s) \in Nat
      /\ g[Len(s) + 1] = b /\ \A i \in 1 .. Len(s) : g[i] = s[i]
  BY Appended
<1> HIDE DEF g
<1>2. Len(s) = 8 * k + r.currentBit /\ k \in Nat
  BY <1>1
<1>3. /\ r.currentBit \in 0 .. 7 /\ Latched(r)[r.currentBit] = b
      /\ \A i \in 0 .. 7 : i # r.currentBit => Latched(r)[i] = r.data[i]
  BY BitIsRead DEF IsRTC
<1> HIDE DEF k
<1>4. \A i \in 0 .. r.currentBit : Latched(r)[i] = g[8 * k + i + 1]
  <2> SUFFICES ASSUME NEW i \in 0 .. r.currentBit PROVE Latched(r)[i] = g[8 * k + i + 1]
    OBVIOUS
  <2>1. CASE i = r.currentBit
    <3>1. 8 * k + i + 1 = Len(s) + 1
      BY <1>2, <1>3, <2>1
    <3>2. QED
      BY <1>1, <1>3, <2>1, <3>1
  <2>2. CASE i # r.currentBit
    <3>1. i \in 0 .. 7 /\ i \in 0 .. r.currentBit - 1 /\ 8 * k + i + 1 \in 1 .. Len(s)
      <4>1. r.currentBit \in 0 .. 7 /\ i \in 0 .. r.currentBit
        BY <1>3
      <4>2. i \in 0 .. 7 /\ i \in 0 .. r.currentBit - 1
        BY <4>1, <2>2
      <4>3. 8 * k + i + 1 \in 1 .. Len(s)
        <5> DEFINE m == r.currentBit
        <5>1. Len(s) = 8 * k + m /\ k \in Nat /\ m \in 0 .. 7 /\ i \in 0 .. m - 1
          BY <1>2, <4>1, <4>2
        <5> HIDE DEF m
        <5>2. QED
          BY <5>1
      <4>4. QED
        BY <4>2, <4>3
    <3>2. r.data[i] = s[8 * k + i + 1]
      BY <3>1 DEF k
    <3>3. QED
      BY <1>1, <1>3, <2>2, <3>1, <3>2
  <2>3. QED
    BY <2>1, <2>2
<1>5. QED
  BY <1>1, <1>2, <1>4 DEF g, k

\* A bit that makes no command is heeded.
LEMMA NotACommand ==
  ASSUME NEW r, IsRTC(r), NEW h \in Heard, Commands(h) = {}, Waiting(r, h), NEW b \in {0, 1},
         Level(r.port, SIO) = b, NEW a, Commands(Append(h, b)) = {}
  PROVE  Heeds(r, ReadSIO(r), Append(h, b), a)
<1> DEFINE g == Append(h, b)
           n == ReadSIO(r)
<1>1. g \in Heard /\ Len(g) = Len(h) + 1 /\ Len(h) \in Nat
  BY Appended
<1>2. r.state = "Command" /\ r.currentBit = Len(h) % 8
      /\ \A i \in 0 .. r.currentBit - 1 : r.data[i] = h[8 * (Len(h) \div 8) + i + 1]
  BY DEF Waiting
<1>3. /\ Len(h) = 8 * (Len(h) \div 8) + r.currentBit /\ Len(h) \div 8 \in Nat
      /\ \A i \in 0 .. r.currentBit : Latched(r)[i] = g[8 * (Len(h) \div 8) + i + 1]
  BY <1>2, ByteSoFar
<1> HIDE DEF g
<1>4. /\ n.currentBit = (r.currentBit + 1) % 8 /\ n.data = Latched(r) /\ n.state = r.state /\ n.port = r.port
      /\ n.control = r.control /\ IsRTC(n) /\ r.currentBit \in 0 .. 7
  <2>1. n = RTCOf((r.currentBit + 1) % 8, r.currentByte, r.reg, Latched(r), r.buffer, r.port, r.state, r.control)
        /\ IsRTC(n)
    BY BitIsRead
  <2>2. r.currentBit \in 0 .. 7
    BY DEF IsRTC
  <2> HIDE DEF n
  <2>3. QED
    BY <2>1, <2>2, RTCFields
<1> HIDE DEF n
<1>5. Waiting(n, g)
  <2>1. n.currentBit = Len(g) % 8
    BY <1>1, <1>2, <1>4
  <2>2. \A i \in 0 .. n.currentBit - 1 : n.data[i] = g[8 * (Len(g) \div 8) + i + 1]
    <3>1. CASE r.currentBit = 7
      BY <1>4, <3>1
    <3>2. CASE r.currentBit # 7
      <4>1. Len(g) \div 8 = Len(h) \div 8 /\ n.currentBit = r.currentBit + 1
        <5> DEFINE k == Len(h) \div 8
                   m == r.currentBit
        <5>1. Len(h) = 8 * k + m /\ k \in Nat /\ m \in 0 .. 6 /\ Len(g) = Len(h) + 1 /\ n.currentBit = (m + 1) % 8
          BY <1>1, <1>3, <1>4, <3>2
        <5> HIDE DEF k, m
        <5>2. Len(g) \div 8 = k /\ n.currentBit = m + 1
          BY <5>1
        <5>3. QED
          BY <5>2 DEF k, m
      <4>2. \A i \in 0 .. n.currentBit - 1 : i \in 0 .. r.currentBit
        BY <1>4, <4>1
      <4>3. QED
        BY <1>3, <1>4, <4>1, <4>2
    <3>3. QED
      BY <3>1, <3>2
  <2>3. QED
    BY <1>2, <1>4, <2>1, <2>2 DEF Waiting
<1>6. Commands(g) = {}
  BY DEF g
<1>7. ~Acts(g)
  BY <1>6 DEF Acts
<1>8. Decoded(n, g, AnswerOf(r, n, a)) /\ Answered(n, g, AnswerOf(r, n, a))
  BY <1>5, <1>6 DEF Decoded, Answered
<1>9. ~Interrupts(r, n)
  BY <1>2, <1>4 DEF Interrupts
<1>10. n.control = ControlWith(r.control, g)
  BY <1>4, <1>7, Quiet
<1>11. Heeds(r, n, g, a)
  BY <1>4, <1>7, <1>8, <1>9, <1>10 DEF Heeds
<1>12. QED
  BY <1>11 DEF g, n

\* The eighth bit: the clock sees a command if there is one, and which.
LEMMA TheCommand ==
  ASSUME NEW r, IsRTC(r), NEW h \in Heard, Commands(h) = {}, Waiting(r, h), NEW b \in {0, 1},
         Level(r.port, SIO) = b, Len(h) % 8 = 7
  PROVE  /\ r.currentBit = 7 /\ ReadSIO(r).data = Latched(r) /\ InOrder(Latched(r)) \in Bits8
         /\ Lower(InOrder(Latched(r))) # CommandCode => Commands(Append(h, b)) = {}
         /\ Lower(InOrder(Latched(r))) = CommandCode =>
              /\ Commands(Append(h, b)) # {} /\ Len(Append(h, b)) % 8 = 0
              /\ Meaning(Append(h, b)).reg \in 0 .. 7
              /\ Meaning(Append(h, b)).asks <=> InOrder(Latched(r))[7] = 1
              /\ Meaning(Append(h, b)).rest = <<>>
              /\ CommandOf(ReadSIO(r), InOrder(Latched(r))) =
                   RTCOf(0, 0, Meaning(Append(h, b)).reg, InOrder(Latched(r)), r.buffer, r.port, "Command", r.control)
<1> DEFINE g == Append(h, b)
           k == Len(h) \div 8
           byte == ByteAt(g, k)
           d == InOrder(Latched(r))
<1>1. g \in Heard /\ Len(g) = Len(h) + 1 /\ Len(h) \in Nat
  BY Appended
<1>2. r.state = "Command" /\ r.currentBit = 7 /\ r.currentBit = Len(h) % 8
      /\ \A i \in 0 .. r.currentBit - 1 : r.data[i] = h[8 * (Len(h) \div 8) + i + 1]
  BY DEF Waiting
<1>3. k \in Nat /\ \A i \in 0 .. r.currentBit : Latched(r)[i] = g[8 * k + i + 1]
  <2> HIDE DEF g
  <2>1. /\ Len(h) \div 8 \in Nat
        /\ \A i \in 0 .. r.currentBit : Latched(r)[i] = Append(h, b)[8 * (Len(h) \div 8) + i + 1]
    BY <1>2, ByteSoFar
  <2>2. QED
    BY <2>1 DEF g
<1>4. /\ Wholly(g, k)
      /\ ~Understood(byte) => Commands(g) = {}
      /\ Understood(byte) => Commands(g) # {} /\ Meaning(g) = SaidBy(byte, <<>>)
  BY MeaningBegins
<1>5. Latched(r) \in Bits8
      /\ ReadSIO(r) = RTCOf((r.currentBit + 1) % 8, r.currentByte, r.reg, Latched(r), r.buffer, r.port, r.state,
                            r.control)
  BY BitIsRead
<1>6. ReadSIO(r).data = Latched(r)
  BY <1>5, RTCFields
<1> HIDE DEF g, k
<1>7. IsByte(byte) /\ \A i \in 1 .. 8 : byte[i] = g[8 * k + i]
  BY <1>1, <1>4, Bytes
<1>8. \A i \in 0 .. 7 : Latched(r)[i] = byte[i + 1]
  <2> SUFFICES ASSUME NEW i \in 0 .. 7 PROVE Latched(r)[i] = byte[i + 1]
    OBVIOUS
  <2>1. i + 1 \in 1 .. 8 /\ 8 * k + (i + 1) = 8 * k + i + 1
    BY <1>3
  <2>2. QED
    BY <1>2, <1>3, <1>7, <2>1
<1> HIDE DEF byte
<1>9. /\ d \in Bits8
      /\ Lower(d) = CommandCode <=> Understood(byte)
      /\ Understood(byte) => \A i \in 0 .. 7 : d[i] = Turned(byte)[i + 1]
  BY <1>5, <1>7, <1>8, SameByte
<1> HIDE DEF d
<1>10. CommandOf(ReadSIO(r), d) =
         RTCOf(0, 0, d[4] + 2 * d[5] + 4 * d[6], d, r.buffer, r.port, "Command", r.control)
  BY <1>2, <1>5, CommandOfIs
<1>11. ASSUME Lower(d) = CommandCode
       PROVE  /\ Commands(g) # {} /\ Len(g) % 8 = 0
              /\ Meaning(g).reg \in 0 .. 7
              /\ Meaning(g).asks <=> d[7] = 1
              /\ Meaning(g).rest = <<>>
              /\ Meaning(g).reg = d[4] + 2 * d[5] + 4 * d[6]
  <2>1. Commands(g) # {} /\ Meaning(g) = SaidBy(byte, <<>>)
    BY <1>4, <1>9, <1>11
  <2>2. Meaning(g).reg \in 0 .. 7
    BY <1>1, <2>1, Meanings
  <2>3. \A i \in 0 .. 7 : d[i] = Turned(byte)[i + 1]
    BY <1>9, <1>11
  <2>4. d[4] = Turned(byte)[5] /\ d[5] = Turned(byte)[6] /\ d[6] = Turned(byte)[7] /\ d[7] = Turned(byte)[8]
    BY <2>3
  <2>5. Len(g) % 8 = 0
    BY <1>1
  <2>6. /\ SaidBy(byte, <<>>).reg = Turned(byte)[5] + 2 * Turned(byte)[6] + 4 * Turned(byte)[7]
        /\ SaidBy(byte, <<>>).asks <=> Turned(byte)[8] = 1
        /\ SaidBy(byte, <<>>).rest = <<>>
    BY DEF SaidBy
  <2>7. QED
    BY <2>1, <2>2, <2>4, <2>5, <2>6
<1>12. QED
  BY <1>2, <1>4, <1>6, <1>9, <1>10, <1>11 DEF g, d

\* A command that asks for a register
LEMMA AsksFor ==
  ASSUME NEW r, IsRTC(r), NEW h \in Heard, Commands(h) = {}, Waiting(r, h), NEW b \in {0, 1},
         Level(r.port, SIO) = b, Len(h) % 8 = 7, Lower(InOrder(Latched(r))) = CommandCode,
         InOrder(Latched(r))[7] = 1, NEW now \in Now, NEW a
  PROVE  Heeds(r, ReceiveCommandSIO(r, now), Append(h, b), a)
<1> DEFINE g == Append(h, b)
           d == InOrder(Latched(r))
           n == ReceiveCommandSIO(r, now)
           c == CommandOf(ReadSIO(r), d)
           reg == Meaning(g).reg
           next == IF rtcArgCount(c.reg) = 0 THEN "Complete" ELSE "Sending"
<1>1. /\ r.currentBit = 7 /\ ReadSIO(r).data = Latched(r) /\ d \in Bits8
      /\ Commands(g) # {} /\ Len(g) % 8 = 0 /\ reg \in 0 .. 7 /\ Meaning(g).asks /\ Meaning(g).rest = <<>>
      /\ c = RTCOf(0, 0, reg, d, r.buffer, r.port, "Command", r.control)
  BY TheCommand
<1>2. r.state = "Command"
  BY DEF Waiting
<1>3. n = [ReadRegister(c, now) EXCEPT !.state = next]
  BY <1>1, CommandCases DEF ByteRead
<1> HIDE DEF n, d, g, reg
<1>4. c.reg = reg
  BY <1>1, RTCFields
<1>5. IsBuffer(r.buffer) /\ r.port \in SUBSET All
  BY DEF IsRTC
<1>6. PICK f : /\ IsBuffer(f) /\ \A j \in 0 .. rtcArgCount(reg) - 1 : f[j] \in Nat
               /\ ReadRegister(c, now) = RTCOf(0, 0, reg, d, f, r.port, "Command", r.control)
  <2>1. c.currentBit = 0 /\ c.currentByte = 0 /\ c.data = d /\ c.port = r.port /\ c.state = "Command"
        /\ c.control = r.control
    BY <1>1, RTCFields
  <2>2. IsRTC(c)
    <3>1. 0 \in 0 .. 7 /\ 0 \in Nat /\ "Command" \in {"Command", "Sending", "Receiving", "Complete"}
      OBVIOUS
    <3>2. IsRTC(RTCOf(0, 0, reg, d, r.buffer, r.port, "Command", r.control))
      BY <1>1, <1>5, <3>1, IsRTCOf, Zenon
    <3>3. QED
      BY <1>1, <3>2
  <2> HIDE DEF c
  <2>3. QED
    BY <1>4, <2>1, <2>2, ReadRegisterIs
<1> DEFINE state == IF rtcArgCount(reg) = 0 THEN "Complete" ELSE "Sending"
<1>7. next = state
  BY <1>4
<1> HIDE DEF next, c
<1>8. n = RTCOf(0, 0, reg, d, f, r.port, state, r.control)
  <2> HIDE DEF state
  <2>1. QED
    BY <1>3, <1>6, <1>7, SetState
<1>9. /\ n.currentBit = 0 /\ n.currentByte = 0 /\ n.reg = reg /\ n.data = d
      /\ n.buffer = f /\ n.port = r.port /\ n.state = state /\ n.control = r.control
  <2> HIDE DEF state
  <2>1. QED
    BY <1>8, RTCFields
<1>10. IsRTC(n)
  <2>1. state \in {"Command", "Sending", "Receiving", "Complete"}
    OBVIOUS
  <2> HIDE DEF state
  <2>2. IsRTC(RTCOf(0, 0, reg, d, f, r.port, state, r.control))
    <3>1. 0 \in 0 .. 7 /\ 0 \in Nat
      OBVIOUS
    <3>2. QED
      BY <1>1, <1>5, <1>6, <2>1, <3>1, IsRTCOf, Zenon
  <2>3. QED
    BY <1>8, <2>2
<1>11. ~Acts(g)
  BY <1>1 DEF Acts
<1>12. n.control = ControlWith(r.control, g)
  BY <1>9, <1>11, Quiet
<1>13. ~Interrupts(r, n)
  BY <1>9 DEF Interrupts, d
<1>14. Len(Meaning(g).rest) = 0 /\ Arguments(Meaning(g)) = 8 * rtcArgCount(reg) /\ rtcArgCount(reg) \in 0 .. 7
  BY <1>1, RegistersAre DEF Arguments, reg
<1>15. Answered(n, g, AnswerOf(r, n, a))
  BY <1>14 DEF Answered
<1>16. Decoded(n, g, AnswerOf(r, n, a))
  <2>1. CASE rtcArgCount(reg) = 0
    <3>1. Finished(n, Meaning(g))
      BY <1>9, <2>1 DEF Finished, reg
    <3>2. QED
      BY <1>1, <1>14, <2>1, <3>1 DEF Decoded
  <2>2. CASE rtcArgCount(reg) # 0
    <3>1. n.state = "Sending" /\ AnswerOf(r, n, a) = f
      BY <1>2, <1>9, <2>2 DEF AnswerOf
    <3>2. At(n, Meaning(g))
      BY <1>9, <1>14 DEF At
    <3>3. \A j \in 0 .. rtcArgCount(reg) - 1 :
            /\ f[j] \in Nat
            /\ j = n.currentByte => n.buffer[j] = f[j] \div 2 ^ n.currentBit
            /\ j > n.currentByte => n.buffer[j] = f[j]
      <4>1. 2 ^ 0 = 1 /\ \A x \in Nat : x \div 1 = x
        OBVIOUS
      <4>2. QED
        BY <1>6, <1>9, <4>1
    <3>4. Telling(n, Meaning(g), f)
      BY <1>9, <3>1, <3>2, <3>3, Zenon DEF Telling, reg
    <3>5. QED
      BY <1>1, <1>14, <2>2, <3>1, <3>4 DEF Decoded
  <2>3. QED
    BY <2>1, <2>2
<1>17. Heeds(r, n, g, a)
  BY <1>9, <1>10, <1>11, <1>12, <1>13, <1>15, <1>16 DEF Heeds
<1>18. QED
  BY <1>17 DEF n, g

\* A command that sets a register, and is all there is if it has no bits
LEMMA Sets ==
  ASSUME NEW r, IsRTC(r), NEW h \in Heard, Commands(h) = {}, Waiting(r, h), NEW b \in {0, 1},
         Level(r.port, SIO) = b, Len(h) % 8 = 7, Lower(InOrder(Latched(r))) = CommandCode,
         InOrder(Latched(r))[7] = 0, NEW now \in Now, NEW a
  PROVE  Heeds(r, ReceiveCommandSIO(r, now), Append(h, b), a)
<1> DEFINE g == Append(h, b)
           d == InOrder(Latched(r))
           n == ReceiveCommandSIO(r, now)
           c == CommandOf(ReadSIO(r), d)
           reg == Meaning(g).reg
<1>1. /\ r.currentBit = 7 /\ ReadSIO(r).data = Latched(r) /\ d \in Bits8
      /\ Commands(g) # {} /\ Len(g) % 8 = 0 /\ reg \in 0 .. 7 /\ ~Meaning(g).asks /\ Meaning(g).rest = <<>>
      /\ c = RTCOf(0, 0, reg, d, r.buffer, r.port, "Command", r.control)
  <2>1. 0 # 1
    OBVIOUS
  <2>2. QED
    BY <2>1, TheCommand
<1>2. r.state = "Command" /\ d[7] = 0
  BY DEF Waiting
<1>3. n = IF rtcArgCount(c.reg) > 0 THEN [c EXCEPT !.state = "Receiving"] ELSE Written(c)
  BY <1>1, CommandCases DEF ByteRead
<1> HIDE DEF n, d, g, reg
<1>4. c.reg = reg
  BY <1>1, RTCFields
<1>5. IsBuffer(r.buffer) /\ r.port \in SUBSET All /\ 0 \in 0 .. 7 /\ 0 \in Nat
  BY DEF IsRTC
<1>6. Len(Meaning(g).rest) = 0 /\ Arguments(Meaning(g)) = 8 * rtcArgCount(reg) /\ rtcArgCount(reg) \in 0 .. 7
  BY <1>1, RegistersAre DEF Arguments, reg
<1>7. Answered(n, g, AnswerOf(r, n, a))
  BY <1>6 DEF Answered
<1>8. CASE rtcArgCount(reg) > 0
  <2>1. n = RTCOf(0, 0, reg, d, r.buffer, r.port, "Receiving", r.control)
    BY <1>1, <1>3, <1>4, <1>8, SetState
  <2>2. /\ n.currentBit = 0 /\ n.currentByte = 0 /\ n.reg = reg /\ n.port = r.port /\ n.state = "Receiving"
        /\ n.control = r.control
    BY <2>1, RTCFields
  <2>3. IsRTC(n)
    <3>1. "Receiving" \in {"Command", "Sending", "Receiving", "Complete"}
      OBVIOUS
    <3>2. IsRTC(RTCOf(0, 0, reg, d, r.buffer, r.port, "Receiving", r.control))
      BY <1>1, <1>5, <3>1, IsRTCOf, Zenon
    <3>3. QED
      BY <2>1, <3>2
  <2>4. ~Acts(g)
    BY <1>6, <1>8 DEF Acts
  <2>5. n.control = ControlWith(r.control, g)
    BY <2>2, <2>4, Quiet
  <2>6. ~Interrupts(r, n)
    BY <2>2 DEF Interrupts
  <2>7. Taking(n, Meaning(g))
    <3>1. At(n, Meaning(g))
      BY <1>6, <2>2 DEF At
    <3>2. \A i \in 0 .. n.currentBit - 1 : FALSE
      BY <2>2
    <3>3. QED
      BY <2>2, <3>1, <3>2 DEF Taking, reg
  <2>8. Decoded(n, g, AnswerOf(r, n, a))
    BY <1>1, <1>6, <1>8, <2>7 DEF Decoded
  <2>9. QED
    BY <1>7, <2>2, <2>3, <2>4, <2>5, <2>6, <2>8 DEF Heeds, n, g
<1>9. CASE ~(rtcArgCount(reg) > 0)
  <2> DEFINE control == ControlAfter(reg, r.buffer, r.control)
  <2>1. n = RTCOf(0, 0, reg, d, r.buffer, r.port, "Complete", control)
    BY <1>1, <1>3, <1>4, <1>9, WrittenIs
  <2>2. n.reg = reg /\ n.port = r.port /\ n.state = "Complete" /\ n.control = control /\ n.data = d
    <3> HIDE DEF control
    <3>1. QED
      BY <2>1, RTCFields
  <2>3. IsRTC(n)
    <3> HIDE DEF control
    <3>1. "Complete" \in {"Command", "Sending", "Receiving", "Complete"}
      OBVIOUS
    <3>2. IsRTC(RTCOf(0, 0, reg, d, r.buffer, r.port, "Complete", control))
      BY <1>1, <1>5, <3>1, IsRTCOf, Zenon
    <3>3. QED
      BY <2>1, <3>2
  <2>4. Acts(g)
    BY <1>1, <1>6, <1>9 DEF Acts
  <2>5. reg # ControlReg
    BY <1>9, RegistersAre
  <2>6. control = ControlWith(r.control, g)
    <3>1. Meaning(g).reg = reg
      BY DEF reg
    <3>2. CASE reg = ForceReset
      <4>1. control = NoControl
        BY <2>5, <3>2, Zenon DEF ControlAfter
      <4>2. ControlWith(r.control, g) = NoControl
        BY <2>4, <2>5, <3>1, <3>2, Zenon DEF ControlWith
      <4>3. QED
        BY <4>1, <4>2
    <3>3. CASE reg # ForceReset
      <4>1. control = r.control
        BY <2>5, <3>3, Zenon DEF ControlAfter
      <4>2. ControlWith(r.control, g) = r.control
        BY <2>5, <3>1, <3>3, Zenon DEF ControlWith
      <4>3. QED
        BY <4>1, <4>2
    <3>4. QED
      BY <3>2, <3>3
  <2> HIDE DEF control
  <2>7. Interrupts(r, n) <=> Acts(g) /\ Meaning(g).reg = ForceIRQ
    BY <1>2, <2>2, <2>4 DEF Interrupts, Raises, reg
  <2>8. Finished(n, Meaning(g))
    BY <2>2 DEF Finished, reg
  <2>9. Decoded(n, g, AnswerOf(r, n, a))
    BY <1>1, <1>6, <1>9, <2>8 DEF Decoded
  <2>10. QED
    BY <1>7, <2>2, <2>3, <2>6, <2>7, <2>9 DEF Heeds, n, g
<1>10. QED
  BY <1>8, <1>9

\* A bit heard while the clock waits for a command is heeded.
LEMMA CommandHeeds ==
  ASSUME NEW r, IsRTC(r), NEW h \in Heard, Commands(h) = {}, Waiting(r, h), NEW b \in {0, 1},
         Level(r.port, SIO) = b, NEW now \in Now, NEW a
  PROVE  Heeds(r, ReceiveCommandSIO(r, now), Append(h, b), a)
<1>1. r.currentBit = Len(h) % 8
  BY DEF Waiting
<1>2. CASE Len(h) % 8 # 7
  <2>1. Commands(Append(h, b)) = {}
    BY <1>2, MeaningBegins
  <2>2. ReceiveCommandSIO(r, now) = ReadSIO(r)
    BY <1>1, <1>2, CommandCases DEF ByteRead
  <2>3. QED
    BY <2>1, <2>2, NotACommand
<1>3. CASE Len(h) % 8 = 7
  <2>1. /\ r.currentBit = 7 /\ ReadSIO(r).data = Latched(r) /\ InOrder(Latched(r)) \in Bits8
        /\ Lower(InOrder(Latched(r))) # CommandCode => Commands(Append(h, b)) = {}
    BY <1>3, TheCommand
  <2>2. CASE Lower(InOrder(Latched(r))) # CommandCode
    <3>1. ReceiveCommandSIO(r, now) = ReadSIO(r)
      BY <2>1, <2>2, CommandCases DEF ByteRead
    <3>2. QED
      BY <2>1, <2>2, <3>1, NotACommand
  <2>3. CASE Lower(InOrder(Latched(r))) = CommandCode
    <3>1. InOrder(Latched(r))[7] \in {0, 1}
      BY <2>1 DEF Bits8
    <3>2. QED
      BY <1>3, <2>3, <3>1, AsksFor, Sets
  <2>4. QED
    BY <2>2, <2>3
<1>4. QED
  BY <1>2, <1>3

\* A byte of a register that is set
FullOf(r) ==
  RTCOf((r.currentBit + 1) % 8, r.currentByte + 1, r.reg, Latched(r),
        [r.buffer EXCEPT ![r.currentByte] = Byte(Latched(r))], r.port, r.state, r.control)

\* ReceiveBufferSIO, case by case.
LEMMA ReceiveCases ==
  ASSUME NEW r, IsRTC(r)
  PROVE  /\ ~ByteRead(r) => ReceiveBufferSIO(r) = ReadSIO(r)
         /\ ByteRead(r) => ReceiveBufferSIO(r) = IF r.currentByte + 1 = rtcArgCount(r.reg) THEN Written(FullOf(r))
                                                   ELSE FullOf(r)
<1> DEFINE n == ReadSIO(r)
           bit == (r.currentBit + 1) % 8
           data == Latched(r)
           byte == r.currentByte + 1
           buffer == [r.buffer EXCEPT ![r.currentByte] = Byte(data)]
           f == [n EXCEPT !.buffer[r.currentByte] = Byte(n.data), !.currentByte = @ + 1]
<1>1. n = RTCOf(bit, r.currentByte, r.reg, data, r.buffer, r.port, r.state, r.control)
  BY BitIsRead
<1> HIDE DEF bit, data, n
<1>2. n.buffer = r.buffer /\ n.data = data /\ n.currentByte = r.currentByte
  BY <1>1, RTCFields
<1>3. f = [[n EXCEPT !.buffer = [n.buffer EXCEPT ![r.currentByte] = Byte(n.data)]] EXCEPT !.currentByte = @ + 1]
  BY Zenon
<1>4. [n EXCEPT !.buffer = [n.buffer EXCEPT ![r.currentByte] = Byte(n.data)]] = [n EXCEPT !.buffer = buffer]
  BY <1>2
<1> HIDE DEF f
<1> DEFINE filled == [n EXCEPT !.buffer = buffer]
<1>5. f = [filled EXCEPT !.currentByte = filled.currentByte + 1]
  BY <1>3, <1>4, Zenon
<1>6. filled = RTCOf(bit, r.currentByte, r.reg, data, buffer, r.port, r.state, r.control)
  <2> HIDE DEF buffer
  <2>1. QED
    BY <1>1, SetBuffer
<1> HIDE DEF filled
<1>7. filled.currentByte = r.currentByte
  <2> HIDE DEF buffer
  <2>1. QED
    BY <1>6, RTCFields
<1>8. f = [filled EXCEPT !.currentByte = byte]
  BY <1>5, <1>7
<1>9. f = RTCOf(bit, byte, r.reg, data, buffer, r.port, r.state, r.control)
  <2> HIDE DEF buffer, byte
  <2>1. QED
    BY <1>6, <1>8, SetByte
<1>10. f = FullOf(r)
  BY <1>9 DEF FullOf, bit, data
<1>11. f.currentByte = byte
  <2> HIDE DEF buffer, byte
  <2>1. QED
    BY <1>9, RTCFields
<1>12. ReceiveBufferSIO(r) = CASE ~ByteRead(r) -> n
                               [] ByteRead(r) -> IF f.currentByte = rtcArgCount(r.reg) THEN Written(f) ELSE f
  BY Zenon DEF ReceiveBufferSIO, n, f
<1>13. ~ByteRead(r) => ReceiveBufferSIO(r) = n
  BY <1>12, Zenon
<1>14. ByteRead(r) => ReceiveBufferSIO(r) = IF f.currentByte = rtcArgCount(r.reg) THEN Written(f) ELSE f
  BY <1>12, Zenon
<1>15. QED
  BY <1>10, <1>11, <1>13, <1>14 DEF n

\* What another bit adds to a frame that is not yet whole
LEMMA RestGrows ==
  ASSUME NEW h \in Heard, NEW b \in {0, 1}, Commands(h) # {}
  PROVE  /\ Commands(Append(h, b)) # {} /\ Meaning(h).reg \in 0 .. 7 /\ Meaning(h).rest \in Heard
         /\ Meaning(Append(h, b)).reg = Meaning(h).reg
         /\ Meaning(Append(h, b)).asks = Meaning(h).asks
         /\ Meaning(Append(h, b)).rest = Append(Meaning(h).rest, b)
         /\ Arguments(Meaning(Append(h, b))) = 8 * rtcArgCount(Meaning(h).reg)
         /\ Arguments(Meaning(h)) = 8 * rtcArgCount(Meaning(h).reg)
         /\ rtcArgCount(Meaning(h).reg) \in 0 .. 7
         /\ Len(Append(Meaning(h).rest, b)) = Len(Meaning(h).rest) + 1 /\ Len(Meaning(h).rest) \in Nat
         /\ Len(Append(h, b)) % 8 = (Len(Meaning(h).rest) + 1) % 8
<1> DEFINE k == FirstCommand(h)
<1>1. Meaning(h).reg \in 0 .. 7 /\ Meaning(h).rest \in Heard /\ Meaning(h).rest = Rest(h, k)
  BY Meanings
<1>2. /\ Commands(Append(h, b)) # {}
      /\ Meaning(Append(h, b)).reg = Meaning(h).reg
      /\ Meaning(Append(h, b)).asks = Meaning(h).asks
      /\ Meaning(Append(h, b)).rest = Append(Meaning(h).rest, b)
  BY MeaningGrows
<1>3. Wholly(h, k) /\ k \in Nat
  BY Firsts
<1> HIDE DEF k
<1>4. Len(Rest(h, k)) = Len(h) - 8 * (k + 1)
  BY <1>3, Rests
<1>5. Len(Append(h, b)) = Len(h) + 1 /\ Len(h) \in Nat
  BY Appended
<1>6. Len(Append(Meaning(h).rest, b)) = Len(Meaning(h).rest) + 1 /\ Len(Meaning(h).rest) \in Nat
  BY <1>1, Appended
<1>7. Len(Append(h, b)) % 8 = (Len(Meaning(h).rest) + 1) % 8
  <2> DEFINE x == Len(Meaning(h).rest)
             y == Len(h)
  <2>1. x = y - 8 * (k + 1) /\ x \in Nat /\ y \in Nat /\ k \in Nat
    BY <1>1, <1>3, <1>4, <1>5, <1>6
  <2> HIDE DEF x, y
  <2>2. (y + 1) % 8 = (x + 1) % 8
    BY <2>1
  <2>3. QED
    BY <1>5, <2>2 DEF x, y
<1>8. rtcArgCount(Meaning(h).reg) \in 0 .. 7
  BY <1>1, RegistersAre
<1>9. QED
  BY <1>1, <1>2, <1>6, <1>7, <1>8 DEF Arguments

\* The bits of a byte, as the number that is written
LEMMA ByteIs ==
  ASSUME NEW d \in Bits8, NEW s \in Heard, Len(s) = 8, \A i \in 0 .. 7 : d[i] = s[i + 1]
  PROVE  Byte(d) = Number(SubSeq(s, 1, 8))
<1>1. SubSeq(s, 1, 8) = [i \in 1 .. 8 |-> s[i]]
  BY DEF Heard
<1>2. [k \in 1 .. 8 |-> d[k - 1]] = [i \in 1 .. 8 |-> s[i]]
  <2>1. \A i \in 1 .. 8 : d[i - 1] = s[i]
    <3> SUFFICES ASSUME NEW i \in 1 .. 8 PROVE d[i - 1] = s[i]
      OBVIOUS
    <3>1. i - 1 \in 0 .. 7 /\ (i - 1) + 1 = i
      OBVIOUS
    <3>2. QED
      BY <3>1
  <2>2. QED
    BY <2>1
<1>3. QED
  BY <1>1, <1>2 DEF Byte

\* A bit of what a register is set to is heeded; the last one acts.
LEMMA BufferHeeds ==
  ASSUME NEW r, IsRTC(r), NEW h \in Heard, Commands(h) # {}, ~Meaning(h).asks,
         Len(Meaning(h).rest) < Arguments(Meaning(h)), Taking(r, Meaning(h)), NEW b \in {0, 1},
         Level(r.port, SIO) = b, NEW a
  PROVE  Heeds(r, ReceiveBufferSIO(r), Append(h, b), a)
<1> DEFINE g == Append(h, b)
           n == ReceiveBufferSIO(r)
           s == Meaning(h).rest
           reg == Meaning(h).reg
           args == rtcArgCount(reg)
           k == Len(s) \div 8
<1>1. /\ Commands(g) # {} /\ reg \in 0 .. 7 /\ s \in Heard /\ Meaning(g).reg = reg /\ ~Meaning(g).asks
      /\ Meaning(g).rest = Append(s, b)
      /\ Arguments(Meaning(g)) = 8 * args /\ Arguments(Meaning(h)) = 8 * args
      /\ args \in 0 .. 7 /\ Len(Append(s, b)) = Len(s) + 1 /\ Len(s) \in Nat
      /\ Len(g) % 8 = (Len(s) + 1) % 8
  <2>1. /\ Commands(g) # {} /\ reg \in 0 .. 7 /\ s \in Heard /\ Meaning(g).reg = reg
        /\ Meaning(g).asks = Meaning(h).asks
        /\ Meaning(g).rest = Append(s, b)
        /\ Arguments(Meaning(g)) = 8 * args /\ Arguments(Meaning(h)) = 8 * args
        /\ args \in 0 .. 7 /\ Len(Append(s, b)) = Len(s) + 1 /\ Len(s) \in Nat
        /\ Len(g) % 8 = (Len(s) + 1) % 8
    <3>1. /\ Commands(Append(h, b)) # {} /\ Meaning(h).reg \in 0 .. 7 /\ Meaning(h).rest \in Heard
          /\ Meaning(Append(h, b)).reg = Meaning(h).reg
          /\ Meaning(Append(h, b)).asks = Meaning(h).asks
          /\ Meaning(Append(h, b)).rest = Append(Meaning(h).rest, b)
          /\ Arguments(Meaning(Append(h, b))) = 8 * rtcArgCount(Meaning(h).reg)
          /\ Arguments(Meaning(h)) = 8 * rtcArgCount(Meaning(h).reg)
          /\ rtcArgCount(Meaning(h).reg) \in 0 .. 7
          /\ Len(Append(Meaning(h).rest, b)) = Len(Meaning(h).rest) + 1 /\ Len(Meaning(h).rest) \in Nat
          /\ Len(Append(h, b)) % 8 = (Len(Meaning(h).rest) + 1) % 8
      BY RestGrows
    <3>2. QED
      BY <3>1 DEF g, s, reg, args
  <2> HIDE DEF g, s, reg, args
  <2>2. QED
    BY <2>1
<1>2. /\ r.state = "Receiving" /\ r.reg = reg /\ r.currentByte = k /\ r.currentBit = Len(s) % 8
      /\ \A i \in 0 .. r.currentBit - 1 : r.data[i] = s[8 * (Len(s) \div 8) + i + 1]
  BY DEF Taking, At
<1>3. Len(s) < 8 * args
  BY <1>1
<1>4. /\ Len(s) = 8 * k + r.currentBit /\ k \in Nat
      /\ \A i \in 0 .. r.currentBit : Latched(r)[i] = Append(s, b)[8 * k + i + 1]
  <2> HIDE DEF s
  <2>1. /\ Len(s) = 8 * (Len(s) \div 8) + r.currentBit /\ Len(s) \div 8 \in Nat
        /\ \A i \in 0 .. r.currentBit : Latched(r)[i] = Append(s, b)[8 * (Len(s) \div 8) + i + 1]
    BY <1>1, <1>2, ByteSoFar
  <2>2. QED
    BY <2>1
<1>5. /\ Latched(r) \in Bits8 /\ IsRTC(ReadSIO(r))
      /\ ReadSIO(r) = RTCOf((r.currentBit + 1) % 8, r.currentByte, r.reg, Latched(r), r.buffer, r.port, r.state,
                            r.control)
  BY BitIsRead
<1>6. /\ r.currentBit \in 0 .. 7 /\ IsBuffer(r.buffer) /\ r.port \in SUBSET All
  BY DEF IsRTC
<1> HIDE DEF g, n, s, reg, args, k
<1>7. ~(Acts(g) /\ Meaning(g).reg = ForceIRQ) /\ ~Interrupts(r, n)
  <2>1. reg # ForceIRQ
    BY <1>1, <1>3, RegistersAre DEF args
  <2>2. QED
    BY <1>1, <1>2, <2>1 DEF Interrupts
<1>8. Answered(n, g, AnswerOf(r, n, a))
  BY <1>1 DEF Answered
<1>9. CASE r.currentBit # 7
  <2>1. n = ReadSIO(r)
    BY <1>9, ReceiveCases DEF ByteRead, n
  <2>2. /\ n.currentBit = (r.currentBit + 1) % 8 /\ n.currentByte = k /\ n.reg = reg /\ n.data = Latched(r)
        /\ n.port = r.port /\ n.state = "Receiving" /\ n.control = r.control
    BY <1>2, <1>5, <2>1, RTCFields
  <2>3. (Len(s) + 1) \div 8 = k /\ (Len(s) + 1) % 8 = r.currentBit + 1 /\ (r.currentBit + 1) % 8 = r.currentBit + 1
        /\ Len(s) + 1 < 8 * args
    <3> DEFINE x == Len(s)
               m == r.currentBit
    <3>1. x = 8 * k + m /\ k \in Nat /\ m \in 0 .. 6 /\ x < 8 * args /\ args \in 0 .. 7
      BY <1>1, <1>3, <1>4, <1>6, <1>9
    <3> HIDE DEF x, m
    <3>2. (x + 1) \div 8 = k /\ (x + 1) % 8 = m + 1 /\ (m + 1) % 8 = m + 1 /\ x + 1 < 8 * args
      BY <3>1
    <3>3. QED
      BY <3>2 DEF x, m
  <2>4. ~Acts(g)
    BY <1>1, <2>3 DEF Acts
  <2>5. n.control = ControlWith(r.control, g)
    BY <2>2, <2>4, Quiet
  <2>6. Taking(n, Meaning(g))
    <3>1. At(n, Meaning(g))
      BY <1>1, <2>2, <2>3 DEF At
    <3>2. \A i \in 0 .. n.currentBit - 1 : i \in 0 .. r.currentBit
      BY <1>6, <2>2, <2>3
    <3>3. \A i \in 0 .. n.currentBit - 1 : n.data[i] = Append(s, b)[8 * ((Len(s) + 1) \div 8) + i + 1]
      BY <1>4, <2>2, <2>3, <3>2
    <3>4. QED
      BY <1>1, <2>2, <3>1, <3>3 DEF Taking
  <2>7. Decoded(n, g, AnswerOf(r, n, a))
    BY <1>1, <2>3, <2>6 DEF Decoded
  <2>8. QED
    BY <1>5, <1>7, <1>8, <2>1, <2>2, <2>5, <2>7 DEF Heeds, n, g
<1>10. CASE r.currentBit = 7
  <2> DEFINE f == FullOf(r)
             buffer == [r.buffer EXCEPT ![r.currentByte] = Byte(Latched(r))]
  <2>1. n = IF k + 1 = args THEN Written(f) ELSE f
    BY <1>2, <1>10, ReceiveCases DEF ByteRead, n, args
  <2>2. f = RTCOf(0, k + 1, reg, Latched(r), buffer, r.port, "Receiving", r.control)
    <3>1. (7 + 1) % 8 = 0
      OBVIOUS
    <3>2. (r.currentBit + 1) % 8 = 0
      BY <1>10, <3>1
    <3> HIDE DEF f, buffer
    <3>3. QED
      BY <1>2, <3>2 DEF FullOf, f, buffer
  <2>3. IsBuffer(buffer) /\ k + 1 \in Nat /\ 0 \in 0 .. 7
    <3>1. IsBuffer(buffer)
      BY <1>6 DEF IsBuffer
    <3>2. QED
      BY <1>4, <3>1
  <2>4. (Len(s) + 1) \div 8 = k + 1 /\ (Len(s) + 1) % 8 = 0 /\ Len(s) + 1 = 8 * (k + 1)
    <3> DEFINE x == Len(s)
    <3>1. x = 8 * k + 7 /\ k \in Nat
      BY <1>4, <1>10
    <3> HIDE DEF x
    <3>2. (x + 1) \div 8 = k + 1 /\ (x + 1) % 8 = 0 /\ x + 1 = 8 * (k + 1)
      BY <3>1
    <3>3. QED
      BY <3>2 DEF x
  <2>5. CASE k + 1 # args
    <3>1. n = RTCOf(0, k + 1, reg, Latched(r), buffer, r.port, "Receiving", r.control)
      BY <2>1, <2>2, <2>5
    <3> HIDE DEF buffer
    <3>2. /\ n.currentBit = 0 /\ n.currentByte = k + 1 /\ n.reg = reg /\ n.port = r.port /\ n.state = "Receiving"
          /\ n.control = r.control
      BY <3>1, RTCFields
    <3>3. IsRTC(n)
      <4>1. "Receiving" \in {"Command", "Sending", "Receiving", "Complete"}
        OBVIOUS
      <4>2. IsRTC(RTCOf(0, k + 1, reg, Latched(r), buffer, r.port, "Receiving", r.control))
        BY <1>1, <1>5, <1>6, <2>3, <4>1, IsRTCOf, Zenon
      <4>3. QED
        BY <3>1, <4>2
    <3>4. Len(s) + 1 < 8 * args
      <4> DEFINE x == Len(s)
      <4>1. x + 1 = 8 * (k + 1) /\ x < 8 * args /\ k \in Nat /\ args \in 0 .. 7 /\ x \in Nat
        BY <1>1, <1>3, <1>4, <2>4
      <4> HIDE DEF x
      <4>2. x + 1 < 8 * args
        BY <2>5, <4>1
      <4>3. QED
        BY <4>2 DEF x
    <3>5. ~Acts(g)
      BY <1>1, <3>4 DEF Acts
    <3>6. n.control = ControlWith(r.control, g)
      BY <3>2, <3>5, Quiet
    <3>7. Taking(n, Meaning(g))
      <4>1. At(n, Meaning(g))
        BY <1>1, <2>4, <3>2 DEF At
      <4>2. \A i \in 0 .. n.currentBit - 1 : FALSE
        BY <3>2
      <4>3. QED
        BY <1>1, <3>2, <4>1, <4>2 DEF Taking
    <3>8. Decoded(n, g, AnswerOf(r, n, a))
      BY <1>1, <3>4, <3>7 DEF Decoded
    <3>9. QED
      BY <1>7, <1>8, <3>2, <3>3, <3>6, <3>8 DEF Heeds, n, g
  <2>6. CASE k + 1 = args
    <3> DEFINE control == ControlAfter(reg, buffer, r.control)
    <3>1. n = RTCOf(0, k + 1, reg, Latched(r), buffer, r.port, "Complete", control)
      <4> HIDE DEF buffer, f
      <4>1. QED
        BY <2>1, <2>2, <2>6, WrittenIs
    <3>2. n.reg = reg /\ n.port = r.port /\ n.state = "Complete" /\ n.control = control
      <4> HIDE DEF buffer, control
      <4>1. QED
        BY <3>1, RTCFields
    <3>3. IsRTC(n)
      <4> HIDE DEF buffer, control
      <4>1. "Complete" \in {"Command", "Sending", "Receiving", "Complete"}
        OBVIOUS
      <4>2. IsRTC(RTCOf(0, k + 1, reg, Latched(r), buffer, r.port, "Complete", control))
        BY <1>1, <1>5, <1>6, <2>3, <4>1, IsRTCOf, Zenon
      <4>3. QED
        BY <3>1, <4>2
    <3>4. Acts(g)
      BY <1>1, <2>4, <2>6 DEF Acts
    <3>5. control = ControlWith(r.control, g)
      <4> HIDE DEF buffer
      <4>1. reg # ForceReset
        BY <1>1, <1>3, RegistersAre DEF args
      <4>2. CASE reg = ControlReg
        <5>1. args = 1
          BY <4>2, RegistersAre DEF args
        <5>2. k = 0 /\ Len(Append(s, b)) = 8
          BY <1>1, <1>4, <2>4, <2>6, <5>1
        <5>3. buffer[0] = Byte(Latched(r))
          BY <1>2, <1>6, <5>2 DEF buffer, IsBuffer
        <5>4. Append(s, b) \in Heard
          BY <1>1, Appended
        <5>5. \A i \in 0 .. 7 : Latched(r)[i] = Append(s, b)[i + 1]
          <6> SUFFICES ASSUME NEW i \in 0 .. 7 PROVE Latched(r)[i] = Append(s, b)[i + 1]
            OBVIOUS
          <6>1. 8 * k + i + 1 = i + 1
            BY <5>2
          <6>2. QED
            BY <1>4, <1>10, <6>1
        <5>6. Byte(Latched(r)) = Number(SubSeq(Append(s, b), 1, 8))
          BY <1>5, <5>2, <5>4, <5>5, ByteIs
        <5>7. control = ControlOf(r.control, buffer[0])
          <6>1. ControlReg # ForceReset
            BY DEF ControlReg, ForceReset
          <6>2. QED
            BY <4>2, <6>1, Zenon DEF ControlAfter
        <5>8. ControlWith(r.control, g) = ControlOf(r.control, Number(SubSeq(Append(s, b), 1, 8)))
          <6>1. Meaning(g).reg = ControlReg
            BY <1>1, <4>2
          <6>2. ControlWith(r.control, g) = ControlOf(r.control, Number(SubSeq(Meaning(g).rest, 1, 8)))
            <7>1. ControlReg # ForceReset
              BY DEF ControlReg, ForceReset
            <7>2. QED
              BY <3>4, <6>1, <7>1, Zenon DEF ControlWith
          <6>3. QED
            BY <1>1, <6>2
        <5> HIDE DEF control
        <5>9. QED
          BY <5>3, <5>6, <5>7, <5>8
      <4>3. CASE reg # ControlReg
        <5>1. control = r.control
          BY <4>1, <4>3, Zenon DEF ControlAfter
        <5>2. ControlWith(r.control, g) = r.control
          <6>1. Meaning(g).reg = reg
            BY <1>1
          <6>2. QED
            BY <4>1, <4>3, <6>1, Zenon DEF ControlWith
        <5>3. QED
          BY <5>1, <5>2
      <4>4. QED
        BY <4>2, <4>3
    <3> HIDE DEF control
    <3>6. Finished(n, Meaning(g))
      BY <1>1, <3>2 DEF Finished
    <3>7. Decoded(n, g, AnswerOf(r, n, a))
      BY <1>1, <2>4, <2>6, <3>6 DEF Decoded
    <3>8. QED
      BY <1>7, <1>8, <3>2, <3>3, <3>5, <3>7 DEF Heeds, n, g
  <2>7. QED
    BY <2>5, <2>6
<1>11. QED
  BY <1>6, <1>9, <1>10

\* Halving once more.
LEMMA Halves ==
  ASSUME NEW x \in Nat, NEW m \in 0 .. 6
  PROVE  (x \div 2 ^ m) \div 2 = x \div 2 ^ (m + 1) /\ x \div 2 ^ m \in Nat /\ x \div 2 ^ 0 = x
<1>1. 2 ^ 0 = 1 /\ 2 ^ 1 = 2 /\ 2 ^ 2 = 4 /\ 2 ^ 3 = 8 /\ 2 ^ 4 = 16 /\ 2 ^ 5 = 32 /\ 2 ^ 6 = 64 /\ 2 ^ 7 = 128
  OBVIOUS
<1>2. x \div 1 = x /\ x \div 1 \in Nat /\ (x \div 1) \div 2 = x \div 2
  OBVIOUS
<1>3. x \div 2 \in Nat /\ (x \div 2) \div 2 = x \div 4
  OBVIOUS
<1>4. x \div 4 \in Nat /\ (x \div 4) \div 2 = x \div 8
  OBVIOUS
<1>5. x \div 8 \in Nat /\ (x \div 8) \div 2 = x \div 16
  OBVIOUS
<1>6. x \div 16 \in Nat /\ (x \div 16) \div 2 = x \div 32
  OBVIOUS
<1>7. x \div 32 \in Nat /\ (x \div 32) \div 2 = x \div 64
  OBVIOUS
<1>8. x \div 64 \in Nat /\ (x \div 64) \div 2 = x \div 128
  OBVIOUS
<1>9. m = 0 \/ m = 1 \/ m = 2 \/ m = 3 \/ m = 4 \/ m = 5 \/ m = 6
  OBVIOUS
<1>10. CASE m = 0
  BY <1>1, <1>2, <1>2, <1>10
<1>11. CASE m = 1
  BY <1>1, <1>2, <1>3, <1>11
<1>12. CASE m = 2
  BY <1>1, <1>2, <1>4, <1>12
<1>13. CASE m = 3
  BY <1>1, <1>2, <1>5, <1>13
<1>14. CASE m = 4
  BY <1>1, <1>2, <1>6, <1>14
<1>15. CASE m = 5
  BY <1>1, <1>2, <1>7, <1>15
<1>16. CASE m = 6
  BY <1>1, <1>2, <1>8, <1>16
<1>17. QED
  BY <1>9, <1>10, <1>11, <1>12, <1>13, <1>14, <1>15, <1>16

\* A bit of a register that is asked for
SentPort(r) == IF r.buffer[r.currentByte] % 2 = 1 THEN r.port \cup {SIO} ELSE r.port \ {SIO}
SentBuffer(r) == [r.buffer EXCEPT ![r.currentByte] = r.buffer[r.currentByte] \div 2]

\* TransmitBufferSIO, field by field.
LEMMA TransmitIs ==
  ASSUME NEW r, IsRTC(r)
  PROVE  /\ r.currentBit < 7 =>
              TransmitBufferSIO(r) =
                RTCOf((r.currentBit + 1) % 8, r.currentByte, r.reg, r.data, SentBuffer(r), SentPort(r), r.state, r.control)
         /\ r.currentBit = 7 =>
              TransmitBufferSIO(r) =
                RTCOf((r.currentBit + 1) % 8, r.currentByte + 1, r.reg, r.data, SentBuffer(r), SentPort(r),
                      IF r.currentByte + 1 = rtcArgCount(r.reg) THEN "Complete" ELSE r.state, r.control)
<1> DEFINE bit == (r.currentBit + 1) % 8
           byte == r.buffer[r.currentByte]
           P == SentPort(r)
           B == SentBuffer(r)
           s1 == [r EXCEPT !.port = P]
           s2 == [s1 EXCEPT !.buffer = B]
           s3 == [s2 EXCEPT !.currentBit = bit]
           sent == [r EXCEPT !.port = IF byte % 2 = 1 THEN @ \cup {SIO} ELSE @ \ {SIO},
                             !.buffer[r.currentByte] = byte \div 2, !.currentBit = (@ + 1) % 8]
<1>1. r = RTCOf(r.currentBit, r.currentByte, r.reg, r.data, r.buffer, r.port, r.state, r.control)
  BY DEF IsRTC
<1>2. sent = [[[r EXCEPT !.port = IF byte % 2 = 1 THEN r.port \cup {SIO} ELSE r.port \ {SIO}]
                 EXCEPT !.buffer[r.currentByte] = byte \div 2] EXCEPT !.currentBit = (@ + 1) % 8]
  BY Zenon
<1> HIDE DEF sent
<1>3. sent = [[s1 EXCEPT !.buffer[r.currentByte] = byte \div 2] EXCEPT !.currentBit = (@ + 1) % 8]
  BY <1>2 DEF SentPort
<1> HIDE DEF P
<1>4. s1 = RTCOf(r.currentBit, r.currentByte, r.reg, r.data, r.buffer, P, r.state, r.control)
  BY <1>1, SetPort
<1>5. s1.buffer = r.buffer
  <2> HIDE DEF s1
  <2>1. QED
    BY <1>4, RTCFields
<1> HIDE DEF s1
<1>6. [s1 EXCEPT !.buffer[r.currentByte] = byte \div 2] =
        [s1 EXCEPT !.buffer = [s1.buffer EXCEPT ![r.currentByte] = byte \div 2]]
  BY Zenon
<1>7. [s1 EXCEPT !.buffer[r.currentByte] = byte \div 2] = s2
  BY <1>5, <1>6 DEF SentBuffer
<1> HIDE DEF B
<1>8. s2 = RTCOf(r.currentBit, r.currentByte, r.reg, r.data, B, P, r.state, r.control)
  BY <1>4, SetBuffer
<1> HIDE DEF s2
<1>9. s2.currentBit = r.currentBit
  BY <1>8, RTCFields
<1>10. sent = [s2 EXCEPT !.currentBit = (s2.currentBit + 1) % 8]
  BY <1>3, <1>7, Zenon
<1>11. sent = s3
  BY <1>9, <1>10
<1>12. sent = RTCOf(bit, r.currentByte, r.reg, r.data, B, P, r.state, r.control)
  <2> HIDE DEF bit
  <2>1. QED
    BY <1>8, <1>11, SetBit
<1> HIDE DEF bit
<1>13. sent.currentByte = r.currentByte /\ sent.state = r.state
  BY <1>12, RTCFields
<1>14. TransmitBufferSIO(r) =
         CASE r.currentBit < 7 -> sent
           [] r.currentBit = 7 ->
                [sent EXCEPT !.currentByte = @ + 1,
                             !.state = IF r.currentByte + 1 = rtcArgCount(r.reg) THEN "Complete" ELSE @]
  BY Zenon DEF TransmitBufferSIO, sent
<1>15. r.currentBit < 7 => TransmitBufferSIO(r) = sent
  <2>1. r.currentBit < 7 => r.currentBit # 7
    OBVIOUS
  <2>2. QED
    BY <1>14, <2>1, Zenon
<1>16. r.currentBit = 7 =>
         TransmitBufferSIO(r) =
           [[sent EXCEPT !.currentByte = sent.currentByte + 1]
              EXCEPT !.state = IF r.currentByte + 1 = rtcArgCount(r.reg) THEN "Complete" ELSE @]
  <2>1. r.currentBit = 7 => ~(r.currentBit < 7)
    OBVIOUS
  <2>2. QED
    BY <1>14, <2>1, Zenon
<1> DEFINE t1 == [sent EXCEPT !.currentByte = r.currentByte + 1]
           state == IF r.currentByte + 1 = rtcArgCount(r.reg) THEN "Complete" ELSE r.state
<1>17. t1 = RTCOf(bit, r.currentByte + 1, r.reg, r.data, B, P, r.state, r.control)
  BY <1>12, SetByte
<1>18. t1.state = r.state
  <2> HIDE DEF t1
  <2>1. QED
    BY <1>17, RTCFields
<1>19. [t1 EXCEPT !.state = IF r.currentByte + 1 = rtcArgCount(r.reg) THEN "Complete" ELSE @] =
         [t1 EXCEPT !.state = state]
  BY <1>18
<1>20. [t1 EXCEPT !.state = state] = RTCOf(bit, r.currentByte + 1, r.reg, r.data, B, P, state, r.control)
  <2> HIDE DEF t1, state
  <2>1. QED
    BY <1>17, SetState
<1>21. r.currentBit = 7 => TransmitBufferSIO(r) = RTCOf(bit, r.currentByte + 1, r.reg, r.data, B, P, state, r.control)
  BY <1>13, <1>16, <1>19, <1>20
<1>22. QED
  BY <1>12, <1>15, <1>21 DEF bit, B, P

\* The line has the lowest bit of the byte that is sent.
LEMMA SentLevels ==
  ASSUME NEW r, r.port \in SUBSET All
  PROVE  /\ SentPort(r) \in SUBSET All /\ \A l \in {SCK, CS} : l \in SentPort(r) <=> l \in r.port
         /\ r.buffer[r.currentByte] \in Nat => Level(SentPort(r), SIO) = r.buffer[r.currentByte] % 2
<1>1. SCK # SIO /\ CS # SIO /\ SIO \in All
  BY DEF SCK, SIO, CS, All
<1>2. SentPort(r) \in SUBSET All /\ \A l \in {SCK, CS} : l \in SentPort(r) <=> l \in r.port
  BY <1>1 DEF SentPort
<1>3. r.buffer[r.currentByte] \in Nat => r.buffer[r.currentByte] % 2 \in {0, 1}
  OBVIOUS
<1>4. r.buffer[r.currentByte] \in Nat => Level(SentPort(r), SIO) = r.buffer[r.currentByte] % 2
  BY <1>3 DEF SentPort, Level
<1>5. QED
  BY <1>2, <1>4

\* The place of the next bit
LEMMA OneMore ==
  ASSUME NEW k \in Nat, NEW m \in 0 .. 7, NEW x \in Nat, x = 8 * k + m
  PROVE  /\ m < 7 => (x + 1) \div 8 = k /\ (x + 1) % 8 = m + 1 /\ (m + 1) % 8 = m + 1 /\ m \in 0 .. 6
         /\ m = 7 => (x + 1) \div 8 = k + 1 /\ (x + 1) % 8 = 0 /\ (m + 1) % 8 = 0 /\ x + 1 = 8 * (k + 1)
OBVIOUS

\* A bit of an answer is the right one.
LEMMA TransmitHeeds ==
  ASSUME NEW r, IsRTC(r), NEW h \in Heard, Commands(h) # {}, Meaning(h).asks,
         Len(Meaning(h).rest) < Arguments(Meaning(h)), NEW a, Telling(r, Meaning(h), a), NEW b \in {0, 1}
  PROVE  Heeds(r, TransmitBufferSIO(r), Append(h, b), a)
<1> DEFINE g == Append(h, b)
           n == TransmitBufferSIO(r)
           s == Meaning(h).rest
           reg == Meaning(h).reg
           args == rtcArgCount(reg)
           k == r.currentByte
           m == r.currentBit
           x == Len(s)
<1>1. /\ Commands(g) # {} /\ reg \in 0 .. 7 /\ s \in Heard /\ Meaning(g).reg = reg /\ Meaning(g).asks
      /\ Meaning(g).rest = Append(s, b)
      /\ Arguments(Meaning(g)) = 8 * args /\ Arguments(Meaning(h)) = 8 * args
      /\ args \in 0 .. 7 /\ Len(Append(s, b)) = x + 1 /\ x \in Nat
  <2>1. /\ Commands(g) # {} /\ reg \in 0 .. 7 /\ s \in Heard /\ Meaning(g).reg = reg
        /\ Meaning(g).asks = Meaning(h).asks
        /\ Meaning(g).rest = Append(s, b)
        /\ Arguments(Meaning(g)) = 8 * args /\ Arguments(Meaning(h)) = 8 * args
        /\ args \in 0 .. 7 /\ Len(Append(s, b)) = x + 1 /\ x \in Nat
    BY RestGrows
  <2> HIDE DEF g, s, reg, args, x
  <2>2. QED
    BY <2>1
<1>2. r.state = "Sending" /\ r.reg = reg /\ k = x \div 8 /\ m = x % 8 /\ x < 8 * args
  BY <1>1 DEF Telling, At
<1>3. \A j \in 0 .. args - 1 :
        /\ a[j] \in Nat
        /\ j = k => r.buffer[j] = a[j] \div 2 ^ m
        /\ j > k => r.buffer[j] = a[j]
  BY DEF Telling
<1>4. /\ m \in 0 .. 7 /\ k \in Nat /\ r.reg \in 0 .. 7 /\ r.data \in Bits8 /\ IsBuffer(r.buffer)
      /\ r.port \in SUBSET All
  BY DEF IsRTC
<1>5. m = 7 => n = RTCOf((m + 1) % 8, k + 1, r.reg, r.data, SentBuffer(r), SentPort(r),
                         IF k + 1 = args THEN "Complete" ELSE r.state, r.control)
  BY <1>2, TransmitIs
<1>6. m < 7 => n = RTCOf((m + 1) % 8, k, r.reg, r.data, SentBuffer(r), SentPort(r), r.state, r.control)
  BY TransmitIs
<1> HIDE DEF g, n, s, reg, args, x, m
<1>7. k \in 0 .. args - 1 /\ k \in 0 .. 6 /\ x = 8 * k + m
  <2> HIDE DEF k
  <2>1. QED
    BY <1>1, <1>2, <1>4
<1>8. a[k] \in Nat /\ r.buffer[k] = a[k] \div 2 ^ m /\ r.buffer[k] \in Nat
  <2>1. a[k] \in Nat /\ r.buffer[k] = a[k] \div 2 ^ m
    BY <1>3, <1>7
  <2>2. a[k] \div 2 ^ m \in Nat
    <3>1. CASE m \in 0 .. 6
      BY <2>1, <3>1, Halves
    <3>2. CASE m = 7
      <4>1. 2 ^ 7 = 128 /\ a[k] \div 128 \in Nat
        BY <2>1
      <4>2. QED
        BY <3>2, <4>1
    <3>3. QED
      BY <1>4, <3>1, <3>2
  <2>3. QED
    BY <2>1, <2>2
<1>9. /\ IsBuffer(SentBuffer(r)) /\ SentBuffer(r)[k] = r.buffer[k] \div 2
      /\ \A j \in 0 .. 6 : j # k => SentBuffer(r)[j] = r.buffer[j]
  BY <1>4, <1>7 DEF IsBuffer, SentBuffer
<1>10. /\ SentPort(r) \in SUBSET All /\ \A l \in {SCK, CS} : l \in SentPort(r) <=> l \in r.port
       /\ Level(SentPort(r), SIO) = r.buffer[k] % 2
  BY <1>4, <1>8, SentLevels
<1>11. (m + 1) % 8 \in 0 .. 7
  BY <1>4
<1>12. ~Acts(g)
  BY <1>1 DEF Acts
<1>13. ~Interrupts(r, n)
  BY <1>2 DEF Interrupts
<1>14. AnswerOf(r, n, a) = a
  BY <1>2 DEF AnswerOf
<1>15. n.port = SentPort(r) /\ n.control = r.control /\ IsRTC(n)
  <2>1. CASE m < 7
    <3>1. r.state \in {"Command", "Sending", "Receiving", "Complete"}
      BY <1>2
    <3>2. IsRTC(RTCOf((m + 1) % 8, k, r.reg, r.data, SentBuffer(r), SentPort(r), r.state, r.control))
      BY <1>4, <1>9, <1>10, <1>11, <3>1, IsRTCOf, Zenon
    <3>3. n.port = SentPort(r) /\ n.control = r.control
      BY <1>6, <2>1, RTCFields
    <3>4. QED
      BY <1>6, <2>1, <3>2, <3>3
  <2>2. CASE m = 7
    <3> DEFINE state == IF k + 1 = args THEN "Complete" ELSE r.state
    <3>1. state \in {"Command", "Sending", "Receiving", "Complete"}
      BY <1>2
    <3> HIDE DEF state
    <3>2. k + 1 \in Nat
      BY <1>4
    <3>3. IsRTC(RTCOf((m + 1) % 8, k + 1, r.reg, r.data, SentBuffer(r), SentPort(r), state, r.control))
      BY <1>4, <1>9, <1>10, <1>11, <3>1, <3>2, IsRTCOf, Zenon
    <3>4. n = RTCOf((m + 1) % 8, k + 1, r.reg, r.data, SentBuffer(r), SentPort(r), state, r.control)
      BY <1>5, <2>2 DEF state
    <3>5. n.port = SentPort(r) /\ n.control = r.control
      BY <3>4, RTCFields
    <3>6. QED
      BY <3>3, <3>4, <3>5
  <2>3. QED
    BY <1>4, <2>1, <2>2
<1>16. n.control = ControlWith(r.control, g)
  BY <1>12, <1>15, Quiet
<1>17. Answered(n, g, a)
  <2>1. (x + 1) - 1 = x /\ x \div 8 = k /\ x % 8 = m
    BY <1>1, <1>2
  <2>2. Level(n.port, SIO) = BitOf(a[k], m)
    BY <1>8, <1>10, <1>15 DEF BitOf
  <2>3. QED
    BY <1>1, <2>1, <2>2 DEF Answered
<1>18. Decoded(n, g, a)
  <2>1. CASE m < 7
    <3>1. n.currentBit = (m + 1) % 8 /\ n.currentByte = k /\ n.reg = reg /\ n.state = "Sending"
          /\ n.buffer = SentBuffer(r)
      BY <1>2, <1>6, <2>1, RTCFields
    <3>2. (x + 1) \div 8 = k /\ (x + 1) % 8 = m + 1 /\ (m + 1) % 8 = m + 1 /\ x + 1 < 8 * args /\ m \in 0 .. 6
      <4>1. x \in Nat /\ k \in Nat /\ m \in 0 .. 7 /\ x = 8 * k + m
        BY <1>1, <1>4, <1>7
      <4> HIDE DEF k
      <4>2. (x + 1) \div 8 = k /\ (x + 1) % 8 = m + 1 /\ (m + 1) % 8 = m + 1 /\ m \in 0 .. 6
        BY <2>1, <4>1, OneMore
      <4>3. x + 1 < 8 * args
        BY <1>1, <1>7, <2>1, <4>1
      <4>4. QED
        BY <4>2, <4>3
    <3>3. At(n, Meaning(g))
      BY <1>1, <3>1, <3>2 DEF At
    <3>4. \A j \in 0 .. args - 1 :
            /\ a[j] \in Nat
            /\ j = n.currentByte => n.buffer[j] = a[j] \div 2 ^ n.currentBit
            /\ j > n.currentByte => n.buffer[j] = a[j]
      <4> SUFFICES ASSUME NEW j \in 0 .. args - 1
                   PROVE  /\ a[j] \in Nat
                          /\ j = k => SentBuffer(r)[j] = a[j] \div 2 ^ (m + 1)
                          /\ j > k => SentBuffer(r)[j] = a[j]
        BY <3>1, <3>2
      <4>1. a[j] \in Nat /\ j \in 0 .. 6
        BY <1>1, <1>3
      <4>2. SentBuffer(r)[k] = a[k] \div 2 ^ (m + 1)
        <5>1. (a[k] \div 2 ^ m) \div 2 = a[k] \div 2 ^ (m + 1)
          BY <1>8, <3>2, Halves
        <5>2. QED
          BY <1>8, <1>9, <5>1
      <4>3. ASSUME j > k PROVE SentBuffer(r)[j] = a[j]
        <5>1. j # k /\ r.buffer[j] = a[j]
          BY <1>3, <1>4, <4>1, <4>3
        <5>2. QED
          BY <1>9, <4>1, <5>1
      <4>4. QED
        BY <4>1, <4>2, <4>3
    <3>5. Telling(n, Meaning(g), a)
      BY <1>1, <3>1, <3>3, <3>4, Zenon DEF Telling, args
    <3>6. QED
      BY <1>1, <3>2, <3>5 DEF Decoded
  <2>2. CASE m = 7
    <3> DEFINE state == IF k + 1 = args THEN "Complete" ELSE "Sending"
    <3>1. n = RTCOf((m + 1) % 8, k + 1, reg, r.data, SentBuffer(r), SentPort(r), state, r.control)
      BY <1>2, <1>5, <2>2
    <3>2. n.currentBit = (m + 1) % 8 /\ n.currentByte = k + 1 /\ n.reg = reg /\ n.state = state
          /\ n.buffer = SentBuffer(r)
      <4> HIDE DEF state
      <4>1. QED
        BY <3>1, RTCFields
    <3>3. (x + 1) \div 8 = k + 1 /\ (x + 1) % 8 = 0 /\ (m + 1) % 8 = 0 /\ x + 1 = 8 * (k + 1)
      <4>1. x \in Nat /\ k \in Nat /\ m \in 0 .. 7 /\ x = 8 * k + m
        BY <1>1, <1>4, <1>7
      <4> HIDE DEF k
      <4>2. QED
        BY <2>2, <4>1, OneMore
    <3>4. CASE k + 1 = args
      <4>1. Finished(n, Meaning(g))
        BY <1>1, <3>2, <3>4 DEF Finished
      <4>2. QED
        BY <1>1, <3>3, <3>4, <4>1 DEF Decoded
    <3>5. CASE k + 1 # args
      <4>1. x + 1 < 8 * args /\ k + 1 \in 0 .. args - 1
        <5> HIDE DEF k
        <5>1. QED
          BY <1>1, <1>7, <3>3, <3>5
      <4>2. At(n, Meaning(g))
        BY <1>1, <3>2, <3>3 DEF At
      <4>3. \A j \in 0 .. args - 1 :
              /\ a[j] \in Nat
              /\ j = n.currentByte => n.buffer[j] = a[j] \div 2 ^ n.currentBit
              /\ j > n.currentByte => n.buffer[j] = a[j]
        <5> SUFFICES ASSUME NEW j \in 0 .. args - 1
                     PROVE  /\ a[j] \in Nat
                            /\ j = k + 1 => SentBuffer(r)[j] = a[j] \div 2 ^ 0
                            /\ j > k + 1 => SentBuffer(r)[j] = a[j]
          BY <3>2, <3>3
        <5>1. a[j] \in Nat /\ j \in 0 .. 6
          BY <1>1, <1>3
        <5>2. ASSUME j > k PROVE SentBuffer(r)[j] = a[j]
          <6>1. j # k /\ r.buffer[j] = a[j]
            BY <1>3, <1>4, <5>1, <5>2
          <6>2. QED
            BY <1>9, <5>1, <6>1
        <5>3. a[j] \div 2 ^ 0 = a[j]
          BY <5>1, Halves
        <5>4. j >= k + 1 => j > k
          BY <1>4, <5>1
        <5>5. QED
          BY <1>4, <5>1, <5>2, <5>3, <5>4
      <4>4. Telling(n, Meaning(g), a)
        BY <1>1, <3>2, <3>5, <4>2, <4>3, Zenon DEF Telling, args
      <4>5. QED
        BY <1>1, <4>1, <3>3, <4>4 DEF Decoded
    <3>6. QED
      BY <3>4, <3>5
  <2>3. QED
    BY <1>4, <2>1, <2>2
<1>19. Heeds(r, n, g, a)
  BY <1>10, <1>12, <1>13, <1>14, <1>15, <1>16, <1>17, <1>18 DEF Heeds
<1>20. QED
  BY <1>19 DEF n, g

\* What has been said wholly is not gone on with.
LEMMA CompleteHeeds ==
  ASSUME NEW r, IsRTC(r), NEW h \in Heard, Commands(h) # {},
         Len(Meaning(h).rest) >= Arguments(Meaning(h)), Finished(r, Meaning(h)), NEW b \in {0, 1}, NEW a
  PROVE  Heeds(r, r, Append(h, b), a)
<1> DEFINE g == Append(h, b)
           s == Meaning(h).rest
           reg == Meaning(h).reg
           args == rtcArgCount(reg)
<1>1. /\ Commands(g) # {} /\ Meaning(g).reg = reg
      /\ Len(Meaning(g).rest) = Len(s) + 1
      /\ Arguments(Meaning(g)) = 8 * args /\ Arguments(Meaning(h)) = 8 * args
      /\ args \in 0 .. 7 /\ Len(s) \in Nat
  <2>1. /\ Commands(g) # {} /\ Meaning(g).reg = reg /\ Meaning(g).rest = Append(s, b)
        /\ Arguments(Meaning(g)) = 8 * args /\ Arguments(Meaning(h)) = 8 * args
        /\ args \in 0 .. 7 /\ Len(Append(s, b)) = Len(s) + 1 /\ Len(s) \in Nat
    BY RestGrows
  <2> HIDE DEF g, s, reg, args
  <2>2. QED
    BY <2>1
<1>2. r.state = "Complete" /\ r.reg = reg /\ Len(s) >= 8 * args
  BY <1>1 DEF Finished
<1> HIDE DEF g, s, reg, args
<1>3. Len(Meaning(g).rest) > 8 * args
  BY <1>1, <1>2
<1>4. ~Acts(g)
  BY <1>1, <1>3 DEF Acts
<1>5. r.control = ControlWith(r.control, g)
  BY <1>4, Quiet
<1>6. ~Interrupts(r, r)
  BY <1>2 DEF Interrupts
<1>7. Answered(r, g, AnswerOf(r, r, a))
  BY <1>1, <1>3 DEF Answered
<1>8. Decoded(r, g, AnswerOf(r, r, a))
  <2>1. Finished(r, Meaning(g))
    BY <1>1, <1>2 DEF Finished
  <2>2. QED
    BY <1>1, <1>3, <2>1 DEF Decoded
<1>9. Heeds(r, r, g, a)
  BY <1>4, <1>5, <1>6, <1>7, <1>8 DEF Heeds
<1>10. QED
  BY <1>9 DEF g

\* The levels on the lines change, and nothing else of the clock.
Ported(r, p) == [r EXCEPT !.port = p]

\* Other levels on the lines leave the other fields.
LEMMA PortedIs ==
  ASSUME NEW r, IsRTC(r), NEW p \in SUBSET All
  PROVE  /\ IsRTC(Ported(r, p)) /\ Ported(r, p).port = p
         /\ Ported(r, p).currentBit = r.currentBit /\ Ported(r, p).currentByte = r.currentByte
         /\ Ported(r, p).reg = r.reg /\ Ported(r, p).data = r.data /\ Ported(r, p).buffer = r.buffer
         /\ Ported(r, p).state = r.state /\ Ported(r, p).control = r.control
<1>1. r = RTCOf(r.currentBit, r.currentByte, r.reg, r.data, r.buffer, r.port, r.state, r.control)
      /\ r.currentBit \in 0 .. 7 /\ r.currentByte \in Nat /\ r.reg \in 0 .. 7 /\ r.data \in Bits8
      /\ IsBuffer(r.buffer) /\ r.state \in {"Command", "Sending", "Receiving", "Complete"}
  BY DEF IsRTC
<1>2. Ported(r, p) = RTCOf(r.currentBit, r.currentByte, r.reg, r.data, r.buffer, p, r.state, r.control)
  BY <1>1, SetPort DEF Ported
<1>3. IsRTC(RTCOf(r.currentBit, r.currentByte, r.reg, r.data, r.buffer, p, r.state, r.control))
  BY <1>1, IsRTCOf, Zenon
<1>4. QED
  BY <1>2, <1>3, RTCFields

\* They leave what the clock has understood.
LEMMA PortedDecoded ==
  ASSUME NEW r, IsRTC(r), NEW p \in SUBSET All, NEW h, NEW a, Decoded(r, h, a)
  PROVE  Decoded(Ported(r, p), h, a)
<1> DEFINE n == Ported(r, p)
           m == Meaning(h)
<1>1. /\ n.currentBit = r.currentBit /\ n.currentByte = r.currentByte
      /\ n.reg = r.reg /\ n.data = r.data /\ n.buffer = r.buffer /\ n.state = r.state
  BY PortedIs
<1>2. Waiting(r, h) => Waiting(n, h)
  <2> HIDE DEF n
  <2>1. QED
    BY <1>1 DEF Waiting
<1>3. Telling(r, m, a) => Telling(n, m, a)
  <2> HIDE DEF n, m
  <2>1. QED
    BY <1>1, Zenon DEF Telling, At
<1>4. Taking(r, m) => Taking(n, m)
  <2> HIDE DEF n, m
  <2>1. QED
    BY <1>1 DEF Taking, At
<1>5. Finished(r, m) => Finished(n, m)
  <2> HIDE DEF n, m
  <2>1. QED
    BY <1>1 DEF Finished
<1>6. QED
  BY <1>2, <1>3, <1>4, <1>5, Zenon DEF Decoded

\* What a store to the lines is to the clock
After(r, mask, value) == Driven(r.port, mask \ {FLG}, value)

\* RTCWrite, case by case.
LEMMA WriteCases ==
  ASSUME NEW r, IsRTC(r), NEW mask, NEW value, NEW now, NEW p \in SUBSET All, p = After(r, mask, value)
  PROVE  /\ CS \notin p => RTCWrite(r, mask, value, now) = Ported(r, p)
         /\ CS \in p /\ CS \notin r.port => RTCWrite(r, mask, value, now) = Selected(Ported(r, p))
         /\ CS \in p /\ CS \in r.port /\ SCK \in r.port => RTCWrite(r, mask, value, now) = Ported(r, p)
         /\ CS \in p /\ CS \in r.port /\ SCK \notin p => RTCWrite(r, mask, value, now) = Ported(r, p)
         /\ CS \in p /\ CS \in r.port /\ SCK \notin r.port /\ SCK \in p =>
              /\ r.state = "Command" => RTCWrite(r, mask, value, now) = ReceiveCommandSIO(Ported(r, p), now)
              /\ r.state = "Receiving" => RTCWrite(r, mask, value, now) = ReceiveBufferSIO(Ported(r, p))
              /\ r.state = "Sending" => RTCWrite(r, mask, value, now) = TransmitBufferSIO(Ported(r, p))
              /\ r.state = "Complete" => RTCWrite(r, mask, value, now) = Ported(r, p)
<1> DEFINE n == Ported(r, p)
           w == RTCWrite(r, mask, value, now)
           rises == SCK \notin r.port /\ SCK \in n.port
           Rising == CASE r.state = "Command" -> ReceiveCommandSIO(n, now)
                       [] r.state = "Receiving" -> ReceiveBufferSIO(n)
                       [] r.state = "Sending" -> TransmitBufferSIO(n)
                       [] r.state = "Complete" -> n
<1>1. n.port = p
  BY PortedIs
<1>2. [r EXCEPT !.port = Driven(@, mask \ {FLG}, value)] = n
  BY DEF After, Ported
<1>3. w = CASE CS \notin n.port -> n
            [] CS \in n.port /\ CS \notin r.port -> Selected(n)
            [] {CS} \subseteq n.port \cap r.port /\ ~rises -> n
            [] {CS} \subseteq n.port \cap r.port /\ rises -> Rising
  BY <1>2, Zenon DEF RTCWrite
<1> HIDE DEF n, w, Rising
<1>4. {CS} \subseteq n.port \cap r.port <=> CS \in n.port /\ CS \in r.port
  OBVIOUS
<1>5. CS \notin p => w = n
  BY <1>1, <1>3, <1>4, Zenon
<1>6. CS \in p /\ CS \notin r.port => w = Selected(n)
  BY <1>1, <1>3, <1>4, Zenon
<1>7. CS \in p /\ CS \in r.port /\ ~(SCK \notin r.port /\ SCK \in p) => w = n
  BY <1>1, <1>3, <1>4, Zenon
<1>8. CS \in p /\ CS \in r.port /\ SCK \notin r.port /\ SCK \in p => w = Rising
  BY <1>1, <1>3, <1>4, Zenon
<1>9. /\ "Command" # "Receiving" /\ "Command" # "Sending" /\ "Command" # "Complete"
      /\ "Receiving" # "Sending" /\ "Receiving" # "Complete" /\ "Sending" # "Complete"
  OBVIOUS
<1>10. /\ r.state = "Command" => Rising = ReceiveCommandSIO(n, now)
       /\ r.state = "Receiving" => Rising = ReceiveBufferSIO(n)
       /\ r.state = "Sending" => Rising = TransmitBufferSIO(n)
       /\ r.state = "Complete" => Rising = n
  BY <1>9, Zenon DEF Rising
<1>11. QED
  BY <1>5, <1>6, <1>7, <1>8, <1>10 DEF n, w

\* A clock that is selected waits for a command.
LEMMA SelectedStarts ==
  ASSUME NEW r, IsRTC(r)
  PROVE  /\ IsRTC(Selected(r)) /\ Selected(r).port = r.port /\ Selected(r).control = r.control
         /\ Selected(r).state = "Command" /\ Selected(r).currentBit = 0
<1>1. r = RTCOf(r.currentBit, r.currentByte, r.reg, r.data, r.buffer, r.port, r.state, r.control)
      /\ r.reg \in 0 .. 7 /\ r.data \in Bits8 /\ IsBuffer(r.buffer) /\ r.port \in SUBSET All
      /\ "Command" \in {"Command", "Sending", "Receiving", "Complete"} /\ 0 \in 0 .. 7 /\ 0 \in Nat
  BY DEF IsRTC
<1>2. Selected(RTCOf(r.currentBit, r.currentByte, r.reg, r.data, r.buffer, r.port, r.state, r.control)) =
        RTCOf(0, 0, r.reg, r.data, r.buffer, r.port, "Command", r.control)
  BY SelectedIs
<1>3. Selected(r) = RTCOf(0, 0, r.reg, r.data, r.buffer, r.port, "Command", r.control)
  BY <1>1, <1>2
<1>4. IsRTC(RTCOf(0, 0, r.reg, r.data, r.buffer, r.port, "Command", r.control))
  BY <1>1, IsRTCOf, Zenon
<1>5. QED
  BY <1>3, <1>4, RTCFields

\* Whatever it hears, it is a clock.
LEMMA StateSet ==
  ASSUME NEW r, IsRTC(r), NEW state \in {"Command", "Sending", "Receiving", "Complete"}
  PROVE  IsRTC([r EXCEPT !.state = state])
<1>1. r = RTCOf(r.currentBit, r.currentByte, r.reg, r.data, r.buffer, r.port, r.state, r.control)
      /\ r.currentBit \in 0 .. 7 /\ r.currentByte \in Nat /\ r.reg \in 0 .. 7 /\ r.data \in Bits8
      /\ IsBuffer(r.buffer) /\ r.port \in SUBSET All
  BY DEF IsRTC
<1>2. [r EXCEPT !.state = state] =
        RTCOf(r.currentBit, r.currentByte, r.reg, r.data, r.buffer, r.port, state, r.control)
  BY <1>1, SetState
<1>3. IsRTC(RTCOf(r.currentBit, r.currentByte, r.reg, r.data, r.buffer, r.port, state, r.control))
  BY <1>1, IsRTCOf, Zenon
<1>4. QED
  BY <1>2, <1>3

\* A clock that has written a register is one,
LEMMA WrittenTyped ==
  ASSUME NEW r, IsRTC(r)
  PROVE  IsRTC(Written(r))
<1> DEFINE c == ControlAfter(r.reg, r.buffer, r.control)
<1>1. r = RTCOf(r.currentBit, r.currentByte, r.reg, r.data, r.buffer, r.port, r.state, r.control)
      /\ r.currentBit \in 0 .. 7 /\ r.currentByte \in Nat /\ r.reg \in 0 .. 7 /\ r.data \in Bits8
      /\ IsBuffer(r.buffer) /\ r.port \in SUBSET All
      /\ "Complete" \in {"Command", "Sending", "Receiving", "Complete"}
  BY DEF IsRTC
<1>2. Written(RTCOf(r.currentBit, r.currentByte, r.reg, r.data, r.buffer, r.port, r.state, r.control)) =
        RTCOf(r.currentBit, r.currentByte, r.reg, r.data, r.buffer, r.port, "Complete", c)
  BY WrittenIs
<1> HIDE DEF c
<1>3. IsRTC(RTCOf(r.currentBit, r.currentByte, r.reg, r.data, r.buffer, r.port, "Complete", c))
  BY <1>1, IsRTCOf, Zenon
<1>4. QED
  BY <1>1, <1>2, <1>3

\* one that has taken a bit of a command,
LEMMA ReceiveCommandTyped ==
  ASSUME NEW r, IsRTC(r), NEW now \in Now
  PROVE  IsRTC(ReceiveCommandSIO(r, now))
<1> DEFINE d == InOrder(Latched(r))
           c == CommandOf(ReadSIO(r), d)
           reg == d[4] + 2 * d[5] + 4 * d[6]
           next == IF rtcArgCount(c.reg) = 0 THEN "Complete" ELSE "Sending"
<1>1. /\ IsRTC(ReadSIO(r)) /\ Latched(r) \in Bits8
      /\ ReadSIO(r) = RTCOf((r.currentBit + 1) % 8, r.currentByte, r.reg, Latched(r), r.buffer, r.port, r.state,
                            r.control)
  BY BitIsRead
<1>2. ReadSIO(r).data = Latched(r)
  BY <1>1, RTCFields
<1>3. d \in Bits8
  BY <1>1 DEF InOrder, Bits8
<1>4. d[7] \in {0, 1} /\ reg \in 0 .. 7
  <2> HIDE DEF d
  <2>1. d[4] \in {0, 1} /\ d[5] \in {0, 1} /\ d[6] \in {0, 1} /\ d[7] \in {0, 1}
    BY <1>3 DEF Bits8
  <2>2. QED
    BY <2>1
<1> HIDE DEF d
<1>5. c = RTCOf(0, 0, reg, d, r.buffer, r.port, r.state, r.control)
  BY <1>1, CommandOfIs
<1>6. IsBuffer(r.buffer) /\ r.port \in SUBSET All /\ 0 \in 0 .. 7 /\ 0 \in Nat
      /\ r.state \in {"Command", "Sending", "Receiving", "Complete"}
  BY DEF IsRTC
<1> HIDE DEF reg
<1>7. IsRTC(RTCOf(0, 0, reg, d, r.buffer, r.port, r.state, r.control))
  BY <1>3, <1>4, <1>6, IsRTCOf, Zenon
<1>8. IsRTC(c)
  BY <1>5, <1>7
<1>9. next \in {"Command", "Sending", "Receiving", "Complete"}
  OBVIOUS
<1> HIDE DEF c
<1>10. IsRTC(ReadRegister(c, now))
  <2>1. PICK f : /\ IsBuffer(f)
                 /\ ReadRegister(c, now) =
                      RTCOf(c.currentBit, c.currentByte, c.reg, c.data, f, c.port, c.state, c.control)
    BY <1>8, ReadRegisterIs
  <2>2. /\ c.currentBit \in 0 .. 7 /\ c.currentByte \in Nat /\ c.reg \in 0 .. 7 /\ c.data \in Bits8
        /\ c.port \in SUBSET All /\ c.state \in {"Command", "Sending", "Receiving", "Complete"}
    BY <1>8 DEF IsRTC
  <2>3. IsRTC(RTCOf(c.currentBit, c.currentByte, c.reg, c.data, f, c.port, c.state, c.control))
    BY <2>1, <2>2, IsRTCOf, Zenon
  <2>4. QED
    BY <2>1, <2>3
<1> HIDE DEF next
<1>11. IsRTC([ReadRegister(c, now) EXCEPT !.state = next])
  BY <1>9, <1>10, StateSet
<1>12. IsRTC([c EXCEPT !.state = "Receiving"]) /\ IsRTC(Written(c))
  BY <1>8, StateSet, WrittenTyped
<1>13. /\ ~ByteRead(r) => ReceiveCommandSIO(r, now) = ReadSIO(r)
       /\ ByteRead(r) /\ Lower(d) # CommandCode => ReceiveCommandSIO(r, now) = ReadSIO(r)
       /\ ByteRead(r) /\ Lower(d) = CommandCode /\ d[7] = 1 =>
            ReceiveCommandSIO(r, now) = [ReadRegister(c, now) EXCEPT !.state = next]
       /\ ByteRead(r) /\ Lower(d) = CommandCode /\ d[7] = 0 =>
            ReceiveCommandSIO(r, now) = IF rtcArgCount(c.reg) > 0 THEN [c EXCEPT !.state = "Receiving"]
                                          ELSE Written(c)
  BY <1>2, CommandCases DEF d, c, next
<1>14. QED
  BY <1>1, <1>4, <1>11, <1>12, <1>13

\* one that has taken a bit of a register,
LEMMA ReceiveBufferTyped ==
  ASSUME NEW r, IsRTC(r)
  PROVE  IsRTC(ReceiveBufferSIO(r))
<1> DEFINE buffer == [r.buffer EXCEPT ![r.currentByte] = Byte(Latched(r))]
<1>1. IsRTC(ReadSIO(r)) /\ Latched(r) \in Bits8
  BY BitIsRead
<1>2. /\ (r.currentBit + 1) % 8 \in 0 .. 7 /\ r.currentByte + 1 \in Nat /\ r.reg \in 0 .. 7 /\ r.port \in SUBSET All
      /\ r.state \in {"Command", "Sending", "Receiving", "Complete"} /\ IsBuffer(r.buffer)
  BY DEF IsRTC
<1>3. IsBuffer(buffer)
  BY <1>2 DEF IsBuffer
<1> HIDE DEF buffer
<1>4. IsRTC(RTCOf((r.currentBit + 1) % 8, r.currentByte + 1, r.reg, Latched(r), buffer, r.port, r.state, r.control))
  BY <1>1, <1>2, <1>3, IsRTCOf, Zenon
<1>5. IsRTC(FullOf(r))
  BY <1>4 DEF FullOf, buffer
<1>6. IsRTC(Written(FullOf(r)))
  BY <1>5, WrittenTyped
<1>7. QED
  BY <1>1, <1>5, <1>6, ReceiveCases

\* and one that has sent a bit.
LEMMA TransmitTyped ==
  ASSUME NEW r, IsRTC(r)
  PROVE  IsRTC(TransmitBufferSIO(r))
<1> DEFINE state == IF r.currentByte + 1 = rtcArgCount(r.reg) THEN "Complete" ELSE r.state
<1>1. /\ r.currentBit \in 0 .. 7 /\ (r.currentBit + 1) % 8 \in 0 .. 7 /\ r.currentByte \in Nat
      /\ r.currentByte + 1 \in Nat /\ r.reg \in 0 .. 7 /\ r.port \in SUBSET All /\ r.data \in Bits8
      /\ r.state \in {"Command", "Sending", "Receiving", "Complete"} /\ IsBuffer(r.buffer)
  BY DEF IsRTC
<1>2. SentPort(r) \in SUBSET All
  BY <1>1, SentLevels
<1>3. IsBuffer(SentBuffer(r))
  BY <1>1 DEF IsBuffer, SentBuffer
<1>4. state \in {"Command", "Sending", "Receiving", "Complete"}
  BY <1>1
<1> HIDE DEF state
<1>5. IsRTC(RTCOf((r.currentBit + 1) % 8, r.currentByte, r.reg, r.data, SentBuffer(r), SentPort(r), r.state, r.control))
  BY <1>1, <1>2, <1>3, IsRTCOf, Zenon
<1>6. IsRTC(RTCOf((r.currentBit + 1) % 8, r.currentByte + 1, r.reg, r.data, SentBuffer(r), SentPort(r), state, r.control))
  BY <1>1, <1>2, <1>3, <1>4, IsRTCOf, Zenon
<1>7. r.currentBit < 7 \/ r.currentBit = 7
  BY <1>1
<1>8. QED
  BY <1>5, <1>6, <1>7, TransmitIs DEF state

\* Whatever the lines do, the clock stays one.
LEMMA WriteTyped ==
  ASSUME NEW r, IsRTC(r), NEW mask, NEW value, NEW now \in Now, After(r, mask, value) \in SUBSET All
  PROVE  IsRTC(RTCWrite(r, mask, value, now))
<1> DEFINE p == After(r, mask, value)
           n == Ported(r, p)
<1>1. p \in SUBSET All /\ IsRTC(n)
  BY PortedIs
<1> HIDE DEF n
<1>2. IsRTC(Selected(n)) /\ IsRTC(ReceiveCommandSIO(n, now)) /\ IsRTC(ReceiveBufferSIO(n)) /\ IsRTC(TransmitBufferSIO(n))
  BY <1>1, SelectedStarts, ReceiveCommandTyped, ReceiveBufferTyped, TransmitTyped
<1>3. r.state \in {"Command", "Sending", "Receiving", "Complete"}
  BY DEF IsRTC
<1>4. PICK q \in SUBSET All : q = p
  BY <1>1
<1> HIDE DEF p
<1>5. q = After(r, mask, value) /\ n = Ported(r, q)
  BY <1>4 DEF p, n
<1>6. QED
  BY <1>1, <1>2, <1>3, <1>5, WriteCases

\* What the next bit must be seen as, while the clock takes bits
Taken(h) == Commands(h) = {} \/ (~Meaning(h).asks /\ Len(Meaning(h).rest) < Arguments(Meaning(h)))

\* A rising clock line: the clock heeds the bit.
LEMMA Clocked ==
  ASSUME NEW r, IsRTC(r), NEW mask, NEW value, NEW now \in Now, NEW p \in SUBSET All, p = After(r, mask, value),
         CS \in p, CS \in r.port, SCK \notin r.port, SCK \in p,
         NEW h \in Heard, NEW a, Decoded(r, h, a), NEW b \in {0, 1}, Taken(h) => Level(p, SIO) = b
  PROVE  Heeds(Ported(r, p), RTCWrite(r, mask, value, now), Append(h, b), a)
<1> DEFINE n == Ported(r, p)
           w == RTCWrite(r, mask, value, now)
           m == Meaning(h)
<1>1. IsRTC(n) /\ n.port = p /\ n.state = r.state
  BY PortedIs
<1>2. Decoded(n, h, a)
  BY PortedDecoded
<1>3. /\ r.state = "Command" => w = ReceiveCommandSIO(n, now)
      /\ r.state = "Receiving" => w = ReceiveBufferSIO(n)
      /\ r.state = "Sending" => w = TransmitBufferSIO(n)
      /\ r.state = "Complete" => w = n
  BY WriteCases
<1> HIDE DEF n, w
<1>4. CASE Commands(h) = {}
  <2>1. Waiting(n, h)
    BY <1>2, <1>4 DEF Decoded
  <2>2. n.state = "Command"
    BY <2>1 DEF Waiting
  <2>3. Level(n.port, SIO) = b
    BY <1>1, <1>4 DEF Taken
  <2>4. QED
    BY <1>1, <1>3, <1>4, <2>1, <2>2, <2>3, CommandHeeds DEF n, w
<1>5. CASE Commands(h) # {} /\ ~(Len(m.rest) < Arguments(m))
  <2>1. Arguments(m) = 8 * rtcArgCount(m.reg) /\ rtcArgCount(m.reg) \in 0 .. 7 /\ Len(m.rest) \in Nat
    BY <1>5, RestGrows
  <2>2. Len(m.rest) >= Arguments(m)
    <3> DEFINE x == Len(m.rest)
               y == rtcArgCount(m.reg)
    <3>1. ~(x < 8 * y) /\ x \in Nat /\ y \in 0 .. 7
      BY <1>5, <2>1
    <3> HIDE DEF x, y
    <3>2. x >= 8 * y
      BY <3>1
    <3>3. QED
      BY <2>1, <3>2 DEF x, y
  <2>3. Finished(n, m)
    BY <1>2, <1>5, <2>2 DEF Decoded
  <2>4. n.state = "Complete"
    BY <2>3 DEF Finished
  <2>5. Heeds(n, n, Append(h, b), a)
    BY <1>1, <1>5, <2>2, <2>3, CompleteHeeds
  <2>6. QED
    BY <1>1, <1>3, <2>4, <2>5 DEF n, w
<1>6. CASE Commands(h) # {} /\ Len(m.rest) < Arguments(m) /\ m.asks
  <2>1. Telling(n, m, a)
    BY <1>2, <1>6 DEF Decoded
  <2>2. n.state = "Sending"
    BY <2>1 DEF Telling
  <2>3. Heeds(n, TransmitBufferSIO(n), Append(h, b), a)
    BY <1>1, <1>6, <2>1, TransmitHeeds
  <2>4. QED
    BY <1>1, <1>3, <2>2, <2>3 DEF n, w
<1>7. CASE Commands(h) # {} /\ Len(m.rest) < Arguments(m) /\ ~m.asks
  <2>1. Taking(n, m)
    BY <1>2, <1>7 DEF Decoded
  <2>2. n.state = "Receiving"
    BY <2>1 DEF Taking
  <2>3. Level(n.port, SIO) = b
    BY <1>1, <1>7 DEF Taken
  <2>4. Heeds(n, ReceiveBufferSIO(n), Append(h, b), a)
    BY <1>1, <1>7, <2>1, <2>3, BufferHeeds
  <2>5. QED
    BY <1>1, <1>3, <2>2, <2>4 DEF n, w
<1>8. QED
  BY <1>4, <1>5, <1>6, <1>7

-----------------------------------------------------------------------------
\* What a frame says is known once it has been said.
Begun(g, t, h) ==
  /\ g.wrMask # {} /\ t.bits \in Frame
  /\ \A k \in 1 .. Len(h) : h[k] = IF k <= Len(t.bits) THEN t.bits[k] ELSE 0
  /\ SIO \notin g.wrMask => Len(h) >= Len(t.bits)

\* After a whole frame the clock takes no more bits.
LEMMA Whole ==
  ASSUME NEW g, NEW t, NEW h \in Heard, Begun(g, t, h), Len(h) >= Len(t.bits)
  PROVE  ~Taken(h)
<1> DEFINE f == t.bits
           k == FirstCommand(f)
<1>1. f \in Heard /\ Commands(f) # {} /\ (Meaning(f).asks \/ Len(Meaning(f).rest) >= Arguments(Meaning(f)))
  BY FrameAssumption DEF Begun, Heard
<1>2. Len(f) \in Nat /\ Len(h) \in Nat
  BY <1>1 DEF Heard
<1>3. Extends(h, f)
  <2>1. \A i \in 1 .. Len(f) : h[i] = f[i]
    <3> SUFFICES ASSUME NEW i \in 1 .. Len(f) PROVE h[i] = f[i]
      OBVIOUS
    <3>1. i \in 1 .. Len(h) /\ i <= Len(f)
      BY <1>2
    <3>2. QED
      BY <3>1 DEF Begun
  <2>2. QED
    BY <1>2, <2>1 DEF Extends
<1> HIDE DEF f
<1>4. Commands(h) # {} /\ FirstCommand(h) = k /\ ByteAt(h, k) = ByteAt(f, k)
  BY <1>1, <1>3, FirstStays
<1>5. Meaning(f) = SaidBy(ByteAt(f, k), Rest(f, k)) /\ Meaning(f).rest = Rest(f, k)
  BY <1>1, Meanings
<1>6. Meaning(h) = SaidBy(ByteAt(f, k), Rest(h, k)) /\ Meaning(h).rest = Rest(h, k)
  BY <1>4, Meanings
<1>7. Meaning(h).reg = Meaning(f).reg /\ Meaning(h).asks = Meaning(f).asks
  BY <1>5, <1>6 DEF SaidBy
<1>8. Wholly(f, k) /\ Wholly(h, k) /\ k \in Nat
  BY <1>1, <1>4, Firsts
<1> HIDE DEF k
<1>9. Len(Rest(f, k)) = Len(f) - 8 * (k + 1) /\ Len(Rest(h, k)) = Len(h) - 8 * (k + 1)
  BY <1>1, <1>8, Rests
<1>10. Arguments(Meaning(h)) = 8 * rtcArgCount(Meaning(h).reg) /\ Arguments(Meaning(f)) = Arguments(Meaning(h))
       /\ rtcArgCount(Meaning(h).reg) \in 0 .. 7
  BY <1>4, <1>7, RestGrows DEF Arguments
<1>11. ASSUME Len(Meaning(f).rest) >= Arguments(Meaning(f)) PROVE ~(Len(Meaning(h).rest) < Arguments(Meaning(h)))
  <2> DEFINE x == Len(f)
             y == Len(h)
             z == rtcArgCount(Meaning(h).reg)
  <2>1. /\ x \in Nat /\ y \in Nat /\ y >= x /\ k \in Nat /\ z \in 0 .. 7
        /\ x - 8 * (k + 1) >= 8 * z
    BY <1>2, <1>5, <1>8, <1>9, <1>10, <1>11 DEF f
  <2>2. Len(Meaning(h).rest) = y - 8 * (k + 1) /\ Arguments(Meaning(h)) = 8 * z
    BY <1>6, <1>9, <1>10
  <2> HIDE DEF x, y, z
  <2>3. ~(y - 8 * (k + 1) < 8 * z)
    BY <2>1
  <2>4. QED
    BY <2>2, <2>3
<1>12. QED
  BY <1>1, <1>4, <1>7, <1>11 DEF Taken

\* The lines after a store
LEMMA Masks ==
  /\ SCK = 0 /\ SIO = 1 /\ CS = 2 /\ FLG = 3 /\ All = {0, 1, 2}
  /\ \A mask \in {All, All \ {SIO}} :
       SCK \in mask /\ CS \in mask /\ mask \ {FLG} = mask /\ mask \subseteq All /\ mask # {}
BY DEF SCK, SIO, CS, FLG, All

\* The lines the program drives have the levels it drives.
LEMMA Lined ==
  ASSUME NEW mask \in {All, All \ {SIO}}, NEW value, NEW lines \in SUBSET All
  PROVE  /\ Driven(lines, mask, value) \in SUBSET All
         /\ \A l \in mask : l \in Driven(lines, mask, value) <=> l \in value
<1>1. mask \subseteq All
  BY Masks
<1>2. QED
  BY <1>1 DEF Driven

\* They have them in the clock's port too.
LEMMA LinesAfter ==
  ASSUME NEW r, r.port \in SUBSET All, NEW data, NEW mask \in {All, All \ {SIO}}, NEW value
  PROVE  /\ After(r, mask, Driven(data, mask, value)) \in SUBSET All
         /\ \A l \in mask : l \in After(r, mask, Driven(data, mask, value)) <=> l \in value
<1> DEFINE v == Driven(data, mask, value)
<1>1. mask \ {FLG} = mask
  BY Masks
<1>2. \A l \in mask : l \in v <=> l \in value
  BY DEF Driven
<1> HIDE DEF v
<1>3. After(r, mask, v) = Driven(r.port, mask, v)
  BY <1>1 DEF After
<1>4. Driven(r.port, mask, v) \in SUBSET All /\ \A l \in mask : l \in Driven(r.port, mask, v) <=> l \in v
  BY Lined
<1>5. QED
  BY <1>2, <1>3, <1>4 DEF v

\* Unless a load found other levels on the lines, the clock and who drives
\* them agree on the levels, and the clock has decoded what it was told.
InStep(r, t, h, a) ==
  /\ \A l \in {SCK, CS} : l \in r.port <=> l \in t.lines
  /\ CS \in t.lines => Decoded(r, h, a)

Attends(g, r, t, h, a, s) ==
  /\ g = [allowReads |-> g.allowReads, wrMask |-> g.wrMask, portData |-> g.portData]
  /\ g.wrMask \in {{}, All, All \ {SIO}}
  /\ IsRTC(r)
  /\ t = [bits |-> t.bits, lines |-> t.lines] /\ t.lines \in SUBSET All
  /\ h \in Heard /\ s \in BOOLEAN
  /\ CS \in t.lines => Begun(g, t, h)
  /\ ~s => InStep(r, t, h, a)

Attending == Attends(gpio, rtc, talk, heard, asked, astray)
Answering == turn = "clock" /\ ~astray /\ CS \in talk.lines => Answered(rtc, heard, asked)

\* What a step may do to the register and the interrupt
ActsRight ==
  ~astray /\ ~astray' =>
    /\ turn' = "clock" =>
         /\ raised' <=> Acts(heard') /\ Meaning(heard').reg = ForceIRQ
         /\ rtc'.control = ControlWith(rtc.control, heard')
    /\ turn' \in {"pins", "select"} => ~raised' /\ rtc'.control = rtc.control

\* The steps that leave the clock alone
LEMMA QuietStep ==
  ASSUME Attending, UNCHANGED <<rtc, talk, heard, asked, astray>>, turn' = "pins", ~raised',
         gpio' = [allowReads |-> gpio'.allowReads, wrMask |-> gpio'.wrMask, portData |-> gpio'.portData],
         gpio'.wrMask \in {{}, All, All \ {SIO}},
         CS \in talk.lines =>
           gpio'.wrMask # {} /\ (SIO \notin gpio'.wrMask => Len(heard) >= Len(talk.bits))
  PROVE  Attending' /\ Answering' /\ ActsRight
<1>1. CS \in talk.lines => Begun(gpio', talk, heard)
  BY DEF Attending, Attends, Begun
<1>2. Attends(gpio', rtc, talk, heard, asked, astray)
  BY <1>1, Zenon DEF Attending, Attends
<1>3. Attending'
  BY <1>2 DEF Attending
<1>4. Answering'
  BY DEF Answering
<1>5. ActsRight
  BY DEF ActsRight
<1>6. QED
  BY <1>3, <1>4, <1>5

\* WriteControl keeps the program and the clock in step.
LEMMA WriteControlRight ==
  ASSUME Attending, NEW allow, WriteControl(allow)
  PROVE  Attending' /\ Answering' /\ ActsRight
<1>1. /\ gpio = [allowReads |-> gpio.allowReads, wrMask |-> gpio.wrMask, portData |-> gpio.portData]
      /\ gpio.wrMask \in {{}, All, All \ {SIO}}
  BY DEF Attending, Attends
<1>2. gpio' = [gpio EXCEPT !.allowReads = allow] /\ CS \notin talk.lines /\ turn' = "pins" /\ raised' = FALSE
      /\ UNCHANGED <<rtc, talk, heard, asked, astray>>
  BY DEF WriteControl
<1>3. gpio' = [allowReads |-> allow, wrMask |-> gpio.wrMask, portData |-> gpio.portData]
  BY <1>1, <1>2
<1>4. QED
  BY <1>1, <1>2, <1>3, QuietStep

\* So does turning the lines round,
LEMMA TurnRoundRight ==
  ASSUME Attending, TurnRound
  PROVE  Attending' /\ Answering' /\ ActsRight
<1>1. gpio = [allowReads |-> gpio.allowReads, wrMask |-> gpio.wrMask, portData |-> gpio.portData]
  BY DEF Attending, Attends
<1> DEFINE mask == IF gpio.wrMask = All THEN All \ {SIO} ELSE All
<1>2. gpio' = [gpio EXCEPT !.wrMask = mask] /\ turn' = "pins" /\ raised' = FALSE
      /\ UNCHANGED <<rtc, talk, heard, asked, astray>>
  BY DEF TurnRound, WriteDirection
<1>3. mask \in {All, All \ {SIO}}
  OBVIOUS
<1>4. CS \in talk.lines => Len(heard) >= Len(talk.bits)
  BY DEF TurnRound, Said
<1> HIDE DEF mask
<1>5. gpio' = [allowReads |-> gpio.allowReads, wrMask |-> mask, portData |-> gpio.portData]
  BY <1>1, <1>2
<1>6. gpio'.wrMask # {}
  BY <1>3, <1>5, Masks
<1>7. QED
  BY <1>2, <1>3, <1>4, <1>5, <1>6, QuietStep

\* and a load from them,
LEMMA ReadDataRight ==
  ASSUME Attending, ReadData
  PROVE  Attending' /\ Answering' /\ ActsRight
<1>1. /\ gpio = [allowReads |-> gpio.allowReads, wrMask |-> gpio.wrMask, portData |-> gpio.portData]
      /\ gpio.wrMask \in {{}, All, All \ {SIO}}
      /\ CS \in talk.lines => gpio.wrMask # {} /\ (SIO \notin gpio.wrMask => Len(heard) >= Len(talk.bits))
  BY DEF Attending, Attends, Begun
<1> DEFINE data == Driven(gpio.portData, Lines \ gpio.wrMask, OnLines)
<1>2. gpio' = [gpio EXCEPT !.portData = data] /\ turn' = "pins" /\ raised' = FALSE
      /\ UNCHANGED <<rtc, talk, heard, asked, astray>>
  BY DEF ReadData
<1> HIDE DEF data
<1>3. gpio' = [allowReads |-> gpio.allowReads, wrMask |-> gpio.wrMask, portData |-> data]
  BY <1>1, <1>2
<1>4. QED
  BY <1>1, <1>2, <1>3, QuietStep

\* The stores to the lines
LEMMA StoreToLines ==
  ASSUME Attending, NEW value \in SUBSET All, NEW now \in Now, WriteData(value, now), gpio.wrMask \in {All, All \ {SIO}}
  PROVE  /\ rtc' = RTCWrite(rtc, gpio.wrMask, OnPort(value), now) /\ IsRTC(rtc')
         /\ gpio' = [allowReads |-> gpio'.allowReads, wrMask |-> gpio'.wrMask, portData |-> gpio'.portData]
         /\ gpio'.wrMask = gpio.wrMask
         /\ raised' = Interrupts(rtc, rtc')
         /\ After(rtc, gpio.wrMask, OnPort(value)) \in SUBSET All
         /\ \A l \in gpio.wrMask : l \in After(rtc, gpio.wrMask, OnPort(value)) <=> l \in value
<1>1. /\ gpio = [allowReads |-> gpio.allowReads, wrMask |-> gpio.wrMask, portData |-> gpio.portData]
      /\ IsRTC(rtc)
  BY DEF Attending, Attends
<1>2. /\ rtc' = RTCWrite(rtc, gpio.wrMask, OnPort(value), now)
      /\ gpio' = [gpio EXCEPT !.portData = OnPort(value)]
      /\ raised' = Interrupts(rtc, rtc')
  BY Zenon DEF WriteData, Interrupts
<1>3. gpio' = [allowReads |-> gpio.allowReads, wrMask |-> gpio.wrMask, portData |-> OnPort(value)]
  <2> DEFINE data == OnPort(value)
  <2> HIDE DEF data
  <2>1. gpio' = [gpio EXCEPT !.portData = data]
    BY <1>2 DEF data
  <2>2. gpio' = [allowReads |-> gpio.allowReads, wrMask |-> gpio.wrMask, portData |-> data]
    BY <1>1, <2>1
  <2>3. QED
    BY <2>2 DEF data
<1>4. rtc.port \in SUBSET All
  BY <1>1 DEF IsRTC
<1>5. /\ After(rtc, gpio.wrMask, OnPort(value)) \in SUBSET All
      /\ \A l \in gpio.wrMask : l \in After(rtc, gpio.wrMask, OnPort(value)) <=> l \in value
  <2> DEFINE mask == gpio.wrMask
             data == gpio.portData
  <2>1. mask \in {All, All \ {SIO}}
    OBVIOUS
  <2> HIDE DEF mask, data
  <2>2. /\ After(rtc, mask, Driven(data, mask, value)) \in SUBSET All
        /\ \A l \in mask : l \in After(rtc, mask, Driven(data, mask, value)) <=> l \in value
    BY <1>4, <2>1, LinesAfter
  <2>3. OnPort(value) = Driven(data, mask, value)
    BY DEF OnPort, mask, data
  <2>4. QED
    BY <2>2, <2>3 DEF mask
<1>6. IsRTC(rtc')
  BY <1>1, <1>2, <1>5, WriteTyped
<1>7. QED
  BY <1>2, <1>3, <1>5, <1>6

\* and a selection, which starts the clock afresh.
LEMMA SelectRight ==
  ASSUME Attending, NEW bits \in Frame, NEW clock \in SUBSET {SCK}, NEW now \in Now, Select(bits, clock, now)
  PROVE  Attending' /\ Answering' /\ ActsRight
<1> DEFINE value == {CS} \cup clock
           p == After(rtc, gpio.wrMask, OnPort(value))
<1>1. /\ gpio.wrMask = All /\ CS \notin talk.lines /\ turn' = "select" /\ WriteData(value, now)
      /\ talk' = [bits |-> bits, lines |-> value] /\ heard' = <<>>
      /\ astray' = (astray /\ CS \in rtc.port) /\ asked' = asked
  BY DEF Select
<1>2. value \in SUBSET All /\ CS \in value
  BY Masks
<1>3. /\ IsRTC(rtc) /\ astray \in BOOLEAN
      /\ ~astray => InStep(rtc, talk, heard, asked)
  BY DEF Attending, Attends
<1> HIDE DEF value
<1>4. /\ rtc' = RTCWrite(rtc, gpio.wrMask, OnPort(value), now) /\ IsRTC(rtc')
      /\ gpio' = [allowReads |-> gpio'.allowReads, wrMask |-> gpio'.wrMask, portData |-> gpio'.portData]
      /\ gpio'.wrMask = gpio.wrMask
      /\ raised' = Interrupts(rtc, rtc')
      /\ p \in SUBSET All /\ \A l \in gpio.wrMask : l \in p <=> l \in value
  BY <1>1, <1>2, StoreToLines
<1>5. SCK \in All /\ CS \in All /\ SIO \in All /\ All # {}
  BY Masks
<1>6. \A l \in {SCK, CS} : l \in p <=> l \in value
  BY <1>1, <1>4, <1>5
<1> HIDE DEF p
<1>7. ASSUME ~astray'
      PROVE  /\ rtc'.port = p /\ rtc'.control = rtc.control /\ rtc'.state = "Command" /\ rtc'.currentBit = 0
  <2>1. CS \notin rtc.port
    BY <1>1, <1>3, <1>7 DEF InStep
  <2>2. CS \in p
    BY <1>2, <1>6
  <2>3. rtc' = Selected(Ported(rtc, p))
    BY <1>3, <1>4, <2>1, <2>2, WriteCases DEF p
  <2>4. IsRTC(Ported(rtc, p)) /\ Ported(rtc, p).port = p /\ Ported(rtc, p).control = rtc.control
    BY <1>3, <1>4, PortedIs
  <2>5. QED
    BY <2>3, <2>4, SelectedStarts
<1>8. <<>> \in Heard /\ Len(<<>>) = 0 /\ Commands(<<>>) = {}
  <2>1. <<>> \in Heard /\ Len(<<>>) = 0
    BY DEF Heard
  <2>2. 0 \div 8 = 0 /\ 0 .. 0 - 1 = {}
    OBVIOUS
  <2>3. QED
    BY <2>1, <2>2 DEF Commands
<1>9. ASSUME ~astray' PROVE InStep(rtc', talk', heard', asked')
  <2>1. Waiting(rtc', <<>>)
    <3>1. 0 % 8 = 0
      OBVIOUS
    <3>2. QED
      BY <1>7, <1>8, <1>9, <3>1 DEF Waiting
  <2>2. Decoded(rtc', <<>>, asked')
    BY <1>8, <2>1 DEF Decoded
  <2>3. \A l \in {SCK, CS} : l \in rtc'.port <=> l \in value
    BY <1>6, <1>7, <1>9
  <2>4. talk'.lines = value
    BY <1>1
  <2>5. QED
    BY <1>1, <2>2, <2>3, <2>4 DEF InStep
<1>10. Begun(gpio', talk', heard')
  BY <1>1, <1>4, <1>5, <1>8 DEF Begun
<1>11. astray' \in BOOLEAN
  BY <1>1
<1>12. Attending'
  <2>1. talk' = [bits |-> talk'.bits, lines |-> talk'.lines] /\ talk'.lines \in SUBSET All
    BY <1>1, <1>2
  <2>2. gpio'.wrMask \in {{}, All, All \ {SIO}} /\ heard' \in Heard
    BY <1>1, <1>4, <1>8
  <2>3. QED
    BY <1>4, <1>9, <1>10, <1>11, <2>1, <2>2 DEF Attending, Attends
<1>13. Answering'
  BY <1>1 DEF Answering
<1>14. ActsRight
  BY <1>1, <1>4, <1>7 DEF ActsRight, Interrupts
<1>15. QED
  BY <1>12, <1>13, <1>14

\* While the clock is selected the program drives its lines.
LEMMA Driving ==
  ASSUME Attending, CS \in talk.lines
  PROVE  /\ gpio.wrMask \in {All, All \ {SIO}} /\ SCK \in gpio.wrMask /\ CS \in gpio.wrMask
         /\ Begun(gpio, talk, heard)
<1>1. gpio.wrMask \in {{}, All, All \ {SIO}} /\ Begun(gpio, talk, heard)
  BY DEF Attending, Attends
<1>2. gpio.wrMask \in {All, All \ {SIO}}
  BY <1>1 DEF Begun
<1>3. QED
  BY <1>1, <1>2, Masks

\* A store of the program's to the lines it drives.
LEMMA DriveIs ==
  ASSUME Attending, NEW value \in SUBSET All, NEW now \in Now, Drive(value, now), CS \in talk.lines
  PROVE  /\ rtc' = RTCWrite(rtc, gpio.wrMask, OnPort(value), now) /\ IsRTC(rtc')
         /\ gpio' = [allowReads |-> gpio'.allowReads, wrMask |-> gpio'.wrMask, portData |-> gpio'.portData]
         /\ gpio'.wrMask = gpio.wrMask
         /\ raised' = Interrupts(rtc, rtc')
         /\ After(rtc, gpio.wrMask, OnPort(value)) \in SUBSET All
         /\ \A l \in gpio.wrMask : l \in After(rtc, gpio.wrMask, OnPort(value)) <=> l \in value
         /\ talk' = [bits |-> talk'.bits, lines |-> talk'.lines] /\ talk'.lines \in SUBSET All
         /\ talk'.bits = talk.bits
         /\ \A l \in gpio.wrMask : l \in talk'.lines <=> l \in value
<1>1. /\ talk = [bits |-> talk.bits, lines |-> talk.lines] /\ talk.lines \in SUBSET All
      /\ IsRTC(rtc)
  BY DEF Attending, Attends
<1>2. gpio.wrMask \in {All, All \ {SIO}}
  BY Driving
<1>3. WriteData(value, now) /\ talk' = [talk EXCEPT !.lines = Driven(talk.lines, gpio.wrMask, value)]
  BY DEF Drive
<1>4. /\ rtc' = RTCWrite(rtc, gpio.wrMask, OnPort(value), now) /\ IsRTC(rtc')
      /\ gpio' = [allowReads |-> gpio'.allowReads, wrMask |-> gpio'.wrMask, portData |-> gpio'.portData]
      /\ gpio'.wrMask = gpio.wrMask
      /\ raised' = Interrupts(rtc, rtc')
      /\ After(rtc, gpio.wrMask, OnPort(value)) \in SUBSET All
      /\ \A l \in gpio.wrMask : l \in After(rtc, gpio.wrMask, OnPort(value)) <=> l \in value
  BY <1>2, <1>3, StoreToLines
<1> DEFINE lines == Driven(talk.lines, gpio.wrMask, value)
<1>5. lines \in SUBSET All /\ \A l \in gpio.wrMask : l \in lines <=> l \in value
  BY <1>1, <1>2, Lined
<1>6. talk' = [talk EXCEPT !.lines = lines]
  BY <1>3
<1> HIDE DEF lines
<1>7. talk' = [bits |-> talk.bits, lines |-> lines]
  BY <1>1, <1>6
<1>8. talk'.bits = talk.bits /\ talk'.lines = lines
  BY <1>7
<1>9. QED
  BY <1>4, <1>5, <1>7, <1>8

\* Letting go of the clock keeps them in step.
LEMMA DeselectRight ==
  ASSUME Attending, NEW now \in Now, Deselect(now)
  PROVE  Attending' /\ Answering' /\ ActsRight
<1> DEFINE p == After(rtc, gpio.wrMask, OnPort({}))
<1>1. CS \in talk.lines /\ turn' = "pins" /\ Drive({}, now) /\ heard' = <<>> /\ asked' = asked /\ astray' = astray
  BY DEF Deselect
<1>2. {} \in SUBSET All
  OBVIOUS
<1>3. gpio.wrMask \in {All, All \ {SIO}} /\ SCK \in gpio.wrMask /\ CS \in gpio.wrMask
  BY <1>1, Driving
<1>4. /\ rtc' = RTCWrite(rtc, gpio.wrMask, OnPort({}), now) /\ IsRTC(rtc')
      /\ gpio' = [allowReads |-> gpio'.allowReads, wrMask |-> gpio'.wrMask, portData |-> gpio'.portData]
      /\ gpio'.wrMask = gpio.wrMask
      /\ raised' = Interrupts(rtc, rtc')
      /\ p \in SUBSET All
      /\ \A l \in gpio.wrMask : l \in p <=> l \in {}
      /\ talk' = [bits |-> talk'.bits, lines |-> talk'.lines] /\ talk'.lines \in SUBSET All
      /\ \A l \in gpio.wrMask : l \in talk'.lines <=> l \in {}
  BY <1>1, <1>2, DriveIs
<1>5. IsRTC(rtc) /\ astray \in BOOLEAN
  BY DEF Attending, Attends
<1>6. CS \notin p /\ SCK \notin p /\ CS \notin talk'.lines /\ SCK \notin talk'.lines
  BY <1>3, <1>4
<1>7. rtc' = Ported(rtc, p)
  BY <1>4, <1>5, <1>6, WriteCases
<1> HIDE DEF p
<1>8. rtc'.port = p /\ rtc'.control = rtc.control /\ rtc'.state = rtc.state
  BY <1>4, <1>5, <1>7, PortedIs
<1>9. InStep(rtc', talk', heard', asked')
  BY <1>6, <1>8 DEF InStep
<1>10. Attending'
  <2>1. <<>> \in Heard
    BY DEF Heard
  <2>2. gpio'.wrMask \in {{}, All, All \ {SIO}}
    BY <1>3, <1>4
  <2>3. QED
    BY <1>1, <1>4, <1>5, <1>6, <1>9, <2>1, <2>2 DEF Attending, Attends
<1>11. Answering'
  BY <1>1 DEF Answering
<1>12. ActsRight
  BY <1>1, <1>4, <1>8 DEF ActsRight, Interrupts
<1>13. QED
  BY <1>10, <1>11, <1>12

\* The bit that comes next, and 0 after the frame.
LEMMA BitLevel ==
  /\ NextBit \in SUBSET {SIO} /\ Level(NextBit, SIO) \in {0, 1}
  /\ Said => Level(NextBit, SIO) = 0
  /\ ~Said /\ talk.bits[Len(heard) + 1] \in {0, 1} => Level(NextBit, SIO) = talk.bits[Len(heard) + 1]
BY DEF NextBit, Level

\* A bit set up while the clock is low is not heard yet.
LEMMA SetUpRight ==
  ASSUME Attending, NEW now \in Now, SetUp(now)
  PROVE  Attending' /\ Answering' /\ ActsRight
<1> DEFINE value == {CS} \cup NextBit
           p == After(rtc, gpio.wrMask, OnPort(value))
<1>1. /\ CS \in talk.lines /\ SCK \in talk.lines /\ turn' = "pins" /\ Drive(value, now)
      /\ heard' = heard /\ asked' = asked /\ astray' = astray
  BY DEF SetUp
<1>2. value \in SUBSET All /\ CS \in value /\ SCK \notin value
  BY Masks, BitLevel
<1>3. /\ gpio.wrMask \in {All, All \ {SIO}} /\ SCK \in gpio.wrMask /\ CS \in gpio.wrMask
      /\ Begun(gpio, talk, heard)
  BY <1>1, Driving
<1> HIDE DEF value
<1>4. /\ rtc' = RTCWrite(rtc, gpio.wrMask, OnPort(value), now) /\ IsRTC(rtc')
      /\ gpio' = [allowReads |-> gpio'.allowReads, wrMask |-> gpio'.wrMask, portData |-> gpio'.portData]
      /\ gpio'.wrMask = gpio.wrMask
      /\ raised' = Interrupts(rtc, rtc')
      /\ p \in SUBSET All
      /\ \A l \in gpio.wrMask : l \in p <=> l \in value
      /\ talk' = [bits |-> talk'.bits, lines |-> talk'.lines] /\ talk'.lines \in SUBSET All
      /\ talk'.bits = talk.bits
      /\ \A l \in gpio.wrMask : l \in talk'.lines <=> l \in value
  BY <1>1, <1>2, DriveIs
<1>5. /\ IsRTC(rtc) /\ astray \in BOOLEAN /\ heard \in Heard
      /\ ~astray => InStep(rtc, talk, heard, asked)
  BY DEF Attending, Attends
<1>6. CS \in p /\ SCK \notin p /\ CS \in talk'.lines /\ SCK \notin talk'.lines
  BY <1>2, <1>3, <1>4
<1>7. ASSUME ~astray
      PROVE  /\ rtc' = Ported(rtc, p) /\ rtc'.port = p /\ rtc'.control = rtc.control /\ rtc'.state = rtc.state
             /\ Decoded(rtc', heard, asked)
  <2>1. CS \in rtc.port /\ Decoded(rtc, heard, asked)
    BY <1>1, <1>5, <1>7 DEF InStep
  <2>2. rtc' = Ported(rtc, p)
    BY <1>4, <1>5, <1>6, <2>1, WriteCases
  <2> HIDE DEF p
  <2>3. Decoded(Ported(rtc, p), heard, asked)
    BY <1>4, <1>5, <2>1, PortedDecoded
  <2>4. QED
    BY <1>4, <1>5, <2>2, <2>3, PortedIs
<1> HIDE DEF p
<1>8. ~astray' => InStep(rtc', talk', heard', asked')
  BY <1>1, <1>6, <1>7 DEF InStep
<1>9. Begun(gpio', talk', heard')
  BY <1>1, <1>3, <1>4 DEF Begun
<1>10. Attending'
  <2>1. gpio'.wrMask \in {{}, All, All \ {SIO}}
    BY <1>3, <1>4
  <2>2. QED
    BY <1>1, <1>4, <1>5, <1>8, <1>9, <2>1 DEF Attending, Attends
<1>11. Answering'
  BY <1>1 DEF Answering
<1>12. ActsRight
  BY <1>1, <1>4, <1>7 DEF ActsRight, Interrupts
<1>13. QED
  BY <1>10, <1>11, <1>12

\* A bit that is clocked is heeded.
LEMMA ClockRight ==
  ASSUME Attending, NEW now \in Now, Clock(now)
  PROVE  Attending' /\ Answering' /\ ActsRight
<1> DEFINE value == {CS, SCK} \cup NextBit
           p == After(rtc, gpio.wrMask, OnPort(value))
           b == Level(NextBit, SIO)
           n == Ported(rtc, p)
<1>1. /\ CS \in talk.lines /\ SCK \notin talk.lines /\ turn' = "clock" /\ Drive(value, now)
      /\ heard' = Append(heard, b) /\ astray' = astray
      /\ asked' = AnswerOf(rtc, rtc', asked)
  BY DEF Clock, AnswerOf
<1>2. value \in SUBSET All /\ CS \in value /\ SCK \in value /\ (SIO \in value <=> SIO \in NextBit)
  BY Masks, BitLevel
<1>3. /\ gpio.wrMask \in {All, All \ {SIO}} /\ SCK \in gpio.wrMask /\ CS \in gpio.wrMask
      /\ Begun(gpio, talk, heard)
  BY <1>1, Driving
<1> HIDE DEF value
<1>4. /\ rtc' = RTCWrite(rtc, gpio.wrMask, OnPort(value), now) /\ IsRTC(rtc')
      /\ gpio' = [allowReads |-> gpio'.allowReads, wrMask |-> gpio'.wrMask, portData |-> gpio'.portData]
      /\ gpio'.wrMask = gpio.wrMask
      /\ raised' = Interrupts(rtc, rtc')
      /\ p \in SUBSET All
      /\ \A l \in gpio.wrMask : l \in p <=> l \in value
      /\ talk' = [bits |-> talk'.bits, lines |-> talk'.lines] /\ talk'.lines \in SUBSET All
      /\ talk'.bits = talk.bits
      /\ \A l \in gpio.wrMask : l \in talk'.lines <=> l \in value
  BY <1>1, <1>2, DriveIs
<1>5. /\ IsRTC(rtc) /\ astray \in BOOLEAN /\ heard \in Heard
      /\ ~astray => InStep(rtc, talk, heard, asked)
  BY DEF Attending, Attends
<1>6. CS \in p /\ SCK \in p /\ CS \in talk'.lines /\ SCK \in talk'.lines
  BY <1>2, <1>3, <1>4
<1>7. b \in {0, 1}
  BY BitLevel
<1>8. Taken(heard) => Level(p, SIO) = b
  <2>1. CASE SIO \in gpio.wrMask
    <3>1. SIO \in p <=> SIO \in NextBit
      BY <1>2, <1>4, <2>1
    <3> HIDE DEF p
    <3>2. QED
      BY <3>1 DEF Level
  <2>2. CASE SIO \notin gpio.wrMask
    <3>1. Len(heard) >= Len(talk.bits)
      BY <1>3, <2>2 DEF Begun
    <3>2. ~Taken(heard)
      BY <1>3, <1>5, <3>1, Whole
    <3>3. QED
      BY <3>2
  <2>3. QED
    BY <2>1, <2>2
<1> HIDE DEF b
<1>9. ASSUME ~astray PROVE Heeds(n, rtc', heard', asked)
  <2>1. CS \in rtc.port /\ SCK \notin rtc.port /\ Decoded(rtc, heard, asked)
    BY <1>1, <1>5, <1>9 DEF InStep
  <2>2. Heeds(n, RTCWrite(rtc, gpio.wrMask, OnPort(value), now), Append(heard, b), asked)
    BY <1>4, <1>5, <1>6, <1>7, <1>8, <2>1, Clocked
  <2>3. QED
    BY <1>1, <1>4, <2>2
<1>10. n.port = p /\ n.control = rtc.control /\ n.state = rtc.state
  <2>1. p \in SUBSET All
    BY <1>4
  <2>2. QED
    BY <1>5, <2>1, PortedIs
<1> HIDE DEF p, n
<1>11. asked' = AnswerOf(n, rtc', asked) /\ (Interrupts(rtc, rtc') <=> Interrupts(n, rtc'))
  BY <1>1, <1>10 DEF AnswerOf, Interrupts
<1>12. ASSUME ~astray
       PROVE  /\ InStep(rtc', talk', heard', asked') /\ Answered(rtc', heard', asked')
              /\ rtc'.control = ControlWith(rtc.control, heard')
              /\ Interrupts(rtc, rtc') <=> Acts(heard') /\ Meaning(heard').reg = ForceIRQ
  <2>1. /\ \A l \in {SCK, CS} : l \in rtc'.port <=> l \in n.port
        /\ Decoded(rtc', heard', asked') /\ Answered(rtc', heard', asked')
        /\ rtc'.control = ControlWith(n.control, heard')
        /\ Interrupts(n, rtc') <=> Acts(heard') /\ Meaning(heard').reg = ForceIRQ
    BY <1>9, <1>11, <1>12 DEF Heeds
  <2>2. InStep(rtc', talk', heard', asked')
    BY <1>6, <1>10, <2>1 DEF InStep
  <2>3. QED
    BY <1>10, <1>11, <2>1, <2>2
<1>13. /\ heard' \in Heard /\ Len(heard') = Len(heard) + 1 /\ Len(heard) \in Nat
       /\ heard'[Len(heard) + 1] = b /\ \A i \in 1 .. Len(heard) : heard'[i] = heard[i]
  BY <1>1, <1>5, <1>7, Appended
<1>14. Begun(gpio', talk', heard')
  <2>1. talk.bits \in Heard /\ talk.bits \in Frame /\ gpio.wrMask # {}
    BY <1>3, FrameAssumption DEF Begun, Heard
  <2>2. Len(talk.bits) \in Nat
    BY <2>1 DEF Heard
  <2>3. b = IF Len(heard) + 1 <= Len(talk.bits) THEN talk.bits[Len(heard) + 1] ELSE 0
    <3>1. CASE Said
      BY <1>13, <2>2, <3>1, BitLevel DEF Said, b
    <3>2. CASE ~Said
      <4>1. Len(heard) + 1 \in 1 .. Len(talk.bits)
        BY <1>13, <2>2, <3>2 DEF Said
      <4>2. talk.bits[Len(heard) + 1] \in {0, 1}
        BY <2>1, <4>1 DEF Heard
      <4>3. QED
        BY <3>2, <4>1, <4>2, BitLevel DEF b
    <3>3. QED
      BY <3>1, <3>2
  <2>4. \A k \in 1 .. Len(heard') : heard'[k] = IF k <= Len(talk.bits) THEN talk.bits[k] ELSE 0
    <3> SUFFICES ASSUME NEW k \in 1 .. Len(heard')
                 PROVE  heard'[k] = IF k <= Len(talk.bits) THEN talk.bits[k] ELSE 0
      OBVIOUS
    <3>1. CASE k = Len(heard) + 1
      BY <1>13, <2>3, <3>1
    <3>2. CASE k # Len(heard) + 1
      <4>1. k \in 1 .. Len(heard)
        BY <1>13, <3>2
      <4>2. heard[k] = IF k <= Len(talk.bits) THEN talk.bits[k] ELSE 0
        BY <1>3, <4>1 DEF Begun
      <4>3. QED
        BY <1>13, <4>1, <4>2
    <3>3. QED
      BY <3>1, <3>2
  <2>5. SIO \notin gpio.wrMask => Len(heard') >= Len(talk.bits)
    BY <1>3, <1>13, <2>2 DEF Begun
  <2>6. QED
    BY <1>4, <2>1, <2>4, <2>5 DEF Begun
<1>15. Attending'
  <2>1. gpio'.wrMask \in {{}, All, All \ {SIO}}
    BY <1>3, <1>4
  <2>2. QED
    BY <1>1, <1>4, <1>5, <1>12, <1>13, <1>14, <2>1 DEF Attending, Attends
<1>16. Answering'
  BY <1>1, <1>12 DEF Answering
<1>17. ActsRight
  BY <1>1, <1>4, <1>12 DEF ActsRight
<1>18. QED
  BY <1>15, <1>16, <1>17

\* Every step of the program keeps the clock in step with what it heard.
LEMMA GpioStep ==
  ASSUME Attending, GpioNext
  PROVE  Attending' /\ Answering' /\ ActsRight
<1>1. CASE WriteControl(~gpio.allowReads)
  BY <1>1, WriteControlRight
<1>2. CASE TurnRound
  BY <1>2, TurnRoundRight
<1>3. CASE ReadData
  BY <1>3, ReadDataRight
<1>4. ASSUME NEW now \in Now, NEW bits \in Frame, NEW clock \in SUBSET {SCK}, Select(bits, clock, now)
      PROVE  Attending' /\ Answering' /\ ActsRight
  BY <1>4, SelectRight
<1>5. ASSUME NEW now \in Now, Deselect(now)
      PROVE  Attending' /\ Answering' /\ ActsRight
  BY <1>5, DeselectRight
<1>6. ASSUME NEW now \in Now, SetUp(now)
      PROVE  Attending' /\ Answering' /\ ActsRight
  BY <1>6, SetUpRight
<1>7. ASSUME NEW now \in Now, Clock(now)
      PROVE  Attending' /\ Answering' /\ ActsRight
  BY <1>7, ClockRight
<1>8. QED
  BY <1>1, <1>2, <1>3, <1>4, <1>5, <1>6, <1>7, Zenon DEF GpioNext

\* raised is true or false after a step of the program.
LEMMA RaisedIsBoolean ==
  ASSUME GpioNext
  PROVE  raised' \in BOOLEAN /\ turn' \in {"pins", "select", "clock"}
<1>1. ASSUME NEW value, NEW now, WriteData(value, now)
      PROVE  raised' \in BOOLEAN
  <2> DEFINE n == RTCWrite(rtc, gpio.wrMask, OnPort(value), now)
  <2>1. raised' = (rtc.state = "Command" /\ n.state = "Complete" /\ Raises(n) /\ n.data[7] = 0)
    BY <1>1, Zenon DEF WriteData
  <2>2. QED
    BY <2>1, Zenon
<1>2. CASE WriteControl(~gpio.allowReads)
  BY <1>2 DEF WriteControl
<1>3. CASE TurnRound
  BY <1>3 DEF TurnRound, WriteDirection
<1>4. CASE ReadData
  BY <1>4 DEF ReadData
<1>5. ASSUME NEW now \in Now, NEW bits \in Frame, NEW clock \in SUBSET {SCK}, Select(bits, clock, now)
      PROVE  raised' \in BOOLEAN /\ turn' \in {"pins", "select", "clock"}
  <2>1. WriteData({CS} \cup clock, now) /\ turn' = "select"
    BY <1>5 DEF Select
  <2>2. QED
    BY <1>1, <2>1
<1>6. ASSUME NEW now \in Now, Deselect(now)
      PROVE  raised' \in BOOLEAN /\ turn' \in {"pins", "select", "clock"}
  <2>1. WriteData({}, now) /\ turn' = "pins"
    BY <1>6 DEF Deselect, Drive
  <2>2. QED
    BY <1>1, <2>1
<1>7. ASSUME NEW now \in Now, SetUp(now)
      PROVE  raised' \in BOOLEAN /\ turn' \in {"pins", "select", "clock"}
  <2>1. WriteData({CS} \cup NextBit, now) /\ turn' = "pins"
    BY <1>7 DEF SetUp, Drive
  <2>2. QED
    BY <1>1, <2>1
<1>8. ASSUME NEW now \in Now, Clock(now)
      PROVE  raised' \in BOOLEAN /\ turn' \in {"pins", "select", "clock"}
  <2>1. WriteData({CS, SCK} \cup NextBit, now) /\ turn' = "clock"
    BY <1>8 DEF Clock, Drive
  <2>2. QED
    BY <1>1, <2>1
<1>9. QED
  BY <1>2, <1>3, <1>4, <1>5, <1>6, <1>7, <1>8, Zenon DEF GpioNext

\* A save state has a program and a clock that were in step when it was made.
Saving ==
  saved.of # "none" => Attends(saved.gpio, saved.rtc, saved.talk, saved.heard, saved.asked, saved.astray)

Listening == Attending /\ Answering /\ Saving

\* A clock that was just made is in step.
LEMMA AtStart ==
  ASSUME NEW a
  PROVE  Attends(ResetGPIO, ResetRTC, NoTalk, <<>>, a, FALSE)
<1>1. ResetGPIO = [allowReads |-> FALSE, wrMask |-> {}, portData |-> {}]
  BY DEF ResetGPIO
<1>2. IsRTC(ResetRTC) /\ ResetRTC.port = {}
  <2> DEFINE data == [b \in 0 .. 7 |-> 0]
             buffer == [n \in 0 .. 6 |-> 0]
             control == [NoControl EXCEPT !.mode24h = TRUE]
  <2>1. data \in Bits8 /\ IsBuffer(buffer)
    BY DEF Bits8, IsBuffer
  <2> HIDE DEF data, buffer, control
  <2>2. IsRTC(RTCOf(0, 0, 0, data, buffer, {}, "Complete", control))
    BY <2>1, IsRTCOf
  <2>3. RTCOf(0, 0, 0, data, buffer, {}, "Complete", control).port = {}
    BY RTCFields
  <2>4. ResetRTC = RTCOf(0, 0, 0, data, buffer, {}, "Complete", control)
    BY Zenon DEF ResetRTC, RTCOf, data, buffer, control
  <2>5. QED
    BY <2>2, <2>3, <2>4
<1>3. NoTalk = [bits |-> <<>>, lines |-> {}]
  BY DEF NoTalk
<1>4. <<>> \in Heard
  BY DEF Heard
<1>5. InStep(ResetRTC, NoTalk, <<>>, a)
  BY <1>2, <1>3 DEF InStep
<1>6. QED
  BY <1>1, <1>2, <1>3, <1>4, <1>5 DEF Attends

\* The invariant holds at the start,
LEMMA ListeningStarts == Init => Listening
<1> SUFFICES ASSUME Init PROVE Listening
  OBVIOUS
<1>1. gpio = ResetGPIO /\ rtc = ResetRTC /\ talk = NoTalk /\ heard = <<>> /\ astray = FALSE /\ turn = "start"
      /\ saved = [of |-> "none"]
  BY DEF Init
<1>2. Attending
  BY <1>1, AtStart DEF Attending
<1>3. Answering /\ Saving
  BY <1>1 DEF Answering, Saving
<1>4. QED
  BY <1>2, <1>3 DEF Listening

\* A load takes over all but the levels on the lines.
LEMMA LoadAttends ==
  ASSUME Listening, NEW ok, LoadState(ok)
  PROVE  Attending'
<1>1. /\ gpio' = saved.gpio /\ rtc' = RTCLoaded(saved.rtc) /\ talk' = saved.talk /\ heard' = saved.heard
      /\ asked' = saved.asked /\ astray' = (saved.astray \/ rtc.port # saved.rtc.port) /\ saved.of # "none"
  BY DEF LoadState
<1>2. Attends(saved.gpio, saved.rtc, saved.talk, saved.heard, saved.asked, saved.astray) /\ IsRTC(rtc)
  BY <1>1 DEF Listening, Saving, Attending, Attends
<1>3. /\ IsRTC(saved.rtc) /\ rtc.port \in SUBSET All /\ saved.astray \in BOOLEAN
      /\ ~saved.astray => InStep(saved.rtc, saved.talk, saved.heard, saved.asked)
  <2>1. IsRTC(saved.rtc) /\ rtc.port \in SUBSET All /\ saved.astray \in BOOLEAN
    BY <1>2 DEF Attends, IsRTC
  <2>2. ~saved.astray => InStep(saved.rtc, saved.talk, saved.heard, saved.asked)
    BY <1>2 DEF Attends
  <2>3. QED
    BY <2>1, <2>2
<1>4. rtc' = Ported(saved.rtc, rtc.port)
  BY <1>1 DEF RTCLoaded, Ported
<1>5. IsRTC(rtc') /\ rtc'.port = rtc.port
  <2> DEFINE r == saved.rtc
             p == rtc.port
  <2>1. IsRTC(r) /\ p \in SUBSET All /\ rtc' = Ported(r, p)
    BY <1>3, <1>4
  <2> HIDE DEF r, p
  <2>2. IsRTC(rtc') /\ rtc'.port = p
    BY <2>1, PortedIs
  <2>3. QED
    BY <2>2 DEF p
<1>6. astray' \in BOOLEAN
  BY <1>1, <1>3
<1>7. ASSUME ~astray' PROVE InStep(rtc', talk', heard', asked')
  <2>1. ~saved.astray /\ rtc.port = saved.rtc.port
    BY <1>1, <1>7, Zenon
  <2>2. \A l \in {SCK, CS} : l \in saved.rtc.port <=> l \in saved.talk.lines
    BY <1>3, <2>1, Zenon DEF InStep
  <2>3. CS \in saved.talk.lines => Decoded(saved.rtc, saved.heard, saved.asked)
    BY <1>3, <2>1, Zenon DEF InStep
  <2>4. CS \in talk'.lines => Decoded(rtc', heard', asked')
    <3> DEFINE r == saved.rtc
               p == rtc.port
               h == saved.heard
               a == saved.asked
    <3>1. IsRTC(r) /\ p \in SUBSET All /\ rtc' = Ported(r, p) /\ talk' = saved.talk /\ heard' = h /\ asked' = a
      BY <1>1, <1>3, <1>4
    <3>2. CS \in talk'.lines => Decoded(r, h, a)
      BY <1>1, <2>3
    <3> HIDE DEF r, p, h, a
    <3>3. QED
      BY <3>1, <3>2, PortedDecoded
  <2>5. \A l \in {SCK, CS} : l \in rtc'.port <=> l \in talk'.lines
    BY <1>1, <1>5, <2>1, <2>2
  <2>6. QED
    BY <2>4, <2>5 DEF InStep
<1>8. /\ gpio' = [allowReads |-> gpio'.allowReads, wrMask |-> gpio'.wrMask, portData |-> gpio'.portData]
      /\ gpio'.wrMask \in {{}, All, All \ {SIO}}
      /\ talk' = [bits |-> talk'.bits, lines |-> talk'.lines] /\ talk'.lines \in SUBSET All
      /\ heard' \in Heard
  BY <1>1, <1>2 DEF Attends
<1>9. CS \in talk'.lines => Begun(gpio', talk', heard')
  BY <1>1, <1>2 DEF Attends
<1>10. QED
  BY <1>5, <1>6, <1>7, <1>8, <1>9 DEF Attending, Attends

\* and every step keeps it: of the program, of another chip, a restart, a
\* save and a load.
LEMMA ListeningStays ==
  ASSUME Listening, [Next]_vars
  PROVE  /\ Listening'
         /\ \/ UNCHANGED <<turn, rtc, heard, raised>>
            \/ ActsRight /\ raised' \in BOOLEAN
            \/ turn' \notin {"pins", "select", "clock"}
<1>1. ASSUME UNCHANGED <<saved, gpioVars>>
      PROVE  Listening' /\ UNCHANGED <<turn, rtc, heard, raised>>
  <2>1. UNCHANGED <<gpio, rtc, talk, heard, asked, astray, turn, raised, saved>>
    BY <1>1 DEF gpioVars
  <2>2. Attending'
    BY <2>1, Zenon DEF Listening, Attending
  <2>3. Answering' /\ Saving'
    BY <2>1, Zenon DEF Listening, Answering, Saving
  <2>4. QED
    BY <2>1, <2>2, <2>3 DEF Listening
<1>2. ASSUME Others("GPIO"), GpioNext
      PROVE  Listening' /\ ActsRight /\ raised' \in BOOLEAN
  <2>1. Attending' /\ Answering' /\ ActsRight
    BY <1>2, GpioStep DEF Listening
  <2>2. saved' = saved
    BY <1>2 DEF Others
  <2>3. Saving'
    BY <2>2, Zenon DEF Listening, Saving
  <2>4. QED
    BY <1>2, <2>1, <2>3, RaisedIsBoolean DEF Listening
<1>3. ASSUME NEW opens, NEW ok, Restart(opens, ok)
      PROVE  Listening' /\ turn' = "start"
  <2>1. /\ gpio' = ResetGPIO /\ rtc' = ResetRTC /\ talk' = NoTalk /\ heard' = <<>> /\ astray' = FALSE
        /\ turn' = "start" /\ saved' = saved
    BY <1>3, Zenon DEF Restart
  <2>2. Attends(ResetGPIO, ResetRTC, NoTalk, <<>>, asked', FALSE)
    BY AtStart
  <2>3. Attending'
    BY <2>1, <2>2, Zenon DEF Attending
  <2>4. Answering'
    BY <2>1 DEF Answering
  <2>5. Saving'
    BY <2>1, Zenon DEF Listening, Saving
  <2>6. QED
    BY <2>1, <2>3, <2>4, <2>5 DEF Listening
<1>4. ASSUME CopyState
      PROVE  Listening' /\ turn' = "save"
  <2>1. /\ UNCHANGED <<gpio, rtc, talk, heard, asked, astray>> /\ turn' = "save"
        /\ saved' = [of |-> "cartridge", memory |-> store.memory,
             flash |-> flash, job |-> job, orphan |-> orphan,
             eeprom |-> eeprom, ready |-> eepromReady, frame |-> frame, misled |-> misled,
             gpio |-> gpio, rtc |-> rtc, solar |-> solar,
             talk |-> talk, heard |-> heard, asked |-> asked, astray |-> astray]
    BY <1>4, Zenon DEF CopyState
  <2>2. /\ saved'.gpio = gpio /\ saved'.rtc = rtc /\ saved'.talk = talk /\ saved'.heard = heard
        /\ saved'.asked = asked /\ saved'.astray = astray
    BY <2>1
  <2>3. Attends(gpio, rtc, talk, heard, asked, astray)
    BY DEF Listening, Attending
  <2>4. Attending'
    BY <2>1, <2>3, Zenon DEF Attending
  <2>5. Saving'
    BY <2>2, <2>3, Zenon DEF Saving
  <2>6. Answering'
    BY <2>1 DEF Answering
  <2>7. QED
    BY <2>1, <2>4, <2>5, <2>6 DEF Listening
<1>5. ASSUME NEW ok, LoadState(ok)
      PROVE  Listening' /\ turn' = "load"
  <2>1. saved' = saved /\ turn' = "load"
    BY <1>5 DEF LoadState
  <2>2. Attending'
    BY <1>5, LoadAttends
  <2>3. Saving'
    BY <2>1, Zenon DEF Listening, Saving
  <2>4. Answering'
    BY <2>1 DEF Answering
  <2>5. QED
    BY <2>1, <2>2, <2>3, <2>4 DEF Listening
<1>6. CASE UNCHANGED vars
  BY <1>1, <1>6 DEF vars
<1>7. ASSUME NEW kind, Others(kind), UNCHANGED gpioVars
      PROVE  Listening' /\ UNCHANGED <<turn, rtc, heard, raised>>
  BY <1>1, <1>7 DEF Others
<1>8. "start" \notin {"pins", "select", "clock"} /\ "save" \notin {"pins", "select", "clock"}
      /\ "load" \notin {"pins", "select", "clock"}
  OBVIOUS
<1>9. CASE Next
  <2>1. \/ \E kind : Others(kind) /\ UNCHANGED gpioVars
        \/ Others("GPIO") /\ GpioNext
        \/ \E opens, ok : Restart(opens, ok)
        \/ CopyState
        \/ \E ok : LoadState(ok)
    BY <1>9, Zenon DEF Next
  <2>2. QED
    BY <1>2, <1>3, <1>4, <1>5, <1>7, <1>8, <2>1
<1>10. QED
  BY <1>6, <1>1, <1>9 DEF vars

\* So it holds always.
LEMMA ListeningAlways == Spec => []Listening
BY ListeningStarts, ListeningStays, PTL DEF Spec

\* It says what FramesDecoded says of the clock.
LEMMA ListeningDecodes ==
  ASSUME Listening
  PROVE  FramesDecoded
<1> SUFFICES ASSUME CS \in talk.lines, ~astray
             PROVE  LET m == Meaning(heard)
                        n == Len(m.rest)
                    IN  /\ CASE Commands(heard) = {} ->
                                  rtc.state = "Command" /\ rtc.currentBit = Len(heard) % 8
                             [] Commands(heard) # {} /\ n < Arguments(m) ->
                                  /\ rtc.reg = m.reg /\ rtc.state = IF m.asks THEN "Sending" ELSE "Receiving"
                                  /\ rtc.currentByte = n \div 8 /\ rtc.currentBit = n % 8
                             [] OTHER -> rtc.reg = m.reg /\ rtc.state = "Complete"
                        /\ Commands(heard) # {} /\ m.asks /\ n \in 1 .. Arguments(m) /\ turn = "clock" =>
                             Level(rtc.port, SIO) = BitOf(asked[(n - 1) \div 8], (n - 1) % 8)
  BY Zenon DEF FramesDecoded
<1> DEFINE m == Meaning(heard)
           n == Len(m.rest)
<1>1. Decoded(rtc, heard, asked)
  BY DEF Listening, Attending, Attends, InStep
<1>2. turn = "clock" => Answered(rtc, heard, asked)
  BY DEF Listening, Answering
<1>3. Commands(heard) = {} => rtc.state = "Command" /\ rtc.currentBit = Len(heard) % 8
  BY <1>1 DEF Decoded, Waiting
<1>4. Commands(heard) # {} => n \in Nat /\ Arguments(m) \in Nat
  <2>1. heard \in Heard
    BY DEF Listening, Attending, Attends
  <2>2. Commands(heard) # {} => m.rest \in Heard /\ m.reg \in 0 .. 7
    BY <2>1, Meanings
  <2>3. QED
    BY <2>2, RegistersAre DEF Arguments, Heard
<1>5. ASSUME Commands(heard) # {}, n < Arguments(m)
      PROVE  /\ rtc.reg = m.reg /\ rtc.state = IF m.asks THEN "Sending" ELSE "Receiving"
             /\ rtc.currentByte = n \div 8 /\ rtc.currentBit = n % 8
  <2>1. CASE m.asks
    <3>1. Telling(rtc, m, asked)
      BY <1>1, <1>5, <2>1, Zenon DEF Decoded
    <3>2. QED
      BY <2>1, <3>1, Zenon DEF Telling, At
  <2>2. CASE ~m.asks
    <3>1. Taking(rtc, m)
      BY <1>1, <1>5, <2>2, Zenon DEF Decoded
    <3>2. QED
      BY <2>2, <3>1, Zenon DEF Taking, At
  <2>3. QED
    BY <2>1, <2>2
<1>6. ASSUME Commands(heard) # {}, n >= Arguments(m)
      PROVE  rtc.reg = m.reg /\ rtc.state = "Complete"
  BY <1>1, <1>6, Zenon DEF Decoded, Finished
<1>7. Commands(heard) # {} /\ ~(n < Arguments(m)) => n >= Arguments(m)
  BY <1>4
<1>8. Commands(heard) # {} /\ m.asks /\ n \in 1 .. Arguments(m) /\ turn = "clock" =>
        Level(rtc.port, SIO) = BitOf(asked[(n - 1) \div 8], (n - 1) % 8)
  BY <1>2, Zenon DEF Answered
<1>9. CASE Commands(heard) = {}
  BY <1>3, <1>9, Zenon
<1>10. CASE Commands(heard) # {} /\ n < Arguments(m)
  BY <1>5, <1>8, <1>10, Zenon
<1>11. CASE Commands(heard) # {} /\ ~(n < Arguments(m))
  BY <1>6, <1>7, <1>8, <1>11, Zenon
<1>12. QED
  BY <1>9, <1>10, <1>11, Zenon

\* FramesDecoded: whatever was broken off, reset, saved or loaded before, the
\* clock has understood what was said to it since it was selected and no more,
\* waits for the bit that comes next, and answers with the register as it was
\* when it was asked (ReceiveCommandSIO, ReceiveBufferSIO, TransmitBufferSIO).
THEOREM FramesUnderstood == Spec => []FramesDecoded
BY ListeningAlways, ListeningDecodes, PTL

\* What a step does to the register and the interrupt, as FramesAct says it
ActsOnce ==
  ~astray /\ ~astray' /\ turn' \in {"pins", "select", "clock"} =>
       LET m == Meaning(heard')
           n == Len(m.rest)
           acts == /\ turn' = "clock" /\ Commands(heard') # {} /\ ~m.asks
                   /\ n = Arguments(m) /\ Len(heard') % 8 = 0
           byte == Number(SubSeq(m.rest, 1, 8))
       IN  /\ raised' = (acts /\ m.reg = ForceIRQ)
           /\ rtc'.control =
                CASE acts /\ m.reg = ControlReg -> ControlOf(rtc.control, byte)
                  [] acts /\ m.reg = ForceReset -> NoControl
                  [] OTHER -> rtc.control

\* It says what FramesAct says of a step.
LEMMA RightOnce ==
  ASSUME ActsRight, raised' \in BOOLEAN
  PROVE  ActsOnce
<1> SUFFICES ASSUME ~astray, ~astray', turn' \in {"pins", "select", "clock"}
             PROVE  LET m == Meaning(heard')
                        n == Len(m.rest)
                        acts == /\ turn' = "clock" /\ Commands(heard') # {} /\ ~m.asks
                                /\ n = Arguments(m) /\ Len(heard') % 8 = 0
                        byte == Number(SubSeq(m.rest, 1, 8))
                    IN  /\ raised' = (acts /\ m.reg = ForceIRQ)
                        /\ rtc'.control =
                             CASE acts /\ m.reg = ControlReg -> ControlOf(rtc.control, byte)
                               [] acts /\ m.reg = ForceReset -> NoControl
                               [] OTHER -> rtc.control
  BY Zenon DEF ActsOnce
<1> DEFINE m == Meaning(heard')
           n == Len(m.rest)
           acts == /\ turn' = "clock" /\ Commands(heard') # {} /\ ~m.asks
                   /\ n = Arguments(m) /\ Len(heard') % 8 = 0
           byte == Number(SubSeq(m.rest, 1, 8))
<1>1. CASE turn' = "clock"
  <2>1. (raised' <=> Acts(heard') /\ m.reg = ForceIRQ) /\ rtc'.control = ControlWith(rtc.control, heard')
    BY <1>1, Zenon DEF ActsRight
  <2>2. Acts(heard') <=> acts
    BY <1>1, Zenon DEF Acts
  <2>3. acts \in BOOLEAN /\ (m.reg = ForceIRQ) \in BOOLEAN
    BY Zenon
  <2>4. raised' = (acts /\ m.reg = ForceIRQ)
    BY <2>1, <2>2, Zenon
  <2>5. ControlReg # ForceReset
    BY DEF ControlReg, ForceReset
  <2> HIDE DEF acts
  <2>6. rtc'.control = CASE acts /\ m.reg = ControlReg -> ControlOf(rtc.control, byte)
                         [] acts /\ m.reg = ForceReset -> NoControl
                         [] OTHER -> rtc.control
    <3>1. CASE acts /\ m.reg = ControlReg
      BY <2>1, <2>2, <2>5, <3>1, Zenon DEF ControlWith
    <3>2. CASE acts /\ m.reg = ForceReset
      BY <2>1, <2>2, <2>5, <3>2, Zenon DEF ControlWith
    <3>3. CASE ~acts
      BY <2>1, <2>2, <3>3, Zenon DEF ControlWith
    <3>4. CASE m.reg # ControlReg /\ m.reg # ForceReset
      BY <2>1, <2>2, <3>4, Zenon DEF ControlWith
    <3>5. QED
      BY <3>1, <3>2, <3>3, <3>4, Zenon
  <2>7. QED
    BY <2>4, <2>6, Zenon DEF acts
<1>2. CASE turn' # "clock"
  <2>1. ~raised' /\ rtc'.control = rtc.control
    BY <1>2 DEF ActsRight
  <2>2. ~acts
    BY <1>2
  <2>3. raised' = (acts /\ m.reg = ForceIRQ)
    BY <2>1, <2>2, Zenon
  <2> HIDE DEF acts
  <2>4. rtc'.control = CASE acts /\ m.reg = ControlReg -> ControlOf(rtc.control, byte)
                         [] acts /\ m.reg = ForceReset -> NoControl
                         [] OTHER -> rtc.control
    BY <2>1, <2>2, Zenon
  <2>5. QED
    BY <2>3, <2>4, Zenon DEF acts
<1>3. QED
  BY <1>1, <1>2

\* FramesAct: a register is written, and the interrupt raised, by the last bit
\* of a frame that says so and by nothing else (WriteRegister).
THEOREM FramesActOnce == Spec => FramesAct
<1>1. Listening /\ [Next]_vars => [ActsOnce]_<<turn, rtc, heard, raised>>
  <2> SUFFICES ASSUME Listening, [Next]_vars PROVE [ActsOnce]_<<turn, rtc, heard, raised>>
    OBVIOUS
  <2>1. \/ UNCHANGED <<turn, rtc, heard, raised>>
        \/ ActsRight /\ raised' \in BOOLEAN
        \/ turn' \notin {"pins", "select", "clock"}
    BY ListeningStays
  <2>2. CASE ActsRight /\ raised' \in BOOLEAN
    BY <2>2, RightOnce
  <2>3. CASE turn' \notin {"pins", "select", "clock"}
    BY <2>3, Zenon DEF ActsOnce
  <2>4. QED
    BY <2>1, <2>2, <2>3
<1>2. FramesAct <=> [][ActsOnce]_<<turn, rtc, heard, raised>>
  BY Zenon DEF FramesAct, ActsOnce
<1>3. QED
  BY <1>1, <1>2, ListeningAlways, PTL DEF Spec
=============================================================================
