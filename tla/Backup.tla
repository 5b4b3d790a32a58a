--------------------------------- MODULE Backup ---------------------------------
(***************************************************************************)
(* The memory of a save chip and the .sav file behind it (BackupFile of    *)
(* internal/backup), and SRAM, which is that memory and nothing else.      *)
(* Every write goes to the memory and at once to the file; a write to the  *)
(* file that fails is only logged.                                         *)
(***************************************************************************)
EXTENDS Integers, Sequences, FiniteSets

CONSTANTS
  Cell,        \* the values of a cell of memory
  Erased       \* the value a fresh cell has (0xFF)

ASSUME CellAssumption == Cell \subseteq Nat /\ {0, Erased} \subseteq Cell

VARIABLES
  did,         \* history: what the last step was
  store        \* the BackupFile and what is known of its file:
               \*   memory : its cells, from 0
               \*   stream : whether there is a file
               \*   disk : what a reader of the file finds; empty without one
               \*   missed : history: the cells whose last write failed
               \*   panicked : an access was outside the memory, which ends
               \*     the process

Cells(n) == 0 .. n - 1
Size(s) == Cardinality(DOMAIN s.memory)
Blank(n) == [i \in Cells(n) |-> Erased]
-----------------------------------------------------------------------------
\* The file after a write of the cells `span` of `memory`: writing past its
\* end makes it longer, and what was skipped reads as zero.
Overwritten(disk, memory, span) ==
  [i \in DOMAIN disk \cup UNION {0 .. j : j \in span} |->
     IF i \in span THEN memory[i] ELSE IF i \in DOMAIN disk THEN disk[i] ELSE 0]

\* The write of a span to the file, which may fail.
Update(s, span, ok) ==
  CASE ~s.stream -> s
    [] s.stream /\ ok -> [s EXCEPT !.disk = Overwritten(@, s.memory, span), !.missed = @ \ span]
    [] s.stream /\ ~ok -> [s EXCEPT !.missed = @ \cup span]

\* What a bug could do: the block goes to the file before it is set.
MemorySetLate(s, span, value, ok) ==
  [Update(s, span, ok) EXCEPT !.memory = [i \in DOMAIN @ |-> IF i \in span THEN value ELSE @[i]]]

Panicked(s) == [s EXCEPT !.panicked = TRUE]

\* The memory with `value` in a span; Write's span is one cell.
MemorySet(s, span, value, ok) ==
  IF span \subseteq DOMAIN s.memory
  THEN Update([s EXCEPT !.memory = [i \in DOMAIN @ |-> IF i \in span THEN value ELSE @[i]]], span, ok)
  ELSE Panicked(s)

Write(s, i, value, ok) == MemorySet(s, {i}, value, ok)

\* What a bug could do: the memory is loaded and the file is not.
MemoryLoadedOnly(s, data, ok) ==
  [s EXCEPT !.memory = [i \in DOMAIN @ |-> IF i \in DOMAIN data THEN data[i] ELSE 0]]

\* The chip's memory as a save state holds it: zero beyond what was saved.
MemoryLoaded(s, data, ok) ==
  Update([s EXCEPT !.memory = [i \in DOMAIN @ |-> IF i \in DOMAIN data THEN data[i] ELSE 0]],
         DOMAIN s.memory, ok)

NewInMemory(n, disk) ==
  [memory |-> Blank(n), stream |-> FALSE, disk |-> disk, missed |-> {}, panicked |-> FALSE]

\* A file of a valid size is taken over as it is; any other is made anew, of
\* the size that is asked for.  A file that cannot be opened leaves the chip
\* with its memory only.
OpenOrCreate(disk, valid, n, opens, ok) ==
  CASE ~opens -> NewInMemory(n, disk)
    [] opens /\ Cardinality(DOMAIN disk) \in valid ->
         [memory |-> disk, stream |-> TRUE, disk |-> disk, missed |-> {}, panicked |-> FALSE]
    [] opens /\ Cardinality(DOMAIN disk) \notin valid ->
         Update([memory |-> Blank(n), stream |-> TRUE, disk |-> <<>>, missed |-> {}, panicked |-> FALSE],
                Cells(n), ok)

\* Bound: a write fails only while the file has all the others.
MayFail(ok) == ok \/ store.missed = {}
-----------------------------------------------------------------------------
\* A store of the program to SRAM.
SRAMWrite(i, value, ok) ==
  /\ MayFail(ok)
  /\ store' = Write(store, i, value, ok)
  /\ did' = "store"

\* The file is what the memory is, but for the cells whose write failed: a
\* program can be ended, or end by itself, at any moment.
FileMirrorsMemory ==
  store.stream =>
    \A i \in DOMAIN store.memory \ store.missed :
      i \in DOMAIN store.disk /\ store.disk[i] = store.memory[i]
=============================================================================
