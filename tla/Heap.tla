---------------------------------- MODULE Heap ----------------------------------
(***************************************************************************)
(* Go's container/heap on the scheduler's pq: a binary heap in a slice,    *)
(* here a sequence with the top at position 1.  pq.Less compares keys only,*)
(* so two events of one key leave the heap in an order that depends on     *)
(* where the other pushes and pops have put them.                          *)
(***************************************************************************)
EXTENDS Integers, Sequences
LOCAL INSTANCE SequencesExt

CONSTANT KeyOf(_)   \* (timestamp << 2) | priority of an event

Less(h, i, j) == KeyOf(h[i]) < KeyOf(h[j])
Swapped(h, i, j) == [h EXCEPT ![i] = h[j], ![j] = h[i]]

\* One turn of up: the element at `at` rises over its parent.
Rise(s) ==
  LET parent == s.at \div 2
  IN  IF parent > 0 /\ Less(s.heap, s.at, parent)
      THEN [heap |-> Swapped(s.heap, s.at, parent), at |-> parent]
      ELSE s

\* One turn of down: the element at `at` sinks below its smaller child, the
\* left one when both have the same key.
Sink(s) ==
  LET left  == 2 * s.at
      right == left + 1
      child == IF right <= Len(s.heap) /\ Less(s.heap, right, left)
               THEN right ELSE left
  IN  IF left <= Len(s.heap) /\ Less(s.heap, child, s.at)
      THEN [heap |-> Swapped(s.heap, s.at, child), at |-> child]
      ELSE s

\* As many turns as the heap has elements are enough: a turn that moves
\* nothing is the loop's break.
Turns(Turn(_), h, from) ==
  FoldLeft(LAMBDA s, x : Turn(s), [heap |-> h, at |-> from], h).heap

Push(h, e) == Turns(Rise, Append(h, e), Len(h) + 1)

Pop(h) ==
  Turns(Sink, SubSeq(Swapped(h, 1, Len(h)), 1, Len(h) - 1), 1)
=============================================================================
