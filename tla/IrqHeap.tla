-------------------------------- MODULE IrqHeap --------------------------------
(***************************************************************************)
(* The interrupt controller on the scheduler's real queue: a binary heap   *)
(* (module Heap) that the other components' events share.  Irq leaves the  *)
(* order of equal keys open; here it is the one the code produces.         *)
(***************************************************************************)
EXTENDS IrqController, Sequences, SequencesExt

CONSTANTS
  Delay, Pri,   \* delays and priorities of the other components' events
  Far,          \* when the end-of-queue sentinel is due; it does not come closer
  MaxQueue      \* bound: length of the heap's slice

VARIABLES
  irq,        \* the registers: a Controller
  queue       \* the heap's slice of [due, pri, kind, on], due relative to now

vars == <<irq, queue>>

KeyOf(e) == 4 * e.due + e.pri

Binary == INSTANCE Heap

Sentinel == [due |-> Far, pri |-> 0, kind |-> "EndOfQueue", on |-> FALSE]

\* An event of another component.
Device(d, p) == [due |-> d, pri |-> p, kind |-> "Device", on |-> FALSE]

Init == irq = Reset /\ queue = <<Sentinel>>

Top == queue[1]

\* Between two steps of the scheduler.
Quiet == Top.due > 0

\* Events es, in the order the code adds them.
Push(q, es) == FoldLeft(Binary!Push, q, es)

\* onWriteIO schedules the flag's update before the line's.
SetAsSeq(es) == SetToSortSeq(es, LAMBDA e, f : e.due < f.due)

Changes(r, commit) ==
  /\ Len(queue) < MaxQueue
  /\ irq' = r
  /\ queue' = Push(queue, <<commit>>)

\* Stores of the CPU.
CPUWritesIE(v) == Quiet /\ Changes(WriteIE(irq, v), WriteCommit)
CPUWritesIF(v) == Quiet /\ Changes(WriteIF(irq, v), WriteCommit)

\* The end of a DMA transfer, which runs between two steps.
TransferRaises(s) == Quiet /\ Changes(Raised(irq, s), RaiseCommit)

\* A register write of another component.
DeviceSchedules(d, p) ==
  /\ Quiet
  /\ Len(queue) < MaxQueue
  /\ queue' = Push(queue, <<Device(d, p)>>)
  /\ UNCHANGED irq

Tick ==
  /\ Quiet
  /\ queue' = [i \in DOMAIN queue |->
                 IF queue[i].due = Far THEN queue[i]
                                       ELSE [queue[i] EXCEPT !.due = @ - 1]]
  /\ UNCHANGED irq

Fire ==
  /\ Top.due = 0
  /\ LET rest == Binary!Pop(queue)
     IN CASE Top.kind = "WriteIO" ->
               LET c == Committed(irq)
               IN  /\ irq' = c
                   /\ queue' = Push(rest, SetAsSeq(AvailabilityUpdates(irq, c)
                                                     \cup LineUpdates(irq, c)))
          [] Top.kind = "UpdateIEAndIF" ->
               irq' = [irq EXCEPT !.irqAvailable = Top.on] /\ queue' = rest
          [] OTHER -> irq' = irq /\ queue' = rest

Next ==
  \/ \E v \in SUBSET Source : CPUWritesIE(v)
  \/ \E v \in SUBSET Source : CPUWritesIF(v)
  \/ \E s \in Source : TransferRaises(s)
  \/ \E d \in Delay, p \in Pri : DeviceSchedules(d, p)
  \/ Tick
  \/ Fire

Spec == Init /\ [][Next]_vars
-----------------------------------------------------------------------------
\* irq.go:131 gives a register write's commit the lower priority so that "a
\* same-cycle IRQ source isn't masked by a register write": when none of the
\* controller's events is under way, the CPU is woken up exactly if an enabled
\* interrupt is requested.
SourceNotMasked ==
  (\A i \in DOMAIN queue : queue[i].kind \notin Kind)
    => irq.irqAvailable = Requested(irq)
=============================================================================
