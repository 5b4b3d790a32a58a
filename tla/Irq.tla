---------------------------------- MODULE Irq ----------------------------------
(***************************************************************************)
(* The interrupt controller (internal/irq/irq.go) at work: the CPU writes  *)
(* its registers and halts, devices raise interrupts at any time, and the  *)
(* delayed updates travel through the scheduler's queue to the flag that   *)
(* wakes the halted CPU (core.go, Core.Run) and to the CPU's line.         *)
(*                                                                         *)
(* Events of one key are taken from the agenda in any order, as the        *)
(* scheduler promises no more.  The order matters for some of them: the    *)
(* history variable `raced` remembers that two such events met.            *)
(***************************************************************************)
EXTENDS IrqController, Agenda, FiniteSets

CONSTANT
  Copy        \* bound: what tells apart queued events that are equal otherwise

VARIABLES
  irq,        \* the registers: a Controller
  queue,      \* the controller's events [due, pri, kind, on, copy]
  cpuLine,    \* ARM7TDMI.IrqLine
  cpu,        \* Bus.Haltcnt and where Core.Run is: "run", "halting", "halt", "wake"
  raced       \* two conflicting events of one key have been in the queue

vars == <<irq, queue, cpuLine, cpu, raced>>

QueuedEvent ==
  [due : Nat, pri : Priority, kind : Kind, on : BOOLEAN, copy : Copy]

TypeOK ==
  /\ irq \in Controller
  /\ queue \subseteq QueuedEvent
  /\ cpuLine \in BOOLEAN
  /\ cpu \in {"run", "halting", "halt", "wake"}
  /\ raced \in BOOLEAN

Init ==
  /\ irq = Reset
  /\ queue = {}
  /\ cpuLine = FALSE
  /\ cpu = "run"
  /\ raced = FALSE
-----------------------------------------------------------------------------
\* The c-th of the queued events that look like e: the scheduler's queue keeps
\* equal events apart.
Nth(e, c) ==
  [due |-> e.due, pri |-> e.pri, kind |-> e.kind, on |-> e.on, copy |-> c]

FreeCopies(q, e) == {c \in Copy : Nth(e, c) \notin q}

\* Queue q with the events of es too.
Scheduled(q, es) ==
  q \cup {Nth(e, CHOOSE c \in Copy : c \in FreeCopies(q, e)) : e \in es}

HasRoom(q, es) == \A e \in es : FreeCopies(q, e) # {}

Commits == {e \in queue : e.kind = "WriteIO"}

\* The order of these two matters although their keys are equal: a commit
\* looks at the flag an update sets, and two updates of one thing disagree.
Conflict(e, f) ==
  /\ Key(e) = Key(f)
  /\ \/ {e.kind, f.kind} = {"WriteIO", "UpdateIEAndIF"}
     \/ e.kind = f.kind /\ e.on # f.on

Races(q) == \E e, f \in q : Conflict(e, f)

\* The CPU acts between two calls of Bus.Step: every event that is due has fired.
CPURuns == cpu = "run" /\ DueNow(queue) = {}

\* Register change r and its commit.  The bound keeps a copy for every update
\* the queued commits may schedule.
Changes(r, commit) ==
  /\ Cardinality(Commits) < Cardinality(Copy)
  /\ HasRoom(queue, {commit})
  /\ irq' = r
  /\ queue' = Scheduled(queue, {commit})
  /\ raced' = (raced \/ Races(queue'))
  /\ UNCHANGED <<cpuLine, cpu>>

CPUWrites(r) == CPURuns /\ Changes(r, WriteCommit)

CPUWritesIE(v) == CPUWrites(WriteIE(irq, v))
CPUWritesIF(v) == CPUWrites(WriteIF(irq, v))
CPUWritesIME(v) == CPUWrites(WriteIME(irq, v))

\* An 8-bit store to IME reaches IRQ.WriteByte with offset 8 where regIME is 4:
\* no register changes, and the commit is scheduled all the same.
CPUWritesIMEByte == CPUWrites(irq)

\* Mutant: the raised source waits for the next register write to be committed.
RaiseSilently(s) ==
  /\ irq' = Raised(irq, s)
  /\ UNCHANGED <<queue, cpuLine, cpu, raced>>

\* IRQ.Raise, from the callback of a device's event at any point of a cycle or
\* from code that runs between two steps (DMA, keypad).
Raise(s) == Changes(Raised(irq, s), RaiseCommit)

\* One cycle passes.  Storing to HALTCNT and waking up take one each; the halt
\* loop tests ShouldUnhaltCPU after every step, before more time passes.
Tick ==
  /\ DueNow(queue) = {}
  /\ ~(cpu = "halt" /\ irq.irqAvailable)
  /\ queue' = Elapsed(queue, 1)
  /\ cpu' = CASE cpu = "halting" -> "halt"
              [] cpu = "wake"    -> "run"
              [] OTHER           -> cpu
  /\ UNCHANGED <<irq, cpuLine, raced>>

OnWriteIO(e) ==
  /\ e.kind = "WriteIO"
  /\ LET c  == Committed(irq)
         es == AvailabilityUpdates(irq, c) \cup LineUpdates(irq, c)
     IN  /\ irq' = c
         /\ HasRoom(queue \ {e}, es)
         /\ queue' = Scheduled(queue \ {e}, es)
  /\ raced' = (raced \/ Races(queue'))
  /\ UNCHANGED <<cpuLine, cpu>>

OnUpdateIEAndIF(e) ==
  /\ e.kind = "UpdateIEAndIF"
  /\ irq' = [irq EXCEPT !.irqAvailable = e.on]
  /\ queue' = queue \ {e}
  /\ UNCHANGED <<cpuLine, cpu, raced>>

OnUpdateIRQLine(e) ==
  /\ e.kind = "UpdateIRQLine"
  /\ cpuLine' = e.on
  /\ queue' = queue \ {e}
  /\ UNCHANGED <<irq, cpu, raced>>

Fire(e) ==
  /\ e \in Frontier(DueNow(queue))
  /\ \/ OnWriteIO(e)
     \/ OnUpdateIEAndIF(e)
     \/ OnUpdateIRQLine(e)

\* A store to HALTCNT by the BIOS.
CPUHalts ==
  /\ CPURuns
  /\ cpu' = "halting"
  /\ UNCHANGED <<irq, queue, cpuLine, raced>>

\* Core.Run's loop finds ShouldUnhaltCPU.
CPUWakes ==
  /\ cpu = "halt"
  /\ DueNow(queue) = {}
  /\ irq.irqAvailable
  /\ cpu' = "wake"
  /\ UNCHANGED <<irq, queue, cpuLine, raced>>

FireSome == \E e \in queue : Fire(e)

Next ==
  \/ \E v \in SUBSET Source : CPUWritesIE(v)
  \/ \E v \in SUBSET Source : CPUWritesIF(v)
  \/ \E v \in BOOLEAN : CPUWritesIME(v)
  \/ CPUWritesIMEByte
  \/ \E s \in Source : Raise(s)
  \/ Tick
  \/ \E e \in queue : Fire(e)
  \/ CPUHalts
  \/ CPUWakes

\* The emulation loop keeps stepping the scheduler, whatever the CPU and the
\* devices do, and the halt loop tests ShouldUnhaltCPU after every step.
Fairness == WF_vars(Tick) /\ WF_vars(FireSome) /\ WF_vars(CPUWakes)

Spec == Init /\ [][Next]_vars /\ Fairness
-----------------------------------------------------------------------------
\* At whatever instant the state is saved, between a write and its commit or
\* between a commit and its updates, loading it brings back the controller that
\* was saved: irqLine, which the save state leaves out and LoadState rebuilds
\* from the registers, is then what the line was last scheduled to be.
LoadRestores == LoadState(CopyState(irq)) = irq

\* A register write or a raised source that is not committed yet has its commit
\* under way, at most a cycle ahead: no interrupt stays in pendingIF for ever.
CommitUnderWay ==
  \/ /\ irq.regIME = irq.pendingIME
     /\ irq.regIE = irq.pendingIE
     /\ irq.regIF = irq.pendingIF
  \/ \E e \in queue : e.kind = "WriteIO" /\ e.due <= 1

\* When everything under way has arrived and no two conflicting events ever
\* met, the pipeline's two outputs agree with the registers: the wake-up flag
\* with IE and IF, and the CPU's line with the line last scheduled.
SettledAgrees ==
  queue = {} /\ ~raced => /\ irq.irqAvailable = Requested(irq)
                          /\ cpuLine = irq.irqLine

\* A raised source is forgotten only by the CPU acknowledging that very source.
OnlyAckForgets ==
  [][ \A s \in irq.pendingIF \ irq'.pendingIF :
        cpu = "run" /\ \E v \in SUBSET Source : s \in v /\ CPUWritesIF(v) ]_vars

\* A CPU that halts with an enabled interrupt requested, or that is halted when
\* one is raised, comes back, unless conflicting events met.
HaltedWakes ==
  (cpu = "halt" /\ irq.pendingIE \cap irq.pendingIF # {}) ~> (cpu = "run" \/ raced)
=============================================================================
